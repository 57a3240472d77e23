------------------------------- MODULE Schema -------------------------------
(****************************************************************************)
(* The tables that revisions 0002 and 0009 create, as PostgreSQL holds them *)
(* right after the revision that creates them.                              *)
(*                                                                          *)
(* A table is kept as what a later statement, a row or a foreign key can    *)
(* collide with: its required and optional columns, its unique constraints  *)
(* (name to column set; the primary key is {"id"} for every table), its     *)
(* foreign keys, the names of its checks and indexes, and its enum columns  *)
(* with their server default. Column types other than enums, other defaults *)
(* and the columns of plain indexes are left out.                           *)
(****************************************************************************)
EXTENDS Sequences

NoDefault == "no default"
NoEntries == << >>                  \* no constraint, or no enum column

\* The columns nearly every tenant-owned table has.
Row == {"id", "tenant_id", "created_at"}
Stamped == Row \cup {"updated_at"}

\* UNIQUE (tenant_id, id): the key that a composite foreign key refers to.
OwnKey == {"tenant_id", "id"}

\* The shapes a foreign key takes. key is the list of referenced columns.
Foreign(cols, parent, key, ondelete) ==
  [cols |-> cols, parent |-> parent, key |-> key, ondelete |-> ondelete]

ToTenant == Foreign(<<"tenant_id">>, "tenants", <<"id">>, "CASCADE")

ById(col, parent, ondelete) == Foreign(<<col>>, parent, <<"id">>, ondelete)

InTenant(col, parent, ondelete) ==
  Foreign(<<"tenant_id", col>>, parent, <<"tenant_id", "id">>, ondelete)

InPackage(col, parent, ondelete) ==
  Foreign(<<"tenant_id", "package_id", col>>, parent, <<"tenant_id", "package_id", "id">>, ondelete)

ToChunk(ondelete) ==
  Foreign(<<"tenant_id", "source_id">>, "chunks", <<"tenant_id", "source_id">>, ondelete)

OfType(type, default) == [type |-> type, default |-> default]

----------------------------------------------------------------------------
(* 0002_document_data_model: tenants, documents and what hangs off them. *)

tenants ==
  [required |-> {"id", "slug", "name", "created_at", "updated_at"},
   optional |-> {},
   unique |-> [slug_key |-> {"slug"}],
   foreign |-> NoEntries,
   checks |-> {},
   indexes |-> {},
   enums |-> NoEntries]

documents ==
  [required |-> Stamped \cup {"filename", "mime_type", "storage_key", "file_hash", "status"},
   optional |-> {"content_hash", "title", "document_type", "summary", "embedding_provider",
      "embedding_model", "embedding_version", "deleted_at"},
   unique |-> NoEntries,
   foreign |-> [tenant_id_fkey |-> ToTenant],
   checks |-> {"ck_documents_file_hash_sha256", "ck_documents_content_hash_sha256"},
   indexes |-> {"uq_documents_tenant_file_hash_live", "ix_documents_tenant_content_hash",
      "ix_documents_tenant_status"},
   enums |-> [status |-> OfType("document_status", "pending")]]

chunks ==
  [required |-> Row \cup {"document_id", "ordinal", "text", "source_id", "source_metadata"},
   optional |-> {"page_number", "section_title"},
   unique |-> [uq_chunks_document_ordinal |-> {"document_id", "ordinal"},
      uq_chunks_tenant_source_id |-> {"tenant_id", "source_id"}],
   foreign |-> [tenant_id_fkey |-> ToTenant,
      chunks_document_id_fkey |-> ById("document_id", "documents", "CASCADE")],
   checks |-> {"ck_chunks_ordinal_non_negative"},
   indexes |-> {"ix_chunks_tenant_document"},
   enums |-> NoEntries]

document_profiles ==
  [required |-> Stamped \cup {"document_id", "organizations", "persons", "dates", "identifiers",
      "topics"},
   optional |-> {"language", "summary"},
   unique |-> [uq_document_profiles_document |-> {"document_id"}],
   foreign |-> [tenant_id_fkey |-> ToTenant,
      document_profiles_document_id_fkey |-> ById("document_id", "documents", "CASCADE")],
   checks |-> {},
   indexes |-> {"ix_document_profiles_tenant"},
   enums |-> NoEntries]

document_relations ==
  [required |-> Row \cup {"source_document_id", "target_document_id", "relation_type"},
   optional |-> {"score"},
   unique |-> [uq_document_relations_edge |-> {"tenant_id", "source_document_id", "target_document_id", "relation_type"}],
   foreign |-> [tenant_id_fkey |-> ToTenant,
      document_relations_source_document_id_fkey |-> ById("source_document_id", "documents", "CASCADE"),
      document_relations_target_document_id_fkey |-> ById("target_document_id", "documents", "CASCADE")],
   checks |-> {"ck_document_relations_score_range", "ck_document_relations_no_self_edge"},
   indexes |-> {"ix_document_relations_tenant_source"},
   enums |-> [relation_type |-> OfType("relation_type", NoDefault)]]

ingestion_jobs ==
  [required |-> Stamped \cup {"document_id", "status", "attempts", "max_attempts",
      "available_at"},
   optional |-> {"last_error", "claimed_at", "claimed_by"},
   unique |-> NoEntries,
   foreign |-> [tenant_id_fkey |-> ToTenant,
      ingestion_jobs_document_id_fkey |-> ById("document_id", "documents", "CASCADE")],
   checks |-> {"ck_ingestion_jobs_attempts_non_negative",
      "ck_ingestion_jobs_max_attempts_positive"},
   indexes |-> {"uq_ingestion_jobs_live_document", "ix_ingestion_jobs_claimable",
      "ix_ingestion_jobs_tenant"},
   enums |-> [status |-> OfType("job_status", "queued")]]

\* The enum types these tables create, and the ENUM_TYPES their downgrade drops.
DocumentTypes ==
  [document_status |->
      {"pending", "processing", "ready", "failed"},
   relation_type |->
      {"exact_duplicate", "content_duplicate", "version_of", "related"},
   job_status |->
      {"queued", "processing", "finished", "failed"}]

----------------------------------------------------------------------------
(* 0009_engineering: the machine and evidence tables. *)

machine_packages ==
  [required |-> Stamped \cup {"slug", "name", "status"},
   optional |-> {},
   unique |-> [uq_machine_packages_tenant_id_id |-> OwnKey,
      uq_machine_packages_tenant_slug |-> {"tenant_id", "slug"}],
   foreign |-> [tenant_id_fkey |-> ToTenant],
   checks |-> {},
   indexes |-> {"ix_machine_packages_tenant"},
   enums |-> [status |-> OfType("package_status", "draft")]]

derived_behavior_claims ==
  [required |-> Stamped \cup {"package_id", "claim_kind", "identity_status", "confidence",
      "method", "method_version", "dependency_path", "attributes"},
   optional |-> {},
   unique |-> [uq_behavior_claims_tenant_id_id |-> OwnKey],
   foreign |-> [tenant_id_fkey |-> ToTenant,
      fk_behavior_claims_tenant_package |-> InTenant("package_id", "machine_packages", "CASCADE")],
   checks |-> {"ck_behavior_claims_dependency_array", "ck_behavior_claims_confidence"},
   indexes |-> {"ix_behavior_claims_tenant_package"},
   enums |-> [claim_kind |-> OfType("behavior_claim_kind", NoDefault),
      identity_status |-> OfType("identity_status", "unresolved")]]

engineering_conflicts ==
  [required |-> Stamped \cup {"package_id", "conflict_kind", "status", "left_subject_kind",
      "left_subject_id", "right_subject_kind", "right_subject_id", "method", "method_version",
      "attributes"},
   optional |-> {},
   unique |-> [uq_engineering_conflicts_tenant_id_id |-> OwnKey],
   foreign |-> [tenant_id_fkey |-> ToTenant,
      fk_engineering_conflicts_tenant_package |-> InTenant("package_id", "machine_packages", "CASCADE")],
   checks |-> {},
   indexes |-> {"ix_engineering_conflicts_tenant_package"},
   enums |-> [conflict_kind |-> OfType("conflict_kind", NoDefault),
      status |-> OfType("conflict_status", "open")]]

human_overrides ==
  [required |-> Row \cup {"package_id", "subject_kind", "subject_id", "actor_id",
      "previous_payload", "new_payload"},
   optional |-> {},
   unique |-> [uq_human_overrides_tenant_id_id |-> OwnKey],
   foreign |-> [tenant_id_fkey |-> ToTenant,
      fk_human_overrides_tenant_package |-> InTenant("package_id", "machine_packages", "CASCADE")],
   checks |-> {},
   indexes |-> {"ix_human_overrides_tenant_subject"},
   enums |-> [subject_kind |-> OfType("evidence_subject_kind", NoDefault)]]

machines ==
  [required |-> Stamped \cup {"package_id", "name", "identity_status", "attributes"},
   optional |-> {"code", "revision"},
   unique |-> [uq_machines_tenant_id_id |-> OwnKey],
   foreign |-> [tenant_id_fkey |-> ToTenant,
      fk_machines_tenant_package |-> InTenant("package_id", "machine_packages", "CASCADE")],
   checks |-> {},
   indexes |-> {"ix_machines_tenant_package", "uq_machines_package_code"},
   enums |-> [identity_status |-> OfType("identity_status", "unresolved")]]

package_documents ==
  [required |-> Row \cup {"package_id", "document_id"},
   optional |-> {"relative_path"},
   unique |-> [uq_package_documents_tenant_id_id |-> OwnKey,
      uq_package_documents_membership |-> {"tenant_id", "package_id", "document_id"}],
   foreign |-> [tenant_id_fkey |-> ToTenant,
      fk_package_documents_tenant_document |-> InTenant("document_id", "documents", "CASCADE"),
      fk_package_documents_tenant_package |-> InTenant("package_id", "machine_packages", "CASCADE")],
   checks |-> {},
   indexes |-> {"ix_package_documents_tenant_document"},
   enums |-> NoEntries]

unsupported_constructs ==
  [required |-> Row \cup {"package_id", "construct_code", "method", "method_version",
      "attributes"},
   optional |-> {"document_id"},
   unique |-> [uq_unsupported_constructs_tenant_id_id |-> OwnKey],
   foreign |-> [tenant_id_fkey |-> ToTenant,
      fk_unsupported_constructs_tenant_document |-> InTenant("document_id", "documents", "SET NULL"),
      fk_unsupported_constructs_tenant_package |-> InTenant("package_id", "machine_packages", "CASCADE")],
   checks |-> {},
   indexes |-> {"ix_unsupported_constructs_tenant_package"},
   enums |-> NoEntries]

assemblies ==
  [required |-> Stamped \cup {"package_id", "machine_id", "name", "attributes"},
   optional |-> {"parent_assembly_id", "code"},
   unique |-> [uq_assemblies_tenant_id_id |-> OwnKey],
   foreign |-> [tenant_id_fkey |-> ToTenant,
      fk_assemblies_tenant_machine |-> InTenant("machine_id", "machines", "CASCADE"),
      fk_assemblies_tenant_package |-> InTenant("package_id", "machine_packages", "CASCADE"),
      fk_assemblies_tenant_parent |-> InTenant("parent_assembly_id", "assemblies", "SET NULL")],
   checks |-> {"ck_assemblies_no_self_parent"},
   indexes |-> {"ix_assemblies_tenant_machine", "uq_assemblies_package_code"},
   enums |-> NoEntries]

evidence_references ==
  [required |-> Row \cup {"locator_kind", "region"},
   optional |-> {"document_id", "source_id", "page_number", "sheet_name", "cell_range",
      "xml_path", "line_start", "line_end", "native_object_id"},
   unique |-> [uq_evidence_references_tenant_id_id |-> OwnKey],
   foreign |-> [tenant_id_fkey |-> ToTenant,
      fk_evidence_references_tenant_document |-> InTenant("document_id", "documents", "CASCADE"),
      fk_evidence_references_tenant_source_id |-> ToChunk("SET NULL")],
   checks |-> {"ck_evidence_references_line_range", "ck_evidence_references_line_start",
      "ck_evidence_references_page_positive"},
   indexes |-> {"ix_evidence_references_tenant_document"},
   enums |-> [locator_kind |-> OfType("evidence_locator_kind", NoDefault)]]

plc_programs ==
  [required |-> Stamped \cup {"package_id", "name", "dialect", "attributes"},
   optional |-> {"machine_id"},
   unique |-> [uq_plc_programs_tenant_id_id |-> OwnKey],
   foreign |-> [tenant_id_fkey |-> ToTenant,
      fk_plc_programs_tenant_machine |-> InTenant("machine_id", "machines", "SET NULL"),
      fk_plc_programs_tenant_package |-> InTenant("package_id", "machine_packages", "CASCADE")],
   checks |-> {},
   indexes |-> {"ix_plc_programs_tenant_package"},
   enums |-> [dialect |-> OfType("plc_dialect", "unknown")]]

engineering_entities ==
  [required |-> Stamped \cup {"package_id", "entity_kind", "canonical_name", "aliases",
      "identity_status", "confidence", "method", "method_version", "attributes"},
   optional |-> {"machine_id", "assembly_id"},
   unique |-> [uq_engineering_entities_tenant_id_id |-> OwnKey],
   foreign |-> [tenant_id_fkey |-> ToTenant,
      fk_engineering_entities_tenant_assembly |-> InTenant("assembly_id", "assemblies", "SET NULL"),
      fk_engineering_entities_tenant_machine |-> InTenant("machine_id", "machines", "SET NULL"),
      fk_engineering_entities_tenant_package |-> InTenant("package_id", "machine_packages", "CASCADE")],
   checks |-> {"ck_engineering_entities_confidence"},
   indexes |-> {"ix_engineering_entities_tenant_kind",
      "ix_engineering_entities_tenant_package"},
   enums |-> [entity_kind |-> OfType("entity_kind", NoDefault),
      identity_status |-> OfType("identity_status", "unresolved")]]

evidence_bindings ==
  [required |-> Row \cup {"evidence_id", "subject_kind", "subject_id"},
   optional |-> {},
   unique |-> [uq_evidence_bindings_link |-> {"tenant_id", "evidence_id", "subject_kind", "subject_id"}],
   foreign |-> [tenant_id_fkey |-> ToTenant,
      fk_evidence_bindings_tenant_evidence |-> InTenant("evidence_id", "evidence_references", "CASCADE")],
   checks |-> {},
   indexes |-> {"ix_evidence_bindings_tenant_subject"},
   enums |-> [subject_kind |-> OfType("evidence_subject_kind", NoDefault)]]

package_assignments ==
  [required |-> Stamped \cup {"package_id", "document_id", "state", "confidence", "method",
      "method_version", "reason"},
   optional |-> {"machine_id", "assembly_id"},
   unique |-> [uq_package_assignments_tenant_id_id |-> OwnKey],
   foreign |-> [tenant_id_fkey |-> ToTenant,
      fk_package_assignments_tenant_assembly |-> InTenant("assembly_id", "assemblies", "SET NULL"),
      fk_package_assignments_tenant_document |-> InTenant("document_id", "documents", "CASCADE"),
      fk_package_assignments_tenant_machine |-> InTenant("machine_id", "machines", "SET NULL"),
      fk_package_assignments_tenant_package |-> InTenant("package_id", "machine_packages", "CASCADE")],
   checks |-> {"ck_package_assignments_confidence"},
   indexes |-> {"ix_package_assignments_tenant_document"},
   enums |-> [state |-> OfType("assignment_state", "proposed")]]

plc_blocks ==
  [required |-> Stamped \cup {"program_id", "name", "block_type", "attributes"},
   optional |-> {"language", "original_identifier"},
   unique |-> [uq_plc_blocks_program_name |-> {"program_id", "name"},
      uq_plc_blocks_tenant_id_id |-> OwnKey],
   foreign |-> [tenant_id_fkey |-> ToTenant,
      fk_plc_blocks_tenant_program |-> InTenant("program_id", "plc_programs", "CASCADE")],
   checks |-> {},
   indexes |-> {"ix_plc_blocks_tenant_program"},
   enums |-> NoEntries]

engineering_entity_candidates ==
  [required |-> Stamped \cup {"package_id", "entity_kind", "proposed_name", "aliases",
      "identity_status", "confidence", "method", "method_version", "attributes"},
   optional |-> {"canonical_entity_id"},
   unique |-> [uq_entity_candidates_tenant_id_id |-> OwnKey],
   foreign |-> [tenant_id_fkey |-> ToTenant,
      fk_entity_candidates_tenant_canonical |-> InTenant("canonical_entity_id", "engineering_entities", "SET NULL"),
      fk_entity_candidates_tenant_package |-> InTenant("package_id", "machine_packages", "CASCADE")],
   checks |-> {"ck_entity_candidates_confidence"},
   indexes |-> {"ix_entity_candidates_tenant_package"},
   enums |-> [entity_kind |-> OfType("entity_kind", NoDefault),
      identity_status |-> OfType("identity_status", "unresolved")]]

engineering_relations ==
  [required |-> Stamped \cup {"package_id", "relation_kind", "source_entity_id",
      "target_entity_id", "identity_status", "confidence", "method", "method_version",
      "attributes"},
   optional |-> {},
   unique |-> [uq_engineering_relations_tenant_id_id |-> OwnKey,
      uq_engineering_relations_edge |-> {"tenant_id", "package_id", "source_entity_id", "target_entity_id", "relation_kind"}],
   foreign |-> [tenant_id_fkey |-> ToTenant,
      fk_engineering_relations_tenant_package |-> InTenant("package_id", "machine_packages", "CASCADE"),
      fk_engineering_relations_tenant_source |-> InTenant("source_entity_id", "engineering_entities", "CASCADE"),
      fk_engineering_relations_tenant_target |-> InTenant("target_entity_id", "engineering_entities", "CASCADE")],
   checks |-> {"ck_engineering_relations_confidence", "ck_engineering_relations_no_self_edge"},
   indexes |-> {"ix_engineering_relations_tenant_package"},
   enums |-> [relation_kind |-> OfType("engineering_relation_kind", NoDefault),
      identity_status |-> OfType("identity_status", "unresolved")]]

plc_variables ==
  [required |-> Stamped \cup {"program_id", "name", "attributes"},
   optional |-> {"block_id", "entity_id", "data_type", "address", "io_direction"},
   unique |-> [uq_plc_variables_tenant_id_id |-> OwnKey],
   foreign |-> [tenant_id_fkey |-> ToTenant,
      fk_plc_variables_tenant_block |-> InTenant("block_id", "plc_blocks", "SET NULL"),
      fk_plc_variables_tenant_entity |-> InTenant("entity_id", "engineering_entities", "SET NULL"),
      fk_plc_variables_tenant_program |-> InTenant("program_id", "plc_programs", "CASCADE")],
   checks |-> {},
   indexes |-> {"ix_plc_variables_tenant_entity", "ix_plc_variables_tenant_program"},
   enums |-> NoEntries]

engineering_relation_candidates ==
  [required |-> Stamped \cup {"package_id", "relation_kind", "identity_status", "confidence",
      "method", "method_version", "attributes"},
   optional |-> {"canonical_relation_id", "source_entity_id", "target_entity_id"},
   unique |-> [uq_relation_candidates_tenant_id_id |-> OwnKey],
   foreign |-> [tenant_id_fkey |-> ToTenant,
      fk_relation_candidates_tenant_canonical |-> InTenant("canonical_relation_id", "engineering_relations", "SET NULL"),
      fk_relation_candidates_tenant_package |-> InTenant("package_id", "machine_packages", "CASCADE"),
      fk_relation_candidates_tenant_source |-> InTenant("source_entity_id", "engineering_entities", "SET NULL"),
      fk_relation_candidates_tenant_target |-> InTenant("target_entity_id", "engineering_entities", "SET NULL")],
   checks |-> {"ck_relation_candidates_confidence"},
   indexes |-> {"ix_relation_candidates_tenant_package"},
   enums |-> [relation_kind |-> OfType("engineering_relation_kind", NoDefault),
      identity_status |-> OfType("identity_status", "unresolved")]]

plc_references ==
  [required |-> Row \cup {"block_id", "reference_kind", "attributes"},
   optional |-> {"variable_id", "network_ordinal", "original_construct"},
   unique |-> [uq_plc_references_tenant_id_id |-> OwnKey],
   foreign |-> [tenant_id_fkey |-> ToTenant,
      fk_plc_references_tenant_block |-> InTenant("block_id", "plc_blocks", "CASCADE"),
      fk_plc_references_tenant_variable |-> InTenant("variable_id", "plc_variables", "SET NULL")],
   checks |-> {"ck_plc_references_network_ordinal"},
   indexes |-> {"ix_plc_references_tenant_block"},
   enums |-> [reference_kind |-> OfType("plc_reference_kind", NoDefault)]]

EngineeringTypes ==
  [package_status |->
      {"draft", "needs_review", "ready"},
   behavior_claim_kind |->
      {"sequence", "interlock", "alarm_chain", "other"},
   identity_status |->
      {"unresolved", "resolved", "conflicted"},
   conflict_kind |->
      {"identity", "connectivity", "mapping", "revision", "other"},
   conflict_status |->
      {"open", "resolved", "accepted_ambiguity"},
   evidence_subject_kind |->
      {"package_assignment", "entity", "entity_candidate", "relation", "relation_candidate",
       "plc_program", "plc_block", "plc_variable", "plc_reference", "conflict",
       "unsupported_construct", "behavior_claim", "human_override"},
   evidence_locator_kind |->
      {"chunk", "page", "sheet_cell", "image_region", "xml_path", "line_range", "native_id"},
   plc_dialect |->
      {"tia_s7", "s5", "plcopen", "unknown"},
   entity_kind |->
      {"component", "signal", "port", "terminal", "cable", "connection", "other"},
   assignment_state |->
      {"proposed", "accepted", "needs_review", "superseded", "rejected"},
   engineering_relation_kind |->
      {"connected_to", "maps_to", "contains", "calls", "reads", "writes", "related"},
   plc_reference_kind |->
      {"read", "write", "call", "condition"}]

=============================================================================
