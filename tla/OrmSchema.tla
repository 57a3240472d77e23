----------------------------- MODULE OrmSchema ------------------------------
(****************************************************************************)
(* What the ORM declares: app/models.py and app/engineering_models.py, in   *)
(* the vocabulary of Schema. The application builds its SQL from these      *)
(* declarations, so the migrated database has to be this one.               *)
(****************************************************************************)
EXTENDS Schema


DocumentStatus ==
  {"queued", "processing", "ready", "failed"}

JobStatus ==
  {"queued", "processing", "finished", "failed"}

RelationType ==
  {"exact_duplicate", "content_duplicate", "possible_version", "same_case", "same_entity",
   "related"}

PackageStatus ==
  {"draft", "needs_review", "ready"}

IdentityStatus ==
  {"unresolved", "resolved", "conflicted"}

AssignmentState ==
  {"proposed", "accepted", "needs_review", "superseded", "rejected"}

EngineeringDocumentClass ==
  {"schematic", "manual", "bom", "io_list", "hardware", "cables", "terminals", "alarms",
   "motor_drive", "plc_xml", "plc_scl", "s5_text", "cross_references", "photo", "revision",
   "manufacturer_facts", "package_container", "unrelated", "unknown"}

EntityKind ==
  {"component", "signal", "port", "terminal", "cable", "connection", "other"}

EngineeringRelationKind ==
  {"connected_to", "maps_to", "contains", "calls", "reads", "writes", "related"}

EvidenceLocatorKind ==
  {"chunk", "page", "sheet_cell", "image_region", "xml_path", "line_range", "native_id"}

EvidenceSubjectKind ==
  {"package_assignment", "entity", "entity_candidate", "relation", "relation_candidate",
   "plc_program", "plc_block", "plc_variable", "plc_reference", "conflict",
   "unsupported_construct", "behavior_claim", "human_override"}

PlcDialect ==
  {"tia_s7", "s5", "plcopen", "unknown"}

PlcReferenceKind ==
  {"read", "write", "call", "condition"}

ConflictKind ==
  {"identity", "connectivity", "mapping", "revision", "other"}

ConflictStatus ==
  {"open", "resolved", "accepted_ambiguity"}

BehaviorClaimKind ==
  {"sequence", "interlock", "alarm_chain", "other"}

Tenant ==
  [required |-> {"id", "slug", "name", "created_at", "updated_at"},
   optional |-> {},
   unique |-> [slug_key |-> {"slug"}],
   foreign |-> NoEntries,
   checks |-> {},
   indexes |-> {},
   enums |-> NoEntries]

Document ==
  [required |-> Stamped \cup {"filename", "mime_type", "storage_key", "file_hash", "status"},
   optional |-> {"content_hash", "normalized_key", "parser_name", "title", "document_type",
      "summary", "embedding_provider", "embedding_model", "embedding_version",
      "embedding_dimensions", "deleted_at"},
   unique |-> [uq_documents_tenant_id_id |-> OwnKey],
   foreign |-> [tenant_id_fkey |-> ToTenant],
   checks |-> {"ck_documents_file_hash_sha256", "ck_documents_content_hash_sha256",
      "ck_documents_embedding_dimensions_positive"},
   indexes |-> {"uq_documents_tenant_file_hash_live", "ix_documents_tenant_content_hash",
      "ix_documents_tenant_status"},
   enums |-> [status |-> OfType("document_status", "queued")]]

Chunk ==
  [required |-> Row \cup {"document_id", "ordinal", "text", "source_id", "source_metadata"},
   optional |-> {"page_number", "section_title"},
   unique |-> [uq_chunks_document_ordinal |-> {"document_id", "ordinal"},
      uq_chunks_tenant_source_id |-> {"tenant_id", "source_id"}],
   foreign |-> [tenant_id_fkey |-> ToTenant,
      fk_chunks_tenant_document |-> InTenant("document_id", "documents", "CASCADE")],
   checks |-> {"ck_chunks_ordinal_non_negative"},
   indexes |-> {"ix_chunks_tenant_document", "ix_chunks_text_search", "ix_chunks_text_trigram"},
   enums |-> NoEntries]

DocumentProfile ==
  [required |-> Stamped \cup {"document_id", "organizations", "persons", "dates", "identifiers",
      "topics"},
   optional |-> {"language", "summary"},
   unique |-> [uq_document_profiles_document |-> {"document_id"}],
   foreign |-> [tenant_id_fkey |-> ToTenant,
      fk_document_profiles_tenant_document |-> InTenant("document_id", "documents", "CASCADE")],
   checks |-> {},
   indexes |-> {"ix_document_profiles_tenant"},
   enums |-> NoEntries]

DocumentRelation ==
  [required |-> Row \cup {"source_document_id", "target_document_id", "relation_type",
      "reason"},
   optional |-> {"score"},
   unique |-> [uq_document_relations_edge |-> {"tenant_id", "source_document_id", "target_document_id", "relation_type"}],
   foreign |-> [tenant_id_fkey |-> ToTenant,
      fk_document_relations_tenant_source |-> InTenant("source_document_id", "documents", "CASCADE"),
      fk_document_relations_tenant_target |-> InTenant("target_document_id", "documents", "CASCADE")],
   checks |-> {"ck_document_relations_no_self_edge", "ck_document_relations_score_range"},
   indexes |-> {"ix_document_relations_tenant_source"},
   enums |-> [relation_type |-> OfType("relation_type", NoDefault)]]

IngestionJob ==
  [required |-> Stamped \cup {"document_id", "status", "attempts", "max_attempts",
      "available_at"},
   optional |-> {"last_error", "claimed_at", "claimed_by"},
   unique |-> NoEntries,
   foreign |-> [tenant_id_fkey |-> ToTenant,
      fk_ingestion_jobs_tenant_document |-> InTenant("document_id", "documents", "CASCADE")],
   checks |-> {"ck_ingestion_jobs_attempts_non_negative",
      "ck_ingestion_jobs_max_attempts_positive"},
   indexes |-> {"uq_ingestion_jobs_live_document", "ix_ingestion_jobs_claimable",
      "ix_ingestion_jobs_tenant"},
   enums |-> [status |-> OfType("job_status", "queued")]]

MachinePackage ==
  [required |-> Stamped \cup {"slug", "name", "status"},
   optional |-> {},
   unique |-> [uq_machine_packages_tenant_id_id |-> OwnKey,
      uq_machine_packages_tenant_slug |-> {"tenant_id", "slug"}],
   foreign |-> [tenant_id_fkey |-> ToTenant],
   checks |-> {},
   indexes |-> {"ix_machine_packages_tenant"},
   enums |-> [status |-> OfType("package_status", "draft")]]

Machine ==
  [required |-> Stamped \cup {"package_id", "name", "identity_status", "attributes"},
   optional |-> {"code", "revision"},
   unique |-> [uq_machines_tenant_id_id |-> OwnKey],
   foreign |-> [tenant_id_fkey |-> ToTenant,
      fk_machines_tenant_package |-> InTenant("package_id", "machine_packages", "CASCADE")],
   checks |-> {},
   indexes |-> {"uq_machines_package_code", "ix_machines_tenant_package"},
   enums |-> [identity_status |-> OfType("identity_status", "unresolved")]]

Assembly ==
  [required |-> Stamped \cup {"package_id", "machine_id", "name", "attributes"},
   optional |-> {"parent_assembly_id", "code"},
   unique |-> [uq_assemblies_tenant_id_id |-> OwnKey],
   foreign |-> [tenant_id_fkey |-> ToTenant,
      fk_assemblies_tenant_machine |-> InTenant("machine_id", "machines", "CASCADE"),
      fk_assemblies_tenant_package |-> InTenant("package_id", "machine_packages", "CASCADE"),
      fk_assemblies_tenant_parent |-> InTenant("parent_assembly_id", "assemblies", "SET NULL")],
   checks |-> {"ck_assemblies_no_self_parent"},
   indexes |-> {"uq_assemblies_package_code", "ix_assemblies_tenant_machine"},
   enums |-> NoEntries]

PackageDocument ==
  [required |-> Row \cup {"package_id", "document_id"},
   optional |-> {"relative_path"},
   unique |-> [uq_package_documents_tenant_id_id |-> OwnKey,
      uq_package_documents_membership |-> {"tenant_id", "package_id", "document_id"}],
   foreign |-> [tenant_id_fkey |-> ToTenant,
      fk_package_documents_tenant_document |-> InTenant("document_id", "documents", "CASCADE"),
      fk_package_documents_tenant_package |-> InTenant("package_id", "machine_packages", "CASCADE")],
   checks |-> {},
   indexes |-> {"ix_package_documents_tenant_document"},
   enums |-> NoEntries]

PackageAssignment ==
  [required |-> Stamped \cup {"package_id", "document_id", "document_class", "state",
      "confidence", "method", "method_version", "reason"},
   optional |-> {"machine_id", "assembly_id", "relative_path"},
   unique |-> [uq_package_assignments_tenant_id_id |-> OwnKey],
   foreign |-> [tenant_id_fkey |-> ToTenant,
      fk_package_assignments_tenant_assembly |-> InTenant("assembly_id", "assemblies", "SET NULL"),
      fk_package_assignments_tenant_document |-> InTenant("document_id", "documents", "CASCADE"),
      fk_package_assignments_tenant_machine |-> InTenant("machine_id", "machines", "SET NULL"),
      fk_package_assignments_tenant_package |-> InTenant("package_id", "machine_packages", "CASCADE")],
   checks |-> {"ck_package_assignments_confidence"},
   indexes |-> {"ix_package_assignments_tenant_document",
      "ix_package_assignments_tenant_package_path"},
   enums |-> [document_class |-> OfType("engineering_document_class", "unknown"),
      state |-> OfType("assignment_state", "proposed")]]

EngineeringEntity ==
  [required |-> Stamped \cup {"package_id", "entity_kind", "canonical_name", "aliases",
      "identity_status", "confidence", "method", "method_version", "attributes"},
   optional |-> {"machine_id", "assembly_id"},
   unique |-> [uq_engineering_entities_tenant_id_id |-> OwnKey,
      uq_engineering_entities_tenant_package_id |-> {"tenant_id", "package_id", "id"}],
   foreign |-> [tenant_id_fkey |-> ToTenant,
      fk_engineering_entities_tenant_assembly |-> InTenant("assembly_id", "assemblies", "SET NULL"),
      fk_engineering_entities_tenant_machine |-> InTenant("machine_id", "machines", "SET NULL"),
      fk_engineering_entities_tenant_package |-> InTenant("package_id", "machine_packages", "CASCADE")],
   checks |-> {"ck_engineering_entities_confidence"},
   indexes |-> {"ix_engineering_entities_tenant_package",
      "ix_engineering_entities_tenant_kind"},
   enums |-> [entity_kind |-> OfType("entity_kind", NoDefault),
      identity_status |-> OfType("identity_status", "unresolved")]]

EngineeringEntityCandidate ==
  [required |-> Stamped \cup {"package_id", "entity_kind", "proposed_name", "aliases",
      "identity_status", "confidence", "method", "method_version", "attributes"},
   optional |-> {"canonical_entity_id"},
   unique |-> [uq_entity_candidates_tenant_id_id |-> OwnKey],
   foreign |-> [tenant_id_fkey |-> ToTenant,
      fk_entity_candidates_tenant_canonical |-> InTenant("canonical_entity_id", "engineering_entities", "SET NULL"),
      fk_entity_candidates_tenant_package |-> InTenant("package_id", "machine_packages", "CASCADE")],
   checks |-> {"ck_entity_candidates_confidence"},
   indexes |-> {"ix_entity_candidates_tenant_package"},
   enums |-> [entity_kind |-> OfType("entity_kind", NoDefault),
      identity_status |-> OfType("identity_status", "unresolved")]]

EngineeringRelation ==
  [required |-> Stamped \cup {"package_id", "relation_kind", "source_entity_id",
      "target_entity_id", "identity_status", "confidence", "method", "method_version",
      "attributes"},
   optional |-> {},
   unique |-> [uq_engineering_relations_tenant_id_id |-> OwnKey,
      uq_engineering_relations_edge |-> {"tenant_id", "package_id", "source_entity_id", "target_entity_id", "relation_kind"}],
   foreign |-> [tenant_id_fkey |-> ToTenant,
      fk_engineering_relations_tenant_package |-> InTenant("package_id", "machine_packages", "CASCADE"),
      fk_engineering_relations_tenant_source |-> InPackage("source_entity_id", "engineering_entities", "CASCADE"),
      fk_engineering_relations_tenant_target |-> InPackage("target_entity_id", "engineering_entities", "CASCADE")],
   checks |-> {"ck_engineering_relations_no_self_edge", "ck_engineering_relations_confidence"},
   indexes |-> {"ix_engineering_relations_tenant_package"},
   enums |-> [relation_kind |-> OfType("engineering_relation_kind", NoDefault),
      identity_status |-> OfType("identity_status", "unresolved")]]

EngineeringRelationCandidate ==
  [required |-> Stamped \cup {"package_id", "relation_kind", "identity_status", "confidence",
      "method", "method_version", "attributes"},
   optional |-> {"canonical_relation_id", "source_entity_id", "target_entity_id"},
   unique |-> [uq_relation_candidates_tenant_id_id |-> OwnKey],
   foreign |-> [tenant_id_fkey |-> ToTenant,
      fk_relation_candidates_tenant_canonical |-> InTenant("canonical_relation_id", "engineering_relations", "SET NULL"),
      fk_relation_candidates_tenant_package |-> InTenant("package_id", "machine_packages", "CASCADE"),
      fk_relation_candidates_tenant_source |-> InPackage("source_entity_id", "engineering_entities", "SET NULL"),
      fk_relation_candidates_tenant_target |-> InPackage("target_entity_id", "engineering_entities", "SET NULL")],
   checks |-> {"ck_relation_candidates_confidence"},
   indexes |-> {"ix_relation_candidates_tenant_package"},
   enums |-> [relation_kind |-> OfType("engineering_relation_kind", NoDefault),
      identity_status |-> OfType("identity_status", "unresolved")]]

EvidenceReference ==
  [required |-> Row \cup {"locator_kind", "region"},
   optional |-> {"document_id", "source_id", "page_number", "sheet_name", "cell_range",
      "xml_path", "line_start", "line_end", "native_object_id"},
   unique |-> [uq_evidence_references_tenant_id_id |-> OwnKey],
   foreign |-> [tenant_id_fkey |-> ToTenant,
      fk_evidence_references_tenant_document |-> InTenant("document_id", "documents", "CASCADE"),
      fk_evidence_references_tenant_source_id |-> ToChunk("RESTRICT")],
   checks |-> {"ck_evidence_references_page_positive", "ck_evidence_references_line_start",
      "ck_evidence_references_line_range", "ck_evidence_references_locator"},
   indexes |-> {"ix_evidence_references_tenant_document"},
   enums |-> [locator_kind |-> OfType("evidence_locator_kind", NoDefault)]]

EvidenceBinding ==
  [required |-> Row \cup {"evidence_id", "subject_kind", "subject_id"},
   optional |-> {},
   unique |-> [uq_evidence_bindings_link |-> {"tenant_id", "evidence_id", "subject_kind", "subject_id"}],
   foreign |-> [tenant_id_fkey |-> ToTenant,
      fk_evidence_bindings_tenant_evidence |-> InTenant("evidence_id", "evidence_references", "CASCADE")],
   checks |-> {},
   indexes |-> {"ix_evidence_bindings_tenant_subject"},
   enums |-> [subject_kind |-> OfType("evidence_subject_kind", NoDefault)]]

PlcProgram ==
  [required |-> Stamped \cup {"package_id", "name", "dialect", "attributes"},
   optional |-> {"machine_id"},
   unique |-> [uq_plc_programs_tenant_id_id |-> OwnKey],
   foreign |-> [tenant_id_fkey |-> ToTenant,
      fk_plc_programs_tenant_machine |-> InTenant("machine_id", "machines", "SET NULL"),
      fk_plc_programs_tenant_package |-> InTenant("package_id", "machine_packages", "CASCADE")],
   checks |-> {},
   indexes |-> {"ix_plc_programs_tenant_package"},
   enums |-> [dialect |-> OfType("plc_dialect", "unknown")]]

PlcBlock ==
  [required |-> Stamped \cup {"program_id", "name", "block_type", "attributes"},
   optional |-> {"language", "original_identifier"},
   unique |-> [uq_plc_blocks_tenant_id_id |-> OwnKey,
      uq_plc_blocks_program_name |-> {"program_id", "name"}],
   foreign |-> [tenant_id_fkey |-> ToTenant,
      fk_plc_blocks_tenant_program |-> InTenant("program_id", "plc_programs", "CASCADE")],
   checks |-> {},
   indexes |-> {"ix_plc_blocks_tenant_program"},
   enums |-> NoEntries]

PlcVariable ==
  [required |-> Stamped \cup {"program_id", "name", "attributes"},
   optional |-> {"block_id", "entity_id", "data_type", "address", "io_direction"},
   unique |-> [uq_plc_variables_tenant_id_id |-> OwnKey],
   foreign |-> [tenant_id_fkey |-> ToTenant,
      fk_plc_variables_tenant_block |-> InTenant("block_id", "plc_blocks", "SET NULL"),
      fk_plc_variables_tenant_entity |-> InTenant("entity_id", "engineering_entities", "SET NULL"),
      fk_plc_variables_tenant_program |-> InTenant("program_id", "plc_programs", "CASCADE")],
   checks |-> {},
   indexes |-> {"ix_plc_variables_tenant_program", "ix_plc_variables_tenant_entity"},
   enums |-> NoEntries]

PlcReference ==
  [required |-> Row \cup {"block_id", "reference_kind", "attributes"},
   optional |-> {"variable_id", "network_ordinal", "original_construct"},
   unique |-> [uq_plc_references_tenant_id_id |-> OwnKey],
   foreign |-> [tenant_id_fkey |-> ToTenant,
      fk_plc_references_tenant_block |-> InTenant("block_id", "plc_blocks", "CASCADE"),
      fk_plc_references_tenant_variable |-> InTenant("variable_id", "plc_variables", "SET NULL")],
   checks |-> {"ck_plc_references_network_ordinal"},
   indexes |-> {"ix_plc_references_tenant_block"},
   enums |-> [reference_kind |-> OfType("plc_reference_kind", NoDefault)]]

EngineeringConflict ==
  [required |-> Stamped \cup {"package_id", "conflict_kind", "status", "left_subject_kind",
      "left_subject_id", "right_subject_kind", "right_subject_id", "method", "method_version",
      "attributes"},
   optional |-> {},
   unique |-> [uq_engineering_conflicts_tenant_id_id |-> OwnKey],
   foreign |-> [tenant_id_fkey |-> ToTenant,
      fk_engineering_conflicts_tenant_package |-> InTenant("package_id", "machine_packages", "CASCADE")],
   checks |-> {},
   indexes |-> {"ix_engineering_conflicts_tenant_package"},
   enums |-> [conflict_kind |-> OfType("conflict_kind", NoDefault),
      status |-> OfType("conflict_status", "open")]]

UnsupportedConstruct ==
  [required |-> Row \cup {"package_id", "construct_code", "method", "method_version",
      "attributes"},
   optional |-> {"document_id"},
   unique |-> [uq_unsupported_constructs_tenant_id_id |-> OwnKey],
   foreign |-> [tenant_id_fkey |-> ToTenant,
      fk_unsupported_constructs_tenant_document |-> InTenant("document_id", "documents", "SET NULL"),
      fk_unsupported_constructs_tenant_package |-> InTenant("package_id", "machine_packages", "CASCADE")],
   checks |-> {},
   indexes |-> {"ix_unsupported_constructs_tenant_package"},
   enums |-> NoEntries]

HumanOverride ==
  [required |-> Row \cup {"package_id", "subject_kind", "subject_id", "actor_id",
      "previous_payload", "new_payload"},
   optional |-> {},
   unique |-> [uq_human_overrides_tenant_id_id |-> OwnKey],
   foreign |-> [tenant_id_fkey |-> ToTenant,
      fk_human_overrides_tenant_package |-> InTenant("package_id", "machine_packages", "CASCADE")],
   checks |-> {},
   indexes |-> {"ix_human_overrides_tenant_subject"},
   enums |-> [subject_kind |-> OfType("evidence_subject_kind", NoDefault)]]

DerivedBehaviorClaim ==
  [required |-> Stamped \cup {"package_id", "claim_kind", "identity_status", "confidence",
      "method", "method_version", "dependency_path", "attributes"},
   optional |-> {},
   unique |-> [uq_behavior_claims_tenant_id_id |-> OwnKey],
   foreign |-> [tenant_id_fkey |-> ToTenant,
      fk_behavior_claims_tenant_package |-> InTenant("package_id", "machine_packages", "CASCADE")],
   checks |-> {"ck_behavior_claims_confidence", "ck_behavior_claims_dependency_array"},
   indexes |-> {"ix_behavior_claims_tenant_package"},
   enums |-> [claim_kind |-> OfType("behavior_claim_kind", NoDefault),
      identity_status |-> OfType("identity_status", "unresolved")]]

(* Base.metadata once app.models has imported every model: table name to table. *)
OrmTables ==
  [tenants |-> Tenant,
   documents |-> Document,
   chunks |-> Chunk,
   document_profiles |-> DocumentProfile,
   document_relations |-> DocumentRelation,
   ingestion_jobs |-> IngestionJob,
   machine_packages |-> MachinePackage,
   machines |-> Machine,
   assemblies |-> Assembly,
   package_documents |-> PackageDocument,
   package_assignments |-> PackageAssignment,
   engineering_entities |-> EngineeringEntity,
   engineering_entity_candidates |-> EngineeringEntityCandidate,
   engineering_relations |-> EngineeringRelation,
   engineering_relation_candidates |-> EngineeringRelationCandidate,
   evidence_references |-> EvidenceReference,
   evidence_bindings |-> EvidenceBinding,
   plc_programs |-> PlcProgram,
   plc_blocks |-> PlcBlock,
   plc_variables |-> PlcVariable,
   plc_references |-> PlcReference,
   engineering_conflicts |-> EngineeringConflict,
   unsupported_constructs |-> UnsupportedConstruct,
   human_overrides |-> HumanOverride,
   derived_behavior_claims |-> DerivedBehaviorClaim]

OrmTypes ==
  [document_status |-> DocumentStatus,
   relation_type |-> RelationType,
   job_status |-> JobStatus,
   package_status |-> PackageStatus,
   identity_status |-> IdentityStatus,
   engineering_document_class |-> EngineeringDocumentClass,
   assignment_state |-> AssignmentState,
   entity_kind |-> EntityKind,
   engineering_relation_kind |-> EngineeringRelationKind,
   evidence_locator_kind |-> EvidenceLocatorKind,
   evidence_subject_kind |-> EvidenceSubjectKind,
   plc_dialect |-> PlcDialect,
   plc_reference_kind |-> PlcReferenceKind,
   conflict_kind |-> ConflictKind,
   conflict_status |-> ConflictStatus,
   behavior_claim_kind |-> BehaviorClaimKind]

=============================================================================
