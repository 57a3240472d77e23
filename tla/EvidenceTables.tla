--------------------------- MODULE EvidenceTables ----------------------------
(****************************************************************************)
(* The tables of Evidence, for any documents, archives and readings and any *)
(* number of rows: which foreign keys there are, what a DELETE takes along  *)
(* or is refused for, and what each statement of an attempt keeps of a      *)
(* sound database.                                                          *)
(****************************************************************************)
EXTENDS Evidence, FiniteSetTheorems, TLAPS

\* A foreign key between engineering tables: what takes rows along is required,
\* what would be set to null is optional.
Key(col, parent, ondelete) ==
  [col |-> col, parent |-> parent, packaged |-> FALSE, required |-> ondelete = "CASCADE",
   ondelete |-> ondelete, nullable |-> FALSE]

\* One that has package_id in it too.
Within(col, parent, ondelete) ==
  [col |-> col, parent |-> parent, packaged |-> TRUE, required |-> ondelete = "CASCADE",
   ondelete |-> ondelete, nullable |-> FALSE]

Owned == Key("package_id", "machine_packages", "CASCADE")

\* The foreign keys, table by table.
Keys ==
  [machine_packages |-> {},
   machines |-> {Owned},
   assemblies |-> {Owned, Key("machine_id", "machines", "CASCADE"),
      Key("parent_assembly_id", "assemblies", SetNull)},
   package_documents |-> {Owned},
   package_assignments |-> {Owned, Key("machine_id", "machines", SetNull),
      Key("assembly_id", "assemblies", SetNull)},
   engineering_entities |-> {Owned, Key("machine_id", "machines", SetNull),
      Key("assembly_id", "assemblies", SetNull)},
   engineering_entity_candidates |-> {Owned, Key("canonical_entity_id", "engineering_entities", SetNull)},
   engineering_relations |-> {Owned, Within("source_entity_id", "engineering_entities", "CASCADE"),
      Within("target_entity_id", "engineering_entities", "CASCADE")},
   engineering_relation_candidates |-> {Owned, Key("canonical_relation_id", "engineering_relations", SetNull),
      Within("source_entity_id", "engineering_entities", SetNull),
      Within("target_entity_id", "engineering_entities", SetNull)},
   plc_programs |-> {Owned, Key("machine_id", "machines", SetNull)},
   plc_blocks |-> {Key("program_id", "plc_programs", "CASCADE")},
   plc_variables |-> {Key("program_id", "plc_programs", "CASCADE"), Key("block_id", "plc_blocks", SetNull),
      Key("entity_id", "engineering_entities", SetNull)},
   plc_references |-> {Key("block_id", "plc_blocks", "CASCADE"), Key("variable_id", "plc_variables", SetNull)},
   engineering_conflicts |-> {Owned},
   unsupported_constructs |-> {Owned},
   human_overrides |-> {Owned},
   derived_behavior_claims |-> {Owned}]

\* How far below a package a row of the table is by keys that take rows along.
Depth(t) ==
  IF t = "machine_packages" THEN 0
  ELSE IF t = "plc_references" THEN 3
  ELSE IF t \in {"assemblies", "engineering_relations", "plc_blocks", "plc_variables"} THEN 2
  ELSE 1

\* A foreign key as ForeignKeys describes it.
KeyOf(t, fk) ==
  [col |-> Last(fk.cols),
   parent |-> fk.parent,
   packaged |-> "package_id" \in Range(fk.cols) /\ Last(fk.cols) # "package_id",
   required |-> Last(fk.cols) \in Orm!OrmTables[t].required,
   ondelete |-> fk.ondelete,
   nullable |-> Range(fk.cols) \subseteq Orm!OrmTables[t].optional]

\* A key on a column next to tenant_id.
LEMMA InTenantKey ==
  ASSUME NEW t, NEW col, NEW parent, NEW ondelete,
         "tenant_id" \notin Orm!OrmTables[t].optional,
         col \in Orm!OrmTables[t].required <=> ondelete = "CASCADE"
  PROVE  KeyOf(t, Orm!InTenant(col, parent, ondelete)) = Key(col, parent, ondelete)
<1>. DEFINE fk == Orm!InTenant(col, parent, ondelete)
<1>1. fk.cols = <<"tenant_id", col>> /\ fk.parent = parent /\ fk.ondelete = ondelete
  BY DEF Orm!InTenant, Orm!Foreign
<1>2. Last(fk.cols) = col
  BY <1>1 DEF Last
<1>3. Range(fk.cols) = {"tenant_id", col}
  BY <1>1 DEF Range
<1>4. /\ ("package_id" \in Range(fk.cols) /\ Last(fk.cols) # "package_id") = FALSE
      /\ (Last(fk.cols) \in Orm!OrmTables[t].required) = (ondelete = "CASCADE")
      /\ (Range(fk.cols) \subseteq Orm!OrmTables[t].optional) = FALSE
  BY <1>2, <1>3
<1>. HIDE DEF fk
<1>5. KeyOf(t, fk) = Key(col, parent, ondelete)
  BY <1>1, <1>2, <1>4 DEF KeyOf, Key
<1>. QED BY <1>5 DEF fk

\* A key on a column next to tenant_id and package_id.
LEMMA InPackageKey ==
  ASSUME NEW t, NEW col, NEW parent, NEW ondelete, col # "package_id",
         "tenant_id" \notin Orm!OrmTables[t].optional,
         col \in Orm!OrmTables[t].required <=> ondelete = "CASCADE"
  PROVE  KeyOf(t, Orm!InPackage(col, parent, ondelete)) = Within(col, parent, ondelete)
<1>. DEFINE fk == Orm!InPackage(col, parent, ondelete)
<1>1. fk.cols = <<"tenant_id", "package_id", col>> /\ fk.parent = parent /\ fk.ondelete = ondelete
  BY DEF Orm!InPackage, Orm!Foreign
<1>2. Last(fk.cols) = col
  BY <1>1 DEF Last
<1>3. Range(fk.cols) = {"tenant_id", "package_id", col}
  BY <1>1 DEF Range
<1>4. /\ ("package_id" \in Range(fk.cols) /\ Last(fk.cols) # "package_id") = TRUE
      /\ (Last(fk.cols) \in Orm!OrmTables[t].required) = (ondelete = "CASCADE")
      /\ (Range(fk.cols) \subseteq Orm!OrmTables[t].optional) = FALSE
  BY <1>2, <1>3
<1>. HIDE DEF fk
<1>5. KeyOf(t, fk) = Within(col, parent, ondelete)
  BY <1>1, <1>2, <1>4 DEF KeyOf, Within
<1>. QED BY <1>5 DEF fk

\* The two actions differ.
LEMMA SetsNull == SetNull # "CASCADE"
BY DEF SetNull

\* The foreign keys that the ORM declares between engineering tables.
LEMMA KeyTable ==
  /\ EngineeringTables = DOMAIN Keys
  /\ \A t \in EngineeringTables : ForeignKeys[t] = Keys[t]
<1>1. EngineeringTables = DOMAIN Keys
  BY DEF EngineeringTables, Outside, Orm!OrmTables, Keys
<1>2. \A t \in EngineeringTables :
        ForeignKeys[t] =
          {KeyOf(t, fk) : fk \in {g \in Range(Orm!OrmTables[t].foreign) : g.parent \notin Outside}}
  BY DEF ForeignKeys, KeyOf
<1>3. ForeignKeys["machine_packages"] = Keys["machine_packages"]
  <2>1. "machine_packages" \in EngineeringTables /\ Orm!OrmTables["machine_packages"] = Orm!MachinePackage
    BY <1>1 DEF Keys, Orm!OrmTables
  <2>2. {g \in Range(Orm!MachinePackage.foreign) : g.parent \notin Outside} =
          {}
    <3>3. Range(Orm!MachinePackage.foreign) =
            {Orm!ToTenant}
      BY DEF Orm!MachinePackage, Range
    <3>4. /\ Orm!ToTenant.parent \in Outside
      BY DEF Outside, Orm!ToTenant, Orm!InTenant, Orm!Foreign
    <3>. QED BY <3>3, <3>4
  <2>. QED BY <1>2, <2>1, <2>2 DEF Keys
<1>4. ForeignKeys["machines"] = Keys["machines"]
  <2>1. "machines" \in EngineeringTables /\ Orm!OrmTables["machines"] = Orm!Machine
    BY <1>1 DEF Keys, Orm!OrmTables
  <2>2. {g \in Range(Orm!Machine.foreign) : g.parent \notin Outside} =
          {Orm!InTenant("package_id", "machine_packages", "CASCADE")}
    <3>3. Range(Orm!Machine.foreign) =
            {Orm!ToTenant,
             Orm!InTenant("package_id", "machine_packages", "CASCADE")}
      BY DEF Orm!Machine, Range
    <3>4. /\ Orm!ToTenant.parent \in Outside
          /\ Orm!InTenant("package_id", "machine_packages", "CASCADE").parent \notin Outside
      BY DEF Outside, Orm!ToTenant, Orm!InTenant, Orm!Foreign
    <3>. QED BY <3>3, <3>4
  <2>3. /\ "tenant_id" \notin Orm!Machine.optional
        /\ "package_id" \in Orm!Machine.required
    BY DEF Orm!Machine, Orm!Row, Orm!Stamped
  <2>4. KeyOf("machines", Orm!InTenant("package_id", "machine_packages", "CASCADE")) = Owned
    BY <2>1, <2>3, SetsNull, InTenantKey DEF Owned
  <2>5. Keys["machines"] = {Owned}
    BY DEF Keys
  <2>. QED BY <1>2, <2>1, <2>2, <2>4, <2>5
<1>5. ForeignKeys["assemblies"] = Keys["assemblies"]
  <2>1. "assemblies" \in EngineeringTables /\ Orm!OrmTables["assemblies"] = Orm!Assembly
    BY <1>1 DEF Keys, Orm!OrmTables
  <2>2. {g \in Range(Orm!Assembly.foreign) : g.parent \notin Outside} =
          {Orm!InTenant("package_id", "machine_packages", "CASCADE"),
           Orm!InTenant("machine_id", "machines", "CASCADE"),
           Orm!InTenant("parent_assembly_id", "assemblies", SetNull)}
    <3>1. Range(Orm!Assembly.foreign) =
            {Orm!Assembly.foreign[x] : x \in {"tenant_id_fkey",
               "fk_assemblies_tenant_machine",
               "fk_assemblies_tenant_package",
               "fk_assemblies_tenant_parent"}}
      BY DEF Orm!Assembly, Range
    <3>2. /\ Orm!Assembly.foreign["tenant_id_fkey"] =
               Orm!ToTenant
          /\ Orm!Assembly.foreign["fk_assemblies_tenant_machine"] =
               Orm!InTenant("machine_id", "machines", "CASCADE")
          /\ Orm!Assembly.foreign["fk_assemblies_tenant_package"] =
               Orm!InTenant("package_id", "machine_packages", "CASCADE")
          /\ Orm!Assembly.foreign["fk_assemblies_tenant_parent"] =
               Orm!InTenant("parent_assembly_id", "assemblies", SetNull)
      BY DEF Orm!Assembly, SetNull
    <3>3. Range(Orm!Assembly.foreign) =
            {Orm!ToTenant,
             Orm!InTenant("machine_id", "machines", "CASCADE"),
             Orm!InTenant("package_id", "machine_packages", "CASCADE"),
             Orm!InTenant("parent_assembly_id", "assemblies", SetNull)}
      BY <3>1, <3>2
    <3>4. /\ Orm!ToTenant.parent \in Outside
          /\ Orm!InTenant("machine_id", "machines", "CASCADE").parent \notin Outside
          /\ Orm!InTenant("package_id", "machine_packages", "CASCADE").parent \notin Outside
          /\ Orm!InTenant("parent_assembly_id", "assemblies", SetNull).parent \notin Outside
      BY DEF Outside, Orm!ToTenant, Orm!InTenant, Orm!Foreign
    <3>. QED BY <3>3, <3>4
  <2>3. /\ "tenant_id" \notin Orm!Assembly.optional
        /\ "package_id" \in Orm!Assembly.required
        /\ "machine_id" \in Orm!Assembly.required
        /\ "parent_assembly_id" \notin Orm!Assembly.required
    BY DEF Orm!Assembly, Orm!Row, Orm!Stamped
  <2>4. KeyOf("assemblies", Orm!InTenant("package_id", "machine_packages", "CASCADE")) = Owned
    BY <2>1, <2>3, SetsNull, InTenantKey DEF Owned
  <2>5. KeyOf("assemblies", Orm!InTenant("machine_id", "machines", "CASCADE")) = Key("machine_id", "machines", "CASCADE")
    BY <2>1, <2>3, SetsNull, InTenantKey
  <2>6. KeyOf("assemblies", Orm!InTenant("parent_assembly_id", "assemblies", SetNull)) = Key("parent_assembly_id", "assemblies", SetNull)
    BY <2>1, <2>3, SetsNull, InTenantKey
  <2>7. Keys["assemblies"] = {Owned, Key("machine_id", "machines", "CASCADE"), Key("parent_assembly_id", "assemblies", SetNull)}
    BY DEF Keys
  <2>8. {KeyOf("assemblies", fk) : fk \in
            {Orm!InTenant("package_id", "machine_packages", "CASCADE"),
             Orm!InTenant("machine_id", "machines", "CASCADE"),
             Orm!InTenant("parent_assembly_id", "assemblies", SetNull)}} =
          {KeyOf("assemblies", Orm!InTenant("package_id", "machine_packages", "CASCADE")),
           KeyOf("assemblies", Orm!InTenant("machine_id", "machines", "CASCADE")),
           KeyOf("assemblies", Orm!InTenant("parent_assembly_id", "assemblies", SetNull))}
    OBVIOUS
  <2>. QED BY <1>2, <2>1, <2>2, <2>4, <2>5, <2>6, <2>8, <2>7
<1>6. ForeignKeys["package_documents"] = Keys["package_documents"]
  <2>1. "package_documents" \in EngineeringTables /\ Orm!OrmTables["package_documents"] = Orm!PackageDocument
    BY <1>1 DEF Keys, Orm!OrmTables
  <2>2. {g \in Range(Orm!PackageDocument.foreign) : g.parent \notin Outside} =
          {Orm!InTenant("package_id", "machine_packages", "CASCADE")}
    <3>1. Range(Orm!PackageDocument.foreign) =
            {Orm!PackageDocument.foreign[x] : x \in {"tenant_id_fkey",
               "fk_package_documents_tenant_document",
               "fk_package_documents_tenant_package"}}
      BY DEF Orm!PackageDocument, Range
    <3>2. /\ Orm!PackageDocument.foreign["tenant_id_fkey"] =
               Orm!ToTenant
          /\ Orm!PackageDocument.foreign["fk_package_documents_tenant_document"] =
               Orm!InTenant("document_id", "documents", "CASCADE")
          /\ Orm!PackageDocument.foreign["fk_package_documents_tenant_package"] =
               Orm!InTenant("package_id", "machine_packages", "CASCADE")
      BY DEF Orm!PackageDocument
    <3>3. Range(Orm!PackageDocument.foreign) =
            {Orm!ToTenant,
             Orm!InTenant("document_id", "documents", "CASCADE"),
             Orm!InTenant("package_id", "machine_packages", "CASCADE")}
      BY <3>1, <3>2
    <3>4. /\ Orm!ToTenant.parent \in Outside
          /\ Orm!InTenant("document_id", "documents", "CASCADE").parent \in Outside
          /\ Orm!InTenant("package_id", "machine_packages", "CASCADE").parent \notin Outside
      BY DEF Outside, Orm!ToTenant, Orm!InTenant, Orm!Foreign
    <3>. QED BY <3>3, <3>4
  <2>3. /\ "tenant_id" \notin Orm!PackageDocument.optional
        /\ "package_id" \in Orm!PackageDocument.required
    BY DEF Orm!PackageDocument, Orm!Row, Orm!Stamped
  <2>4. KeyOf("package_documents", Orm!InTenant("package_id", "machine_packages", "CASCADE")) = Owned
    BY <2>1, <2>3, SetsNull, InTenantKey DEF Owned
  <2>5. Keys["package_documents"] = {Owned}
    BY DEF Keys
  <2>. QED BY <1>2, <2>1, <2>2, <2>4, <2>5
<1>7. ForeignKeys["package_assignments"] = Keys["package_assignments"]
  <2>1. "package_assignments" \in EngineeringTables /\ Orm!OrmTables["package_assignments"] = Orm!PackageAssignment
    BY <1>1 DEF Keys, Orm!OrmTables
  <2>2. {g \in Range(Orm!PackageAssignment.foreign) : g.parent \notin Outside} =
          {Orm!InTenant("package_id", "machine_packages", "CASCADE"),
           Orm!InTenant("machine_id", "machines", SetNull),
           Orm!InTenant("assembly_id", "assemblies", SetNull)}
    <3>1. Range(Orm!PackageAssignment.foreign) =
            {Orm!PackageAssignment.foreign[x] : x \in {"tenant_id_fkey",
               "fk_package_assignments_tenant_assembly",
               "fk_package_assignments_tenant_document",
               "fk_package_assignments_tenant_machine",
               "fk_package_assignments_tenant_package"}}
      BY DEF Orm!PackageAssignment, Range
    <3>2. /\ Orm!PackageAssignment.foreign["tenant_id_fkey"] =
               Orm!ToTenant
          /\ Orm!PackageAssignment.foreign["fk_package_assignments_tenant_assembly"] =
               Orm!InTenant("assembly_id", "assemblies", SetNull)
          /\ Orm!PackageAssignment.foreign["fk_package_assignments_tenant_document"] =
               Orm!InTenant("document_id", "documents", "CASCADE")
          /\ Orm!PackageAssignment.foreign["fk_package_assignments_tenant_machine"] =
               Orm!InTenant("machine_id", "machines", SetNull)
          /\ Orm!PackageAssignment.foreign["fk_package_assignments_tenant_package"] =
               Orm!InTenant("package_id", "machine_packages", "CASCADE")
      BY DEF Orm!PackageAssignment, SetNull
    <3>3. Range(Orm!PackageAssignment.foreign) =
            {Orm!ToTenant,
             Orm!InTenant("assembly_id", "assemblies", SetNull),
             Orm!InTenant("document_id", "documents", "CASCADE"),
             Orm!InTenant("machine_id", "machines", SetNull),
             Orm!InTenant("package_id", "machine_packages", "CASCADE")}
      BY <3>1, <3>2
    <3>4. /\ Orm!ToTenant.parent \in Outside
          /\ Orm!InTenant("assembly_id", "assemblies", SetNull).parent \notin Outside
          /\ Orm!InTenant("document_id", "documents", "CASCADE").parent \in Outside
          /\ Orm!InTenant("machine_id", "machines", SetNull).parent \notin Outside
          /\ Orm!InTenant("package_id", "machine_packages", "CASCADE").parent \notin Outside
      BY DEF Outside, Orm!ToTenant, Orm!InTenant, Orm!Foreign
    <3>. QED BY <3>3, <3>4
  <2>3. /\ "tenant_id" \notin Orm!PackageAssignment.optional
        /\ "package_id" \in Orm!PackageAssignment.required
        /\ "machine_id" \notin Orm!PackageAssignment.required
        /\ "assembly_id" \notin Orm!PackageAssignment.required
    BY DEF Orm!PackageAssignment, Orm!Row, Orm!Stamped
  <2>4. KeyOf("package_assignments", Orm!InTenant("package_id", "machine_packages", "CASCADE")) = Owned
    BY <2>1, <2>3, SetsNull, InTenantKey DEF Owned
  <2>5. KeyOf("package_assignments", Orm!InTenant("machine_id", "machines", SetNull)) = Key("machine_id", "machines", SetNull)
    BY <2>1, <2>3, SetsNull, InTenantKey
  <2>6. KeyOf("package_assignments", Orm!InTenant("assembly_id", "assemblies", SetNull)) = Key("assembly_id", "assemblies", SetNull)
    BY <2>1, <2>3, SetsNull, InTenantKey
  <2>7. Keys["package_assignments"] = {Owned, Key("machine_id", "machines", SetNull), Key("assembly_id", "assemblies", SetNull)}
    BY DEF Keys
  <2>8. {KeyOf("package_assignments", fk) : fk \in
            {Orm!InTenant("package_id", "machine_packages", "CASCADE"),
             Orm!InTenant("machine_id", "machines", SetNull),
             Orm!InTenant("assembly_id", "assemblies", SetNull)}} =
          {KeyOf("package_assignments", Orm!InTenant("package_id", "machine_packages", "CASCADE")),
           KeyOf("package_assignments", Orm!InTenant("machine_id", "machines", SetNull)),
           KeyOf("package_assignments", Orm!InTenant("assembly_id", "assemblies", SetNull))}
    OBVIOUS
  <2>. QED BY <1>2, <2>1, <2>2, <2>4, <2>5, <2>6, <2>8, <2>7
<1>8. ForeignKeys["engineering_entities"] = Keys["engineering_entities"]
  <2>1. "engineering_entities" \in EngineeringTables /\ Orm!OrmTables["engineering_entities"] = Orm!EngineeringEntity
    BY <1>1 DEF Keys, Orm!OrmTables
  <2>2. {g \in Range(Orm!EngineeringEntity.foreign) : g.parent \notin Outside} =
          {Orm!InTenant("package_id", "machine_packages", "CASCADE"),
           Orm!InTenant("machine_id", "machines", SetNull),
           Orm!InTenant("assembly_id", "assemblies", SetNull)}
    <3>1. Range(Orm!EngineeringEntity.foreign) =
            {Orm!EngineeringEntity.foreign[x] : x \in {"tenant_id_fkey",
               "fk_engineering_entities_tenant_assembly",
               "fk_engineering_entities_tenant_machine",
               "fk_engineering_entities_tenant_package"}}
      BY DEF Orm!EngineeringEntity, Range
    <3>2. /\ Orm!EngineeringEntity.foreign["tenant_id_fkey"] =
               Orm!ToTenant
          /\ Orm!EngineeringEntity.foreign["fk_engineering_entities_tenant_assembly"] =
               Orm!InTenant("assembly_id", "assemblies", SetNull)
          /\ Orm!EngineeringEntity.foreign["fk_engineering_entities_tenant_machine"] =
               Orm!InTenant("machine_id", "machines", SetNull)
          /\ Orm!EngineeringEntity.foreign["fk_engineering_entities_tenant_package"] =
               Orm!InTenant("package_id", "machine_packages", "CASCADE")
      BY DEF Orm!EngineeringEntity, SetNull
    <3>3. Range(Orm!EngineeringEntity.foreign) =
            {Orm!ToTenant,
             Orm!InTenant("assembly_id", "assemblies", SetNull),
             Orm!InTenant("machine_id", "machines", SetNull),
             Orm!InTenant("package_id", "machine_packages", "CASCADE")}
      BY <3>1, <3>2
    <3>4. /\ Orm!ToTenant.parent \in Outside
          /\ Orm!InTenant("assembly_id", "assemblies", SetNull).parent \notin Outside
          /\ Orm!InTenant("machine_id", "machines", SetNull).parent \notin Outside
          /\ Orm!InTenant("package_id", "machine_packages", "CASCADE").parent \notin Outside
      BY DEF Outside, Orm!ToTenant, Orm!InTenant, Orm!Foreign
    <3>. QED BY <3>3, <3>4
  <2>3. /\ "tenant_id" \notin Orm!EngineeringEntity.optional
        /\ "package_id" \in Orm!EngineeringEntity.required
        /\ "machine_id" \notin Orm!EngineeringEntity.required
        /\ "assembly_id" \notin Orm!EngineeringEntity.required
    BY DEF Orm!EngineeringEntity, Orm!Row, Orm!Stamped
  <2>4. KeyOf("engineering_entities", Orm!InTenant("package_id", "machine_packages", "CASCADE")) = Owned
    BY <2>1, <2>3, SetsNull, InTenantKey DEF Owned
  <2>5. KeyOf("engineering_entities", Orm!InTenant("machine_id", "machines", SetNull)) = Key("machine_id", "machines", SetNull)
    BY <2>1, <2>3, SetsNull, InTenantKey
  <2>6. KeyOf("engineering_entities", Orm!InTenant("assembly_id", "assemblies", SetNull)) = Key("assembly_id", "assemblies", SetNull)
    BY <2>1, <2>3, SetsNull, InTenantKey
  <2>7. Keys["engineering_entities"] = {Owned, Key("machine_id", "machines", SetNull), Key("assembly_id", "assemblies", SetNull)}
    BY DEF Keys
  <2>8. {KeyOf("engineering_entities", fk) : fk \in
            {Orm!InTenant("package_id", "machine_packages", "CASCADE"),
             Orm!InTenant("machine_id", "machines", SetNull),
             Orm!InTenant("assembly_id", "assemblies", SetNull)}} =
          {KeyOf("engineering_entities", Orm!InTenant("package_id", "machine_packages", "CASCADE")),
           KeyOf("engineering_entities", Orm!InTenant("machine_id", "machines", SetNull)),
           KeyOf("engineering_entities", Orm!InTenant("assembly_id", "assemblies", SetNull))}
    OBVIOUS
  <2>. QED BY <1>2, <2>1, <2>2, <2>4, <2>5, <2>6, <2>8, <2>7
<1>9. ForeignKeys["engineering_entity_candidates"] = Keys["engineering_entity_candidates"]
  <2>1. "engineering_entity_candidates" \in EngineeringTables /\ Orm!OrmTables["engineering_entity_candidates"] = Orm!EngineeringEntityCandidate
    BY <1>1 DEF Keys, Orm!OrmTables
  <2>2. {g \in Range(Orm!EngineeringEntityCandidate.foreign) : g.parent \notin Outside} =
          {Orm!InTenant("package_id", "machine_packages", "CASCADE"),
           Orm!InTenant("canonical_entity_id", "engineering_entities", SetNull)}
    <3>1. Range(Orm!EngineeringEntityCandidate.foreign) =
            {Orm!EngineeringEntityCandidate.foreign[x] : x \in {"tenant_id_fkey",
               "fk_entity_candidates_tenant_canonical",
               "fk_entity_candidates_tenant_package"}}
      BY DEF Orm!EngineeringEntityCandidate, Range
    <3>2. /\ Orm!EngineeringEntityCandidate.foreign["tenant_id_fkey"] =
               Orm!ToTenant
          /\ Orm!EngineeringEntityCandidate.foreign["fk_entity_candidates_tenant_canonical"] =
               Orm!InTenant("canonical_entity_id", "engineering_entities", SetNull)
          /\ Orm!EngineeringEntityCandidate.foreign["fk_entity_candidates_tenant_package"] =
               Orm!InTenant("package_id", "machine_packages", "CASCADE")
      BY DEF Orm!EngineeringEntityCandidate, SetNull
    <3>3. Range(Orm!EngineeringEntityCandidate.foreign) =
            {Orm!ToTenant,
             Orm!InTenant("canonical_entity_id", "engineering_entities", SetNull),
             Orm!InTenant("package_id", "machine_packages", "CASCADE")}
      BY <3>1, <3>2
    <3>4. /\ Orm!ToTenant.parent \in Outside
          /\ Orm!InTenant("canonical_entity_id", "engineering_entities", SetNull).parent \notin Outside
          /\ Orm!InTenant("package_id", "machine_packages", "CASCADE").parent \notin Outside
      BY DEF Outside, Orm!ToTenant, Orm!InTenant, Orm!Foreign
    <3>. QED BY <3>3, <3>4
  <2>3. /\ "tenant_id" \notin Orm!EngineeringEntityCandidate.optional
        /\ "package_id" \in Orm!EngineeringEntityCandidate.required
        /\ "canonical_entity_id" \notin Orm!EngineeringEntityCandidate.required
    BY DEF Orm!EngineeringEntityCandidate, Orm!Row, Orm!Stamped
  <2>4. KeyOf("engineering_entity_candidates", Orm!InTenant("package_id", "machine_packages", "CASCADE")) = Owned
    BY <2>1, <2>3, SetsNull, InTenantKey DEF Owned
  <2>5. KeyOf("engineering_entity_candidates", Orm!InTenant("canonical_entity_id", "engineering_entities", SetNull)) = Key("canonical_entity_id", "engineering_entities", SetNull)
    BY <2>1, <2>3, SetsNull, InTenantKey
  <2>6. Keys["engineering_entity_candidates"] = {Owned, Key("canonical_entity_id", "engineering_entities", SetNull)}
    BY DEF Keys
  <2>7. {KeyOf("engineering_entity_candidates", fk) : fk \in
            {Orm!InTenant("package_id", "machine_packages", "CASCADE"),
             Orm!InTenant("canonical_entity_id", "engineering_entities", SetNull)}} =
          {KeyOf("engineering_entity_candidates", Orm!InTenant("package_id", "machine_packages", "CASCADE")),
           KeyOf("engineering_entity_candidates", Orm!InTenant("canonical_entity_id", "engineering_entities", SetNull))}
    OBVIOUS
  <2>. QED BY <1>2, <2>1, <2>2, <2>4, <2>5, <2>7, <2>6
<1>10. ForeignKeys["engineering_relations"] = Keys["engineering_relations"]
  <2>1. "engineering_relations" \in EngineeringTables /\ Orm!OrmTables["engineering_relations"] = Orm!EngineeringRelation
    BY <1>1 DEF Keys, Orm!OrmTables
  <2>2. {g \in Range(Orm!EngineeringRelation.foreign) : g.parent \notin Outside} =
          {Orm!InTenant("package_id", "machine_packages", "CASCADE"),
           Orm!InPackage("source_entity_id", "engineering_entities", "CASCADE"),
           Orm!InPackage("target_entity_id", "engineering_entities", "CASCADE")}
    <3>1. Range(Orm!EngineeringRelation.foreign) =
            {Orm!EngineeringRelation.foreign[x] : x \in {"tenant_id_fkey",
               "fk_engineering_relations_tenant_package",
               "fk_engineering_relations_tenant_source",
               "fk_engineering_relations_tenant_target"}}
      BY DEF Orm!EngineeringRelation, Range
    <3>2. /\ Orm!EngineeringRelation.foreign["tenant_id_fkey"] =
               Orm!ToTenant
          /\ Orm!EngineeringRelation.foreign["fk_engineering_relations_tenant_package"] =
               Orm!InTenant("package_id", "machine_packages", "CASCADE")
          /\ Orm!EngineeringRelation.foreign["fk_engineering_relations_tenant_source"] =
               Orm!InPackage("source_entity_id", "engineering_entities", "CASCADE")
          /\ Orm!EngineeringRelation.foreign["fk_engineering_relations_tenant_target"] =
               Orm!InPackage("target_entity_id", "engineering_entities", "CASCADE")
      BY DEF Orm!EngineeringRelation
    <3>3. Range(Orm!EngineeringRelation.foreign) =
            {Orm!ToTenant,
             Orm!InTenant("package_id", "machine_packages", "CASCADE"),
             Orm!InPackage("source_entity_id", "engineering_entities", "CASCADE"),
             Orm!InPackage("target_entity_id", "engineering_entities", "CASCADE")}
      BY <3>1, <3>2
    <3>4. /\ Orm!ToTenant.parent \in Outside
          /\ Orm!InTenant("package_id", "machine_packages", "CASCADE").parent \notin Outside
          /\ Orm!InPackage("source_entity_id", "engineering_entities", "CASCADE").parent \notin Outside
          /\ Orm!InPackage("target_entity_id", "engineering_entities", "CASCADE").parent \notin Outside
      BY DEF Outside, Orm!ToTenant, Orm!InTenant, Orm!Foreign, Orm!InPackage
    <3>. QED BY <3>3, <3>4
  <2>3. /\ "tenant_id" \notin Orm!EngineeringRelation.optional
        /\ "package_id" \in Orm!EngineeringRelation.required
        /\ "source_entity_id" \in Orm!EngineeringRelation.required
        /\ "target_entity_id" \in Orm!EngineeringRelation.required
    BY DEF Orm!EngineeringRelation, Orm!Row, Orm!Stamped
  <2>4. KeyOf("engineering_relations", Orm!InTenant("package_id", "machine_packages", "CASCADE")) = Owned
    BY <2>1, <2>3, SetsNull, InTenantKey DEF Owned
  <2>5. KeyOf("engineering_relations", Orm!InPackage("source_entity_id", "engineering_entities", "CASCADE")) = Within("source_entity_id", "engineering_entities", "CASCADE")
    BY <2>1, <2>3, SetsNull, InPackageKey
  <2>6. KeyOf("engineering_relations", Orm!InPackage("target_entity_id", "engineering_entities", "CASCADE")) = Within("target_entity_id", "engineering_entities", "CASCADE")
    BY <2>1, <2>3, SetsNull, InPackageKey
  <2>7. Keys["engineering_relations"] = {Owned, Within("source_entity_id", "engineering_entities", "CASCADE"), Within("target_entity_id", "engineering_entities", "CASCADE")}
    BY DEF Keys
  <2>8. {KeyOf("engineering_relations", fk) : fk \in
            {Orm!InTenant("package_id", "machine_packages", "CASCADE"),
             Orm!InPackage("source_entity_id", "engineering_entities", "CASCADE"),
             Orm!InPackage("target_entity_id", "engineering_entities", "CASCADE")}} =
          {KeyOf("engineering_relations", Orm!InTenant("package_id", "machine_packages", "CASCADE")),
           KeyOf("engineering_relations", Orm!InPackage("source_entity_id", "engineering_entities", "CASCADE")),
           KeyOf("engineering_relations", Orm!InPackage("target_entity_id", "engineering_entities", "CASCADE"))}
    OBVIOUS
  <2>. QED BY <1>2, <2>1, <2>2, <2>4, <2>5, <2>6, <2>8, <2>7
<1>11. ForeignKeys["engineering_relation_candidates"] = Keys["engineering_relation_candidates"]
  <2>1. "engineering_relation_candidates" \in EngineeringTables /\ Orm!OrmTables["engineering_relation_candidates"] = Orm!EngineeringRelationCandidate
    BY <1>1 DEF Keys, Orm!OrmTables
  <2>2. {g \in Range(Orm!EngineeringRelationCandidate.foreign) : g.parent \notin Outside} =
          {Orm!InTenant("package_id", "machine_packages", "CASCADE"),
           Orm!InTenant("canonical_relation_id", "engineering_relations", SetNull),
           Orm!InPackage("source_entity_id", "engineering_entities", SetNull),
           Orm!InPackage("target_entity_id", "engineering_entities", SetNull)}
    <3>1. Range(Orm!EngineeringRelationCandidate.foreign) =
            {Orm!EngineeringRelationCandidate.foreign[x] : x \in {"tenant_id_fkey",
               "fk_relation_candidates_tenant_canonical",
               "fk_relation_candidates_tenant_package",
               "fk_relation_candidates_tenant_source",
               "fk_relation_candidates_tenant_target"}}
      BY DEF Orm!EngineeringRelationCandidate, Range
    <3>2. /\ Orm!EngineeringRelationCandidate.foreign["tenant_id_fkey"] =
               Orm!ToTenant
          /\ Orm!EngineeringRelationCandidate.foreign["fk_relation_candidates_tenant_canonical"] =
               Orm!InTenant("canonical_relation_id", "engineering_relations", SetNull)
          /\ Orm!EngineeringRelationCandidate.foreign["fk_relation_candidates_tenant_package"] =
               Orm!InTenant("package_id", "machine_packages", "CASCADE")
          /\ Orm!EngineeringRelationCandidate.foreign["fk_relation_candidates_tenant_source"] =
               Orm!InPackage("source_entity_id", "engineering_entities", SetNull)
          /\ Orm!EngineeringRelationCandidate.foreign["fk_relation_candidates_tenant_target"] =
               Orm!InPackage("target_entity_id", "engineering_entities", SetNull)
      BY DEF Orm!EngineeringRelationCandidate, SetNull
    <3>3. Range(Orm!EngineeringRelationCandidate.foreign) =
            {Orm!ToTenant,
             Orm!InTenant("canonical_relation_id", "engineering_relations", SetNull),
             Orm!InTenant("package_id", "machine_packages", "CASCADE"),
             Orm!InPackage("source_entity_id", "engineering_entities", SetNull),
             Orm!InPackage("target_entity_id", "engineering_entities", SetNull)}
      BY <3>1, <3>2
    <3>4. /\ Orm!ToTenant.parent \in Outside
          /\ Orm!InTenant("canonical_relation_id", "engineering_relations", SetNull).parent \notin Outside
          /\ Orm!InTenant("package_id", "machine_packages", "CASCADE").parent \notin Outside
          /\ Orm!InPackage("source_entity_id", "engineering_entities", SetNull).parent \notin Outside
          /\ Orm!InPackage("target_entity_id", "engineering_entities", SetNull).parent \notin Outside
      BY DEF Outside, Orm!ToTenant, Orm!InTenant, Orm!Foreign, Orm!InPackage
    <3>. QED BY <3>3, <3>4
  <2>3. /\ "tenant_id" \notin Orm!EngineeringRelationCandidate.optional
        /\ "package_id" \in Orm!EngineeringRelationCandidate.required
        /\ "canonical_relation_id" \notin Orm!EngineeringRelationCandidate.required
        /\ "source_entity_id" \notin Orm!EngineeringRelationCandidate.required
        /\ "target_entity_id" \notin Orm!EngineeringRelationCandidate.required
    BY DEF Orm!EngineeringRelationCandidate, Orm!Row, Orm!Stamped
  <2>4. KeyOf("engineering_relation_candidates", Orm!InTenant("package_id", "machine_packages", "CASCADE")) = Owned
    BY <2>1, <2>3, SetsNull, InTenantKey DEF Owned
  <2>5. KeyOf("engineering_relation_candidates", Orm!InTenant("canonical_relation_id", "engineering_relations", SetNull)) = Key("canonical_relation_id", "engineering_relations", SetNull)
    BY <2>1, <2>3, SetsNull, InTenantKey
  <2>6. KeyOf("engineering_relation_candidates", Orm!InPackage("source_entity_id", "engineering_entities", SetNull)) = Within("source_entity_id", "engineering_entities", SetNull)
    BY <2>1, <2>3, SetsNull, InPackageKey
  <2>7. KeyOf("engineering_relation_candidates", Orm!InPackage("target_entity_id", "engineering_entities", SetNull)) = Within("target_entity_id", "engineering_entities", SetNull)
    BY <2>1, <2>3, SetsNull, InPackageKey
  <2>8. Keys["engineering_relation_candidates"] = {Owned, Key("canonical_relation_id", "engineering_relations", SetNull), Within("source_entity_id", "engineering_entities", SetNull), Within("target_entity_id", "engineering_entities", SetNull)}
    BY DEF Keys
  <2>9. {KeyOf("engineering_relation_candidates", fk) : fk \in
            {Orm!InTenant("package_id", "machine_packages", "CASCADE"),
             Orm!InTenant("canonical_relation_id", "engineering_relations", SetNull),
             Orm!InPackage("source_entity_id", "engineering_entities", SetNull),
             Orm!InPackage("target_entity_id", "engineering_entities", SetNull)}} =
          {KeyOf("engineering_relation_candidates", Orm!InTenant("package_id", "machine_packages", "CASCADE")),
           KeyOf("engineering_relation_candidates", Orm!InTenant("canonical_relation_id", "engineering_relations", SetNull)),
           KeyOf("engineering_relation_candidates", Orm!InPackage("source_entity_id", "engineering_entities", SetNull)),
           KeyOf("engineering_relation_candidates", Orm!InPackage("target_entity_id", "engineering_entities", SetNull))}
    OBVIOUS
  <2>. QED BY <1>2, <2>1, <2>2, <2>4, <2>5, <2>6, <2>7, <2>9, <2>8
<1>12. ForeignKeys["plc_programs"] = Keys["plc_programs"]
  <2>1. "plc_programs" \in EngineeringTables /\ Orm!OrmTables["plc_programs"] = Orm!PlcProgram
    BY <1>1 DEF Keys, Orm!OrmTables
  <2>2. {g \in Range(Orm!PlcProgram.foreign) : g.parent \notin Outside} =
          {Orm!InTenant("package_id", "machine_packages", "CASCADE"),
           Orm!InTenant("machine_id", "machines", SetNull)}
    <3>1. Range(Orm!PlcProgram.foreign) =
            {Orm!PlcProgram.foreign[x] : x \in {"tenant_id_fkey",
               "fk_plc_programs_tenant_machine",
               "fk_plc_programs_tenant_package"}}
      BY DEF Orm!PlcProgram, Range
    <3>2. /\ Orm!PlcProgram.foreign["tenant_id_fkey"] =
               Orm!ToTenant
          /\ Orm!PlcProgram.foreign["fk_plc_programs_tenant_machine"] =
               Orm!InTenant("machine_id", "machines", SetNull)
          /\ Orm!PlcProgram.foreign["fk_plc_programs_tenant_package"] =
               Orm!InTenant("package_id", "machine_packages", "CASCADE")
      BY DEF Orm!PlcProgram, SetNull
    <3>3. Range(Orm!PlcProgram.foreign) =
            {Orm!ToTenant,
             Orm!InTenant("machine_id", "machines", SetNull),
             Orm!InTenant("package_id", "machine_packages", "CASCADE")}
      BY <3>1, <3>2
    <3>4. /\ Orm!ToTenant.parent \in Outside
          /\ Orm!InTenant("machine_id", "machines", SetNull).parent \notin Outside
          /\ Orm!InTenant("package_id", "machine_packages", "CASCADE").parent \notin Outside
      BY DEF Outside, Orm!ToTenant, Orm!InTenant, Orm!Foreign
    <3>. QED BY <3>3, <3>4
  <2>3. /\ "tenant_id" \notin Orm!PlcProgram.optional
        /\ "package_id" \in Orm!PlcProgram.required
        /\ "machine_id" \notin Orm!PlcProgram.required
    BY DEF Orm!PlcProgram, Orm!Row, Orm!Stamped
  <2>4. KeyOf("plc_programs", Orm!InTenant("package_id", "machine_packages", "CASCADE")) = Owned
    BY <2>1, <2>3, SetsNull, InTenantKey DEF Owned
  <2>5. KeyOf("plc_programs", Orm!InTenant("machine_id", "machines", SetNull)) = Key("machine_id", "machines", SetNull)
    BY <2>1, <2>3, SetsNull, InTenantKey
  <2>6. Keys["plc_programs"] = {Owned, Key("machine_id", "machines", SetNull)}
    BY DEF Keys
  <2>7. {KeyOf("plc_programs", fk) : fk \in
            {Orm!InTenant("package_id", "machine_packages", "CASCADE"),
             Orm!InTenant("machine_id", "machines", SetNull)}} =
          {KeyOf("plc_programs", Orm!InTenant("package_id", "machine_packages", "CASCADE")),
           KeyOf("plc_programs", Orm!InTenant("machine_id", "machines", SetNull))}
    OBVIOUS
  <2>. QED BY <1>2, <2>1, <2>2, <2>4, <2>5, <2>7, <2>6
<1>13. ForeignKeys["plc_blocks"] = Keys["plc_blocks"]
  <2>1. "plc_blocks" \in EngineeringTables /\ Orm!OrmTables["plc_blocks"] = Orm!PlcBlock
    BY <1>1 DEF Keys, Orm!OrmTables
  <2>2. {g \in Range(Orm!PlcBlock.foreign) : g.parent \notin Outside} =
          {Orm!InTenant("program_id", "plc_programs", "CASCADE")}
    <3>3. Range(Orm!PlcBlock.foreign) =
            {Orm!ToTenant,
             Orm!InTenant("program_id", "plc_programs", "CASCADE")}
      BY DEF Orm!PlcBlock, Range
    <3>4. /\ Orm!ToTenant.parent \in Outside
          /\ Orm!InTenant("program_id", "plc_programs", "CASCADE").parent \notin Outside
      BY DEF Outside, Orm!ToTenant, Orm!InTenant, Orm!Foreign
    <3>. QED BY <3>3, <3>4
  <2>3. /\ "tenant_id" \notin Orm!PlcBlock.optional
        /\ "program_id" \in Orm!PlcBlock.required
    BY DEF Orm!PlcBlock, Orm!Row, Orm!Stamped
  <2>4. KeyOf("plc_blocks", Orm!InTenant("program_id", "plc_programs", "CASCADE")) = Key("program_id", "plc_programs", "CASCADE")
    BY <2>1, <2>3, SetsNull, InTenantKey
  <2>5. Keys["plc_blocks"] = {Key("program_id", "plc_programs", "CASCADE")}
    BY DEF Keys
  <2>. QED BY <1>2, <2>1, <2>2, <2>4, <2>5
<1>14. ForeignKeys["plc_variables"] = Keys["plc_variables"]
  <2>1. "plc_variables" \in EngineeringTables /\ Orm!OrmTables["plc_variables"] = Orm!PlcVariable
    BY <1>1 DEF Keys, Orm!OrmTables
  <2>2. {g \in Range(Orm!PlcVariable.foreign) : g.parent \notin Outside} =
          {Orm!InTenant("program_id", "plc_programs", "CASCADE"),
           Orm!InTenant("block_id", "plc_blocks", SetNull),
           Orm!InTenant("entity_id", "engineering_entities", SetNull)}
    <3>1. Range(Orm!PlcVariable.foreign) =
            {Orm!PlcVariable.foreign[x] : x \in {"tenant_id_fkey",
               "fk_plc_variables_tenant_block",
               "fk_plc_variables_tenant_entity",
               "fk_plc_variables_tenant_program"}}
      BY DEF Orm!PlcVariable, Range
    <3>2. /\ Orm!PlcVariable.foreign["tenant_id_fkey"] =
               Orm!ToTenant
          /\ Orm!PlcVariable.foreign["fk_plc_variables_tenant_block"] =
               Orm!InTenant("block_id", "plc_blocks", SetNull)
          /\ Orm!PlcVariable.foreign["fk_plc_variables_tenant_entity"] =
               Orm!InTenant("entity_id", "engineering_entities", SetNull)
          /\ Orm!PlcVariable.foreign["fk_plc_variables_tenant_program"] =
               Orm!InTenant("program_id", "plc_programs", "CASCADE")
      BY DEF Orm!PlcVariable, SetNull
    <3>3. Range(Orm!PlcVariable.foreign) =
            {Orm!ToTenant,
             Orm!InTenant("block_id", "plc_blocks", SetNull),
             Orm!InTenant("entity_id", "engineering_entities", SetNull),
             Orm!InTenant("program_id", "plc_programs", "CASCADE")}
      BY <3>1, <3>2
    <3>4. /\ Orm!ToTenant.parent \in Outside
          /\ Orm!InTenant("block_id", "plc_blocks", SetNull).parent \notin Outside
          /\ Orm!InTenant("entity_id", "engineering_entities", SetNull).parent \notin Outside
          /\ Orm!InTenant("program_id", "plc_programs", "CASCADE").parent \notin Outside
      BY DEF Outside, Orm!ToTenant, Orm!InTenant, Orm!Foreign
    <3>. QED BY <3>3, <3>4
  <2>3. /\ "tenant_id" \notin Orm!PlcVariable.optional
        /\ "program_id" \in Orm!PlcVariable.required
        /\ "block_id" \notin Orm!PlcVariable.required
        /\ "entity_id" \notin Orm!PlcVariable.required
    BY DEF Orm!PlcVariable, Orm!Row, Orm!Stamped
  <2>4. KeyOf("plc_variables", Orm!InTenant("program_id", "plc_programs", "CASCADE")) = Key("program_id", "plc_programs", "CASCADE")
    BY <2>1, <2>3, SetsNull, InTenantKey
  <2>5. KeyOf("plc_variables", Orm!InTenant("block_id", "plc_blocks", SetNull)) = Key("block_id", "plc_blocks", SetNull)
    BY <2>1, <2>3, SetsNull, InTenantKey
  <2>6. KeyOf("plc_variables", Orm!InTenant("entity_id", "engineering_entities", SetNull)) = Key("entity_id", "engineering_entities", SetNull)
    BY <2>1, <2>3, SetsNull, InTenantKey
  <2>7. Keys["plc_variables"] = {Key("program_id", "plc_programs", "CASCADE"), Key("block_id", "plc_blocks", SetNull), Key("entity_id", "engineering_entities", SetNull)}
    BY DEF Keys
  <2>8. {KeyOf("plc_variables", fk) : fk \in
            {Orm!InTenant("program_id", "plc_programs", "CASCADE"),
             Orm!InTenant("block_id", "plc_blocks", SetNull),
             Orm!InTenant("entity_id", "engineering_entities", SetNull)}} =
          {KeyOf("plc_variables", Orm!InTenant("program_id", "plc_programs", "CASCADE")),
           KeyOf("plc_variables", Orm!InTenant("block_id", "plc_blocks", SetNull)),
           KeyOf("plc_variables", Orm!InTenant("entity_id", "engineering_entities", SetNull))}
    OBVIOUS
  <2>. QED BY <1>2, <2>1, <2>2, <2>4, <2>5, <2>6, <2>8, <2>7
<1>15. ForeignKeys["plc_references"] = Keys["plc_references"]
  <2>1. "plc_references" \in EngineeringTables /\ Orm!OrmTables["plc_references"] = Orm!PlcReference
    BY <1>1 DEF Keys, Orm!OrmTables
  <2>2. {g \in Range(Orm!PlcReference.foreign) : g.parent \notin Outside} =
          {Orm!InTenant("block_id", "plc_blocks", "CASCADE"),
           Orm!InTenant("variable_id", "plc_variables", SetNull)}
    <3>1. Range(Orm!PlcReference.foreign) =
            {Orm!PlcReference.foreign[x] : x \in {"tenant_id_fkey",
               "fk_plc_references_tenant_block",
               "fk_plc_references_tenant_variable"}}
      BY DEF Orm!PlcReference, Range
    <3>2. /\ Orm!PlcReference.foreign["tenant_id_fkey"] =
               Orm!ToTenant
          /\ Orm!PlcReference.foreign["fk_plc_references_tenant_block"] =
               Orm!InTenant("block_id", "plc_blocks", "CASCADE")
          /\ Orm!PlcReference.foreign["fk_plc_references_tenant_variable"] =
               Orm!InTenant("variable_id", "plc_variables", SetNull)
      BY DEF Orm!PlcReference, SetNull
    <3>3. Range(Orm!PlcReference.foreign) =
            {Orm!ToTenant,
             Orm!InTenant("block_id", "plc_blocks", "CASCADE"),
             Orm!InTenant("variable_id", "plc_variables", SetNull)}
      BY <3>1, <3>2
    <3>4. /\ Orm!ToTenant.parent \in Outside
          /\ Orm!InTenant("block_id", "plc_blocks", "CASCADE").parent \notin Outside
          /\ Orm!InTenant("variable_id", "plc_variables", SetNull).parent \notin Outside
      BY DEF Outside, Orm!ToTenant, Orm!InTenant, Orm!Foreign
    <3>. QED BY <3>3, <3>4
  <2>3. /\ "tenant_id" \notin Orm!PlcReference.optional
        /\ "block_id" \in Orm!PlcReference.required
        /\ "variable_id" \notin Orm!PlcReference.required
    BY DEF Orm!PlcReference, Orm!Row, Orm!Stamped
  <2>4. KeyOf("plc_references", Orm!InTenant("block_id", "plc_blocks", "CASCADE")) = Key("block_id", "plc_blocks", "CASCADE")
    BY <2>1, <2>3, SetsNull, InTenantKey
  <2>5. KeyOf("plc_references", Orm!InTenant("variable_id", "plc_variables", SetNull)) = Key("variable_id", "plc_variables", SetNull)
    BY <2>1, <2>3, SetsNull, InTenantKey
  <2>6. Keys["plc_references"] = {Key("block_id", "plc_blocks", "CASCADE"), Key("variable_id", "plc_variables", SetNull)}
    BY DEF Keys
  <2>7. {KeyOf("plc_references", fk) : fk \in
            {Orm!InTenant("block_id", "plc_blocks", "CASCADE"),
             Orm!InTenant("variable_id", "plc_variables", SetNull)}} =
          {KeyOf("plc_references", Orm!InTenant("block_id", "plc_blocks", "CASCADE")),
           KeyOf("plc_references", Orm!InTenant("variable_id", "plc_variables", SetNull))}
    OBVIOUS
  <2>. QED BY <1>2, <2>1, <2>2, <2>4, <2>5, <2>7, <2>6
<1>16. ForeignKeys["engineering_conflicts"] = Keys["engineering_conflicts"]
  <2>1. "engineering_conflicts" \in EngineeringTables /\ Orm!OrmTables["engineering_conflicts"] = Orm!EngineeringConflict
    BY <1>1 DEF Keys, Orm!OrmTables
  <2>2. {g \in Range(Orm!EngineeringConflict.foreign) : g.parent \notin Outside} =
          {Orm!InTenant("package_id", "machine_packages", "CASCADE")}
    <3>3. Range(Orm!EngineeringConflict.foreign) =
            {Orm!ToTenant,
             Orm!InTenant("package_id", "machine_packages", "CASCADE")}
      BY DEF Orm!EngineeringConflict, Range
    <3>4. /\ Orm!ToTenant.parent \in Outside
          /\ Orm!InTenant("package_id", "machine_packages", "CASCADE").parent \notin Outside
      BY DEF Outside, Orm!ToTenant, Orm!InTenant, Orm!Foreign
    <3>. QED BY <3>3, <3>4
  <2>3. /\ "tenant_id" \notin Orm!EngineeringConflict.optional
        /\ "package_id" \in Orm!EngineeringConflict.required
    BY DEF Orm!EngineeringConflict, Orm!Row, Orm!Stamped
  <2>4. KeyOf("engineering_conflicts", Orm!InTenant("package_id", "machine_packages", "CASCADE")) = Owned
    BY <2>1, <2>3, SetsNull, InTenantKey DEF Owned
  <2>5. Keys["engineering_conflicts"] = {Owned}
    BY DEF Keys
  <2>. QED BY <1>2, <2>1, <2>2, <2>4, <2>5
<1>17. ForeignKeys["unsupported_constructs"] = Keys["unsupported_constructs"]
  <2>1. "unsupported_constructs" \in EngineeringTables /\ Orm!OrmTables["unsupported_constructs"] = Orm!UnsupportedConstruct
    BY <1>1 DEF Keys, Orm!OrmTables
  <2>2. {g \in Range(Orm!UnsupportedConstruct.foreign) : g.parent \notin Outside} =
          {Orm!InTenant("package_id", "machine_packages", "CASCADE")}
    <3>1. Range(Orm!UnsupportedConstruct.foreign) =
            {Orm!UnsupportedConstruct.foreign[x] : x \in {"tenant_id_fkey",
               "fk_unsupported_constructs_tenant_document",
               "fk_unsupported_constructs_tenant_package"}}
      BY DEF Orm!UnsupportedConstruct, Range
    <3>2. /\ Orm!UnsupportedConstruct.foreign["tenant_id_fkey"] =
               Orm!ToTenant
          /\ Orm!UnsupportedConstruct.foreign["fk_unsupported_constructs_tenant_document"] =
               Orm!InTenant("document_id", "documents", SetNull)
          /\ Orm!UnsupportedConstruct.foreign["fk_unsupported_constructs_tenant_package"] =
               Orm!InTenant("package_id", "machine_packages", "CASCADE")
      BY DEF Orm!UnsupportedConstruct, SetNull
    <3>3. Range(Orm!UnsupportedConstruct.foreign) =
            {Orm!ToTenant,
             Orm!InTenant("document_id", "documents", SetNull),
             Orm!InTenant("package_id", "machine_packages", "CASCADE")}
      BY <3>1, <3>2
    <3>4. /\ Orm!ToTenant.parent \in Outside
          /\ Orm!InTenant("document_id", "documents", SetNull).parent \in Outside
          /\ Orm!InTenant("package_id", "machine_packages", "CASCADE").parent \notin Outside
      BY DEF Outside, Orm!ToTenant, Orm!InTenant, Orm!Foreign
    <3>. QED BY <3>3, <3>4
  <2>3. /\ "tenant_id" \notin Orm!UnsupportedConstruct.optional
        /\ "package_id" \in Orm!UnsupportedConstruct.required
    BY DEF Orm!UnsupportedConstruct, Orm!Row, Orm!Stamped
  <2>4. KeyOf("unsupported_constructs", Orm!InTenant("package_id", "machine_packages", "CASCADE")) = Owned
    BY <2>1, <2>3, SetsNull, InTenantKey DEF Owned
  <2>5. Keys["unsupported_constructs"] = {Owned}
    BY DEF Keys
  <2>. QED BY <1>2, <2>1, <2>2, <2>4, <2>5
<1>18. ForeignKeys["human_overrides"] = Keys["human_overrides"]
  <2>1. "human_overrides" \in EngineeringTables /\ Orm!OrmTables["human_overrides"] = Orm!HumanOverride
    BY <1>1 DEF Keys, Orm!OrmTables
  <2>2. {g \in Range(Orm!HumanOverride.foreign) : g.parent \notin Outside} =
          {Orm!InTenant("package_id", "machine_packages", "CASCADE")}
    <3>3. Range(Orm!HumanOverride.foreign) =
            {Orm!ToTenant,
             Orm!InTenant("package_id", "machine_packages", "CASCADE")}
      BY DEF Orm!HumanOverride, Range
    <3>4. /\ Orm!ToTenant.parent \in Outside
          /\ Orm!InTenant("package_id", "machine_packages", "CASCADE").parent \notin Outside
      BY DEF Outside, Orm!ToTenant, Orm!InTenant, Orm!Foreign
    <3>. QED BY <3>3, <3>4
  <2>3. /\ "tenant_id" \notin Orm!HumanOverride.optional
        /\ "package_id" \in Orm!HumanOverride.required
    BY DEF Orm!HumanOverride, Orm!Row, Orm!Stamped
  <2>4. KeyOf("human_overrides", Orm!InTenant("package_id", "machine_packages", "CASCADE")) = Owned
    BY <2>1, <2>3, SetsNull, InTenantKey DEF Owned
  <2>5. Keys["human_overrides"] = {Owned}
    BY DEF Keys
  <2>. QED BY <1>2, <2>1, <2>2, <2>4, <2>5
<1>19. ForeignKeys["derived_behavior_claims"] = Keys["derived_behavior_claims"]
  <2>1. "derived_behavior_claims" \in EngineeringTables /\ Orm!OrmTables["derived_behavior_claims"] = Orm!DerivedBehaviorClaim
    BY <1>1 DEF Keys, Orm!OrmTables
  <2>2. {g \in Range(Orm!DerivedBehaviorClaim.foreign) : g.parent \notin Outside} =
          {Orm!InTenant("package_id", "machine_packages", "CASCADE")}
    <3>3. Range(Orm!DerivedBehaviorClaim.foreign) =
            {Orm!ToTenant,
             Orm!InTenant("package_id", "machine_packages", "CASCADE")}
      BY DEF Orm!DerivedBehaviorClaim, Range
    <3>4. /\ Orm!ToTenant.parent \in Outside
          /\ Orm!InTenant("package_id", "machine_packages", "CASCADE").parent \notin Outside
      BY DEF Outside, Orm!ToTenant, Orm!InTenant, Orm!Foreign
    <3>. QED BY <3>3, <3>4
  <2>3. /\ "tenant_id" \notin Orm!DerivedBehaviorClaim.optional
        /\ "package_id" \in Orm!DerivedBehaviorClaim.required
    BY DEF Orm!DerivedBehaviorClaim, Orm!Row, Orm!Stamped
  <2>4. KeyOf("derived_behavior_claims", Orm!InTenant("package_id", "machine_packages", "CASCADE")) = Owned
    BY <2>1, <2>3, SetsNull, InTenantKey DEF Owned
  <2>5. Keys["derived_behavior_claims"] = {Owned}
    BY DEF Keys
  <2>. QED BY <1>2, <2>1, <2>2, <2>4, <2>5
<1>20. DOMAIN Keys = {"machine_packages",
        "machines",
        "assemblies",
        "package_documents",
        "package_assignments",
        "engineering_entities",
        "engineering_entity_candidates",
        "engineering_relations",
        "engineering_relation_candidates",
        "plc_programs",
        "plc_blocks",
        "plc_variables",
        "plc_references",
        "engineering_conflicts",
        "unsupported_constructs",
        "human_overrides",
        "derived_behavior_claims"}
  BY DEF Keys
<1>. QED
  BY <1>1, <1>20, <1>3, <1>4, <1>5, <1>6, <1>7, <1>8, <1>9, <1>10, <1>11, <1>12, <1>13, <1>14, <1>15, <1>16, <1>17, <1>18, <1>19

\* The tables whose rows do not name their package.
Unpackaged == {"machine_packages", "plc_blocks", "plc_variables", "plc_references"}

\* What the two shapes of a key are made of.
LEMMA KeyFields ==
  ASSUME NEW col, NEW parent, NEW ondelete
  PROVE  /\ Key(col, parent, ondelete).col = col /\ Within(col, parent, ondelete).col = col
         /\ Key(col, parent, ondelete).parent = parent /\ Within(col, parent, ondelete).parent = parent
         /\ Key(col, parent, ondelete).ondelete = ondelete /\ Within(col, parent, ondelete).ondelete = ondelete
         /\ Key(col, parent, ondelete).required <=> ondelete = "CASCADE"
         /\ Within(col, parent, ondelete).required <=> ondelete = "CASCADE"
         /\ ~Key(col, parent, ondelete).packaged /\ Within(col, parent, ondelete).packaged
<1>1. /\ Key(col, parent, ondelete).col = col
      /\ Key(col, parent, ondelete).parent = parent
      /\ Key(col, parent, ondelete).ondelete = ondelete
      /\ Key(col, parent, ondelete).required <=> ondelete = "CASCADE"
      /\ ~Key(col, parent, ondelete).packaged
  BY DEF Key
<1>2. /\ Within(col, parent, ondelete).col = col
      /\ Within(col, parent, ondelete).parent = parent
      /\ Within(col, parent, ondelete).ondelete = ondelete
      /\ Within(col, parent, ondelete).required <=> ondelete = "CASCADE"
      /\ Within(col, parent, ondelete).packaged
  BY DEF Within
<1>. QED BY <1>1, <1>2

\* The keys one by one.
KeyCase(t, f) ==
  \/ f = Owned /\ t \notin Unpackaged
  \/ t = "assemblies" /\ f = Key("machine_id", "machines", "CASCADE")
  \/ t = "assemblies" /\ f = Key("parent_assembly_id", "assemblies", SetNull)
  \/ t = "package_assignments" /\ f = Key("machine_id", "machines", SetNull)
  \/ t = "package_assignments" /\ f = Key("assembly_id", "assemblies", SetNull)
  \/ t = "engineering_entities" /\ f = Key("machine_id", "machines", SetNull)
  \/ t = "engineering_entities" /\ f = Key("assembly_id", "assemblies", SetNull)
  \/ t = "engineering_entity_candidates" /\ f = Key("canonical_entity_id", "engineering_entities", SetNull)
  \/ t = "engineering_relations" /\ f = Within("source_entity_id", "engineering_entities", "CASCADE")
  \/ t = "engineering_relations" /\ f = Within("target_entity_id", "engineering_entities", "CASCADE")
  \/ t = "engineering_relation_candidates" /\ f = Key("canonical_relation_id", "engineering_relations", SetNull)
  \/ t = "engineering_relation_candidates" /\ f = Within("source_entity_id", "engineering_entities", SetNull)
  \/ t = "engineering_relation_candidates" /\ f = Within("target_entity_id", "engineering_entities", SetNull)
  \/ t = "plc_programs" /\ f = Key("machine_id", "machines", SetNull)
  \/ t = "plc_blocks" /\ f = Key("program_id", "plc_programs", "CASCADE")
  \/ t = "plc_variables" /\ f = Key("program_id", "plc_programs", "CASCADE")
  \/ t = "plc_variables" /\ f = Key("block_id", "plc_blocks", SetNull)
  \/ t = "plc_variables" /\ f = Key("entity_id", "engineering_entities", SetNull)
  \/ t = "plc_references" /\ f = Key("block_id", "plc_blocks", "CASCADE")
  \/ t = "plc_references" /\ f = Key("variable_id", "plc_variables", SetNull)

\* Which table has which keys, case by case.
LEMMA KeyCases ==
  ASSUME NEW t \in EngineeringTables, NEW f \in ForeignKeys[t]
  PROVE  KeyCase(t, f)
<1>1. f \in Keys[t] /\ t \in {"machine_packages",
          "machines",
          "assemblies",
          "package_documents",
          "package_assignments",
          "engineering_entities",
          "engineering_entity_candidates",
          "engineering_relations",
          "engineering_relation_candidates",
          "plc_programs",
          "plc_blocks",
          "plc_variables",
          "plc_references",
          "engineering_conflicts",
          "unsupported_constructs",
          "human_overrides",
          "derived_behavior_claims"}
  BY KeyTable DEF Keys
<1>2. CASE t = "machine_packages"
  <2>1. Keys["machine_packages"] = {}
    BY DEF Keys
  <2>. QED BY <1>1, <1>2, <2>1 DEF KeyCase, Unpackaged
<1>3. CASE t = "machines"
  <2>1. Keys["machines"] = {Owned}
    BY DEF Keys
  <2>. QED BY <1>1, <1>3, <2>1 DEF KeyCase, Unpackaged
<1>4. CASE t = "assemblies"
  <2>1. Keys["assemblies"] = {Owned, Key("machine_id", "machines", "CASCADE"), Key("parent_assembly_id", "assemblies", SetNull)}
    BY DEF Keys
  <2>. QED BY <1>1, <1>4, <2>1 DEF KeyCase, Unpackaged
<1>5. CASE t = "package_documents"
  <2>1. Keys["package_documents"] = {Owned}
    BY DEF Keys
  <2>. QED BY <1>1, <1>5, <2>1 DEF KeyCase, Unpackaged
<1>6. CASE t = "package_assignments"
  <2>1. Keys["package_assignments"] = {Owned, Key("machine_id", "machines", SetNull), Key("assembly_id", "assemblies", SetNull)}
    BY DEF Keys
  <2>. QED BY <1>1, <1>6, <2>1 DEF KeyCase, Unpackaged
<1>7. CASE t = "engineering_entities"
  <2>1. Keys["engineering_entities"] = {Owned, Key("machine_id", "machines", SetNull), Key("assembly_id", "assemblies", SetNull)}
    BY DEF Keys
  <2>. QED BY <1>1, <1>7, <2>1 DEF KeyCase, Unpackaged
<1>8. CASE t = "engineering_entity_candidates"
  <2>1. Keys["engineering_entity_candidates"] = {Owned, Key("canonical_entity_id", "engineering_entities", SetNull)}
    BY DEF Keys
  <2>. QED BY <1>1, <1>8, <2>1 DEF KeyCase, Unpackaged
<1>9. CASE t = "engineering_relations"
  <2>1. Keys["engineering_relations"] = {Owned, Within("source_entity_id", "engineering_entities", "CASCADE"), Within("target_entity_id", "engineering_entities", "CASCADE")}
    BY DEF Keys
  <2>. QED BY <1>1, <1>9, <2>1 DEF KeyCase, Unpackaged
<1>10. CASE t = "engineering_relation_candidates"
  <2>1. Keys["engineering_relation_candidates"] = {Owned, Key("canonical_relation_id", "engineering_relations", SetNull), Within("source_entity_id", "engineering_entities", SetNull), Within("target_entity_id", "engineering_entities", SetNull)}
    BY DEF Keys
  <2>. QED BY <1>1, <1>10, <2>1 DEF KeyCase, Unpackaged
<1>11. CASE t = "plc_programs"
  <2>1. Keys["plc_programs"] = {Owned, Key("machine_id", "machines", SetNull)}
    BY DEF Keys
  <2>. QED BY <1>1, <1>11, <2>1 DEF KeyCase, Unpackaged
<1>12. CASE t = "plc_blocks"
  <2>1. Keys["plc_blocks"] = {Key("program_id", "plc_programs", "CASCADE")}
    BY DEF Keys
  <2>. QED BY <1>1, <1>12, <2>1 DEF KeyCase, Unpackaged
<1>13. CASE t = "plc_variables"
  <2>1. Keys["plc_variables"] = {Key("program_id", "plc_programs", "CASCADE"), Key("block_id", "plc_blocks", SetNull), Key("entity_id", "engineering_entities", SetNull)}
    BY DEF Keys
  <2>. QED BY <1>1, <1>13, <2>1 DEF KeyCase, Unpackaged
<1>14. CASE t = "plc_references"
  <2>1. Keys["plc_references"] = {Key("block_id", "plc_blocks", "CASCADE"), Key("variable_id", "plc_variables", SetNull)}
    BY DEF Keys
  <2>. QED BY <1>1, <1>14, <2>1 DEF KeyCase, Unpackaged
<1>15. CASE t = "engineering_conflicts"
  <2>1. Keys["engineering_conflicts"] = {Owned}
    BY DEF Keys
  <2>. QED BY <1>1, <1>15, <2>1 DEF KeyCase, Unpackaged
<1>16. CASE t = "unsupported_constructs"
  <2>1. Keys["unsupported_constructs"] = {Owned}
    BY DEF Keys
  <2>. QED BY <1>1, <1>16, <2>1 DEF KeyCase, Unpackaged
<1>17. CASE t = "human_overrides"
  <2>1. Keys["human_overrides"] = {Owned}
    BY DEF Keys
  <2>. QED BY <1>1, <1>17, <2>1 DEF KeyCase, Unpackaged
<1>18. CASE t = "derived_behavior_claims"
  <2>1. Keys["derived_behavior_claims"] = {Owned}
    BY DEF Keys
  <2>. QED BY <1>1, <1>18, <2>1 DEF KeyCase, Unpackaged
<1>. QED BY <1>1, <1>2, <1>3, <1>4, <1>5, <1>6, <1>7, <1>8, <1>9, <1>10, <1>11, <1>12, <1>13, <1>14, <1>15, <1>16, <1>17, <1>18

\* Every other table has the key to its package.
LEMMA KeyOwned ==
  ASSUME NEW t \in EngineeringTables, t \notin Unpackaged
  PROVE  Owned \in ForeignKeys[t]
<1>1. ForeignKeys[t] = Keys[t] /\ t \in {"machine_packages",
          "machines",
          "assemblies",
          "package_documents",
          "package_assignments",
          "engineering_entities",
          "engineering_entity_candidates",
          "engineering_relations",
          "engineering_relation_candidates",
          "plc_programs",
          "plc_blocks",
          "plc_variables",
          "plc_references",
          "engineering_conflicts",
          "unsupported_constructs",
          "human_overrides",
          "derived_behavior_claims"}
  BY KeyTable DEF Keys
<1>2. CASE t = "machines"
  <2>1. Keys["machines"] = {Owned}
    BY DEF Keys
  <2>. QED BY <1>1, <1>2, <2>1
<1>3. CASE t = "assemblies"
  <2>1. Keys["assemblies"] = {Owned, Key("machine_id", "machines", "CASCADE"), Key("parent_assembly_id", "assemblies", SetNull)}
    BY DEF Keys
  <2>. QED BY <1>1, <1>3, <2>1
<1>4. CASE t = "package_documents"
  <2>1. Keys["package_documents"] = {Owned}
    BY DEF Keys
  <2>. QED BY <1>1, <1>4, <2>1
<1>5. CASE t = "package_assignments"
  <2>1. Keys["package_assignments"] = {Owned, Key("machine_id", "machines", SetNull), Key("assembly_id", "assemblies", SetNull)}
    BY DEF Keys
  <2>. QED BY <1>1, <1>5, <2>1
<1>6. CASE t = "engineering_entities"
  <2>1. Keys["engineering_entities"] = {Owned, Key("machine_id", "machines", SetNull), Key("assembly_id", "assemblies", SetNull)}
    BY DEF Keys
  <2>. QED BY <1>1, <1>6, <2>1
<1>7. CASE t = "engineering_entity_candidates"
  <2>1. Keys["engineering_entity_candidates"] = {Owned, Key("canonical_entity_id", "engineering_entities", SetNull)}
    BY DEF Keys
  <2>. QED BY <1>1, <1>7, <2>1
<1>8. CASE t = "engineering_relations"
  <2>1. Keys["engineering_relations"] = {Owned, Within("source_entity_id", "engineering_entities", "CASCADE"), Within("target_entity_id", "engineering_entities", "CASCADE")}
    BY DEF Keys
  <2>. QED BY <1>1, <1>8, <2>1
<1>9. CASE t = "engineering_relation_candidates"
  <2>1. Keys["engineering_relation_candidates"] = {Owned, Key("canonical_relation_id", "engineering_relations", SetNull), Within("source_entity_id", "engineering_entities", SetNull), Within("target_entity_id", "engineering_entities", SetNull)}
    BY DEF Keys
  <2>. QED BY <1>1, <1>9, <2>1
<1>10. CASE t = "plc_programs"
  <2>1. Keys["plc_programs"] = {Owned, Key("machine_id", "machines", SetNull)}
    BY DEF Keys
  <2>. QED BY <1>1, <1>10, <2>1
<1>11. CASE t = "engineering_conflicts"
  <2>1. Keys["engineering_conflicts"] = {Owned}
    BY DEF Keys
  <2>. QED BY <1>1, <1>11, <2>1
<1>12. CASE t = "unsupported_constructs"
  <2>1. Keys["unsupported_constructs"] = {Owned}
    BY DEF Keys
  <2>. QED BY <1>1, <1>12, <2>1
<1>13. CASE t = "human_overrides"
  <2>1. Keys["human_overrides"] = {Owned}
    BY DEF Keys
  <2>. QED BY <1>1, <1>13, <2>1
<1>14. CASE t = "derived_behavior_claims"
  <2>1. Keys["derived_behavior_claims"] = {Owned}
    BY DEF Keys
  <2>. QED BY <1>1, <1>14, <2>1
<1>. QED BY <1>1, <1>2, <1>3, <1>4, <1>5, <1>6, <1>7, <1>8, <1>9, <1>10, <1>11, <1>12, <1>13, <1>14 DEF Unpackaged

\* The steps of the folds, with what they take besides.
WaveOp(d, w, k) == Wave(d, w)
DropOp(goes, x, t) == delete(x, goes \cap OfTable(x, t))
AddOp(doc, x, m) == AddCandidate(x, doc)

Waves == INSTANCE PrefixFold WITH Op <- WaveOp
Drops == INSTANCE PrefixFold WITH Op <- DropOp
Adds == INSTANCE PrefixFold WITH Op <- AddOp

\* The least and the largest of some ids are among them.
LEMMA MinIsIn ==
  ASSUME NEW S \in SUBSET Nat, S # {}
  PROVE  Min(S) \in S /\ \A y \in S : Min(S) <= y
<1>1. \E x \in S : \A y \in S : x <= y
  BY Waves!Least
<1>. QED BY <1>1 DEF Min

\* ... and so is the largest.
LEMMA MaxIsIn ==
  ASSUME NEW n \in Nat, NEW S \in SUBSET (1..n), S # {}
  PROVE  Max(S) \in S
<1>1. Waves!Largest(S) \in S
  BY Waves!LargestIsIn
<1>. QED BY <1>1 DEF Max, Waves!Largest

----------------------------------------------------------------------------
(* What follows from the table of the foreign keys. *)

\* Every key goes to an engineering table, and either takes its row along, and
\* then goes up in rank, or would be set to null.
KeyShape(t, f) ==
  /\ f.parent \in EngineeringTables
  /\ f.ondelete \in {"CASCADE", SetNull}
  /\ f.required <=> f.ondelete = "CASCADE"
  /\ f.ondelete = "CASCADE" => Depth(f.parent) < Depth(t)
  /\ f.col = "package_id" <=> f = Owned
  /\ f.parent = "machine_packages" => f = Owned
  /\ f.packaged => f.parent = "engineering_entities" /\ t \in {"engineering_relations", "engineering_relation_candidates"}

\* Every foreign key of the ORM is of that shape.
LEMMA KeyShapes ==
  ASSUME NEW t \in EngineeringTables, NEW f \in ForeignKeys[t]
  PROVE  KeyShape(t, f) /\ Depth(t) \in 0..3
<1>1. KeyCase(t, f) /\ t \in DOMAIN Keys /\ EngineeringTables = DOMAIN Keys
  BY KeyTable, KeyCases
<1>2. Depth(t) \in 0..3
  BY DEF Depth
<1>3. f.parent \in DOMAIN Keys
  BY <1>1, KeyFields, SetsNull DEF Keys, KeyCase, Owned
<1>4. f.ondelete \in {"CASCADE", SetNull} /\ (f.required <=> f.ondelete = "CASCADE")
  BY <1>1, KeyFields, SetsNull DEF KeyCase, Owned
<1>5. f.ondelete = "CASCADE" => Depth(f.parent) < Depth(t)
  <2>1. f.ondelete = "CASCADE" =>
          \/ f.parent = "machine_packages" /\ t \notin Unpackaged
          \/ t = "assemblies" /\ f.parent = "machines"
          \/ t = "engineering_relations" /\ f.parent = "engineering_entities"
          \/ t \in {"plc_blocks", "plc_variables"} /\ f.parent = "plc_programs"
          \/ t = "plc_references" /\ f.parent = "plc_blocks"
    BY <1>1, KeyFields, SetsNull DEF KeyCase, Owned
  <2>. QED BY <2>1 DEF Depth, Unpackaged
<1>6. f.col = "package_id" <=> f = Owned
  BY <1>1, KeyFields, SetsNull DEF KeyCase, Owned
<1>7. f.parent = "machine_packages" => f = Owned
  BY <1>1, KeyFields, SetsNull DEF KeyCase, Owned
<1>8. f.packaged => f.parent = "engineering_entities" /\ t \in {"engineering_relations", "engineering_relation_candidates"}
  BY <1>1, KeyFields, SetsNull DEF KeyCase, Owned
<1>. QED BY <1>1, <1>2, <1>3, <1>4, <1>5, <1>6, <1>7, <1>8 DEF KeyShape

\* Which tables have which keys.
LEMMA KeyPlaces ==
  ASSUME NEW t \in EngineeringTables
  PROVE  /\ Owned \in ForeignKeys[t] <=> t \notin Unpackaged
         /\ t = "machine_packages" => ForeignKeys[t] = {}
         /\ \A f \in ForeignKeys[t] :
              /\ f.parent \in {"machine_packages", "machines", "assemblies", "engineering_entities",
                               "engineering_relations", "plc_programs", "plc_blocks", "plc_variables"}
              /\ f.parent = "engineering_relations" =>
                   t = "engineering_relation_candidates" /\ f.col = "canonical_relation_id"
              /\ f.parent = "engineering_entities" =>
                   \/ t = "engineering_relations" /\ f.ondelete = "CASCADE"
                        /\ f.col \in {"source_entity_id", "target_entity_id"}
                   \/ t = "engineering_relation_candidates" /\ f.ondelete = SetNull
                   \/ t = "engineering_entity_candidates" /\ f.col = "canonical_entity_id"
                        /\ f.ondelete = SetNull
                   \/ t = "plc_variables" /\ f.ondelete = SetNull
<1>1. \A f \in ForeignKeys[t] : KeyCase(t, f)
  BY KeyCases
<1>2. Owned \in ForeignKeys[t] => t \notin Unpackaged
  BY <1>1, KeyFields, SetsNull DEF KeyCase, Owned, Unpackaged
<1>3. t \notin Unpackaged => Owned \in ForeignKeys[t]
  BY KeyOwned
<1>4. t = "machine_packages" => ForeignKeys[t] = {}
  BY <1>1, KeyFields, SetsNull DEF KeyCase, Unpackaged
<1>5. ASSUME NEW f \in ForeignKeys[t]
      PROVE  /\ f.parent \in {"machine_packages", "machines", "assemblies", "engineering_entities",
                              "engineering_relations", "plc_programs", "plc_blocks", "plc_variables"}
             /\ f.parent = "engineering_relations" =>
                  t = "engineering_relation_candidates" /\ f.col = "canonical_relation_id"
  BY <1>1, KeyFields, SetsNull DEF KeyCase, Owned
<1>6. ASSUME NEW f \in ForeignKeys[t], f.parent = "engineering_entities"
      PROVE  \/ t = "engineering_relations" /\ f.ondelete = "CASCADE"
                  /\ f.col \in {"source_entity_id", "target_entity_id"}
             \/ t = "engineering_relation_candidates" /\ f.ondelete = SetNull
             \/ t = "engineering_entity_candidates" /\ f.col = "canonical_entity_id"
                  /\ f.ondelete = SetNull
             \/ t = "plc_variables" /\ f.ondelete = SetNull
  BY <1>1, <1>6, KeyFields, SetsNull DEF KeyCase, Owned
<1>. QED BY <1>2, <1>3, <1>4, <1>5, <1>6

----------------------------------------------------------------------------
(* Databases. *)

\* d has the fields of a database.
IsDb(d) ==
  d = [rows |-> d.rows, evidence |-> d.evidence, bindings |-> d.bindings, swept |-> d.swept,
       ok |-> d.ok, full |-> d.full, new |-> d.new, found |-> d.found,
       id |-> d.id, package |-> d.package, machine |-> d.machine]

IsRow(r) == r \in AnyRow /\ r.refs \in [Columns(r.table) -> Ids \cup {Null}]

Shape(d) ==
  /\ IsDb(d)
  /\ d.rows \in [Ids -> AnyRow \cup {NoRow}]
  /\ \A i \in Live(d) : IsRow(d.rows[i])
  /\ d.evidence \in [EvidenceIds -> Docs \cup {Null}]
  /\ d.bindings \subseteq EvidenceIds \X Ids
  /\ d.swept \subseteq Ids

\* KeysHold, for any database.
KeysOk(d) ==
  \A i \in Live(d) : \A f \in ForeignKeys[d.rows[i].table] :
    LET r == d.rows[i].refs[f.col]
    IN  \/ /\ r \in OfTable(d, f.parent)
           /\ f.packaged => d.rows[r].refs["package_id"] = d.rows[i].refs["package_id"]
        \/ r = Null /\ ~f.required

\* j refers to a row of S by a key with this action.
Refers(d, j, S, action) ==
  \E f \in ForeignKeys[d.rows[j].table] : f.ondelete = action /\ d.rows[j].refs[f.col] \in S

Closed(d, X) == \A j \in Live(d) : Refers(d, j, X, "CASCADE") => j \in X

\* What a delete takes: S, what it has to, and nothing else.
Takes(d, S, gone) ==
  /\ S \subseteq gone /\ gone \subseteq Live(d)
  /\ \A X \in SUBSET Ids : S \subseteq X /\ Closed(d, X) => gone \subseteq X

Erase(d, S, gone, e) ==
  /\ IsDb(e)
  /\ e.rows = [i \in Ids |-> IF i \in gone THEN NoRow ELSE d.rows[i]]
  /\ e.swept = d.swept \cup ((gone \ S) \cap {b[2] : b \in d.bindings})
  /\ e.ok /\ e.evidence = d.evidence /\ e.bindings = d.bindings /\ e.full = d.full
  /\ e.new = d.new /\ e.found = d.found /\ e.id = d.id
  /\ e.package = d.package /\ e.machine = d.machine

\* The delete is done: nothing that is left refers to what is gone.
Erases(d, S, e) ==
  \E gone \in SUBSET Ids :
    /\ Takes(d, S, gone) /\ Erase(d, S, gone, e)
    /\ \A j \in Live(d) \ gone : ~Refers(d, j, gone, "CASCADE") /\ ~Refers(d, j, gone, SetNull)

\* The delete is refused on account of a row that would not go with what goes.
Refuses(d, S, e) ==
  /\ ~e.ok /\ e.full = d.full
  /\ \E some \in SUBSET Ids : \E j \in Live(d) :
       /\ Takes(d, S, some) /\ j \notin some
       /\ Refers(d, j, some, SetNull) /\ ~Refers(d, j, some, "CASCADE")

\* A wave takes what was gone and what refers to it by a cascading key.
LEMMA CascadeTakes ==
  ASSUME NEW d, Shape(d), NEW S \in SUBSET Ids, NEW gone \in SUBSET Ids, Takes(d, S, gone)
  PROVE  /\ Cascade(d, gone) \in SUBSET Ids
         /\ Takes(d, S, Cascade(d, gone))
         /\ \A j : j \in Cascade(d, gone) <=> j \in gone \/ (j \in Live(d) /\ Refers(d, j, gone, "CASCADE"))
<1>1. \A j : j \in Cascade(d, gone) <=> j \in gone \/ (j \in Live(d) /\ Refers(d, j, gone, "CASCADE"))
  BY DEF Cascade, Referring, Refers
<1>2. Cascade(d, gone) \subseteq Live(d) /\ Live(d) \subseteq Ids
  BY <1>1 DEF Takes, Live
<1>3. ASSUME NEW X \in SUBSET Ids, S \subseteq X, Closed(d, X) PROVE Cascade(d, gone) \subseteq X
  <2>1. gone \subseteq X
    BY <1>3 DEF Takes
  <2>2. ASSUME NEW j \in Live(d), Refers(d, j, gone, "CASCADE") PROVE Refers(d, j, X, "CASCADE")
    BY <2>1, <2>2 DEF Refers
  <2>. QED BY <1>1, <1>3, <2>1, <2>2 DEF Closed
<1>. QED BY <1>1, <1>2, <1>3 DEF Takes

\* g lists the waves from b on.
WavesOf(d, s, b, g) ==
  /\ g[0] = b
  /\ \A k \in 1..Len(s) : g[k] = WaveOp(d, g[k-1], s[k])
  /\ Waves!Folded(d, s, b) = g[Len(s)]

\* The waves of a delete, one after the other.
LEMMA WavesByPrefix ==
  ASSUME NEW d, NEW s \in Seq(Nat), NEW b
  PROVE  \E g : WavesOf(d, s, b, g)
BY Waves!ByPrefix DEF WavesOf

\* A delete folds four waves.
LEMMA FourSteps ==
  ASSUME NEW d, NEW b, NEW s \in Seq(Nat), Len(s) = 4
  PROVE  Waves!Folded(d, s, b) = Wave(d, Wave(d, Wave(d, Wave(d, b))))
<1>0. PICK g : WavesOf(d, s, b, g)
  BY WavesByPrefix
<1>1. /\ g[0] = b
      /\ Waves!Folded(d, s, b) = g[4]
  BY <1>0 DEF WavesOf
<1>2. \A k \in 1..4 : g[k] = Wave(d, g[k-1])
  BY <1>0 DEF WaveOp, WavesOf
<1>3. g[1] = Wave(d, g[1-1]) /\ g[2] = Wave(d, g[2-1]) /\ g[3] = Wave(d, g[3-1]) /\ g[4] = Wave(d, g[4-1])
  BY <1>2
<1>4. g[1] = Wave(d, g[0]) /\ g[2] = Wave(d, g[1]) /\ g[3] = Wave(d, g[2]) /\ g[4] = Wave(d, g[3])
  BY <1>3
<1>. QED BY <1>1, <1>4

\* The four waves of a delete.
LEMMA FourWaves ==
  ASSUME NEW d, NEW S
  PROVE  LET g1 == Wave(d, [gone |-> S, refused |-> FALSE])
             g2 == Wave(d, g1)
             g3 == Wave(d, g2)
         IN  FoldLeft(LAMBDA w, k : Wave(d, w), [gone |-> S, refused |-> FALSE], <<1, 2, 3, 4>>) = Wave(d, g3)
<1>. DEFINE b == [gone |-> S, refused |-> FALSE]
<1>1. FoldLeft(LAMBDA w, k : Wave(d, w), b, <<1, 2, 3, 4>>) = Waves!Folded(d, <<1, 2, 3, 4>>, b)
  BY DEF FoldLeft, MapThenFoldSet, Max, Waves!Folded, Waves!Largest, WaveOp
<1>2. <<1, 2, 3, 4>> \in Seq(Nat) /\ Len(<<1, 2, 3, 4>>) = 4
  OBVIOUS
<1>. HIDE DEF b
<1>3. Waves!Folded(d, <<1, 2, 3, 4>>, b) = Wave(d, Wave(d, Wave(d, Wave(d, b))))
  BY <1>2, FourSteps
<1>. QED BY <1>1, <1>3 DEF b

\* Refused looks at the optional keys: none restricts.
LEMMA RefusedBy ==
  ASSUME NEW d, Shape(d), NEW S \in SUBSET Ids, NEW gone
  PROVE  Refused(d, S, gone) <=> \E j \in Live(d) : j \notin gone /\ Refers(d, j, S, SetNull)
<1>1. \A i \in Live(d) : \A f \in ForeignKeys[d.rows[i].table] : f.ondelete # "RESTRICT"
  <2>1. ASSUME NEW i \in Live(d) PROVE d.rows[i].table \in EngineeringTables
    BY <2>1 DEF Shape, IsRow, AnyRow
  <2>2. SetNull # "RESTRICT"
    BY DEF SetNull
  <2>. QED BY <2>1, <2>2, KeyShapes DEF KeyShape
<1>2. Referring(d, S, "RESTRICT") = {}
  BY <1>1 DEF Referring
<1>. QED BY <1>2 DEF Refused, Referring, Refers

\* What a wave adds is further from the packages than what the wave before added.
LEMMA WavesSink ==
  ASSUME NEW d, Shape(d), KeysOk(d), NEW A \in SUBSET Ids, NEW B \in SUBSET Ids, NEW n \in Nat,
         \A i \in B \ A : i \in Live(d) /\ Depth(d.rows[i].table) >= n,
         \A j \in Live(d) : Refers(d, j, A, "CASCADE") => j \in B
  PROVE  \A i \in Cascade(d, B) \ B : i \in Live(d) /\ Depth(d.rows[i].table) >= n + 1 /\ Depth(d.rows[i].table) \in 0..3
<1>1. SUFFICES ASSUME NEW i \in Live(d), i \notin B, Refers(d, i, B, "CASCADE")
               PROVE  Depth(d.rows[i].table) >= n + 1 /\ Depth(d.rows[i].table) \in 0..3
  BY DEF Cascade, Referring, Refers
<1>2. d.rows[i].table \in EngineeringTables
  BY DEF Shape, IsRow, AnyRow
<1>3. PICK f \in ForeignKeys[d.rows[i].table] : f.ondelete = "CASCADE" /\ d.rows[i].refs[f.col] \in B
  BY <1>1 DEF Refers
<1>. DEFINE r == d.rows[i].refs[f.col]
<1>4. r \notin A
  BY <1>1, <1>3 DEF Refers
<1>5. r \in Live(d) /\ Depth(d.rows[r].table) >= n
  BY <1>3, <1>4
<1>6. f.required
  BY <1>2, <1>3, KeyShapes DEF KeyShape
<1>7. r \in OfTable(d, f.parent)
  BY <1>6, <1>3 DEF KeysOk
<1>8. d.rows[r].table = f.parent /\ f.parent \in EngineeringTables
  BY <1>7, <1>2, KeyShapes DEF OfTable, KeyShape
<1>9. Depth(f.parent) < Depth(d.rows[i].table)
  BY <1>2, <1>3, KeyShapes DEF KeyShape
<1>10. Depth(d.rows[i].table) \in 0..3
  BY <1>2, <1>3, KeyShapes
<1>11. Depth(f.parent) \in 0..3
  BY DEF Depth
<1>. QED BY <1>5, <1>8, <1>9, <1>10, <1>11

\* How much of a delete has been done, and whether a row was in the way.
WaveOk(d, S, w) ==
  /\ w.gone \in SUBSET Ids /\ Takes(d, S, w.gone) /\ w.refused \in BOOLEAN
  /\ w.refused =>
       \E some \in SUBSET Ids : \E j \in Live(d) :
         /\ Takes(d, S, some) /\ j \notin some
         /\ Refers(d, j, some, SetNull) /\ ~Refers(d, j, some, "CASCADE")

\* One more wave keeps what is known of the waves.
LEMMA WaveStep ==
  ASSUME NEW d, Shape(d), NEW S \in SUBSET Ids, NEW w, WaveOk(d, S, w)
  PROVE  /\ WaveOk(d, S, Wave(d, w))
         /\ Wave(d, w).gone = Cascade(d, w.gone)
         /\ ~Wave(d, w).refused =>
              /\ ~w.refused
              /\ \A j \in Live(d) : j \notin Wave(d, w).gone => ~Refers(d, j, w.gone, SetNull)
<1>. DEFINE G == Cascade(d, w.gone)
<1>1. w.gone \in SUBSET Ids /\ Takes(d, S, w.gone) /\ w.refused \in BOOLEAN
  BY DEF WaveOk
<1>2. /\ G \in SUBSET Ids /\ Takes(d, S, G)
      /\ \A j : j \in G <=> j \in w.gone \/ (j \in Live(d) /\ Refers(d, j, w.gone, "CASCADE"))
  BY <1>1, CascadeTakes
<1>3. Wave(d, w).gone = G /\ (Wave(d, w).refused <=> w.refused \/ Refused(d, w.gone, G))
  BY DEF Wave
<1>4. Wave(d, w).refused \in BOOLEAN
  BY <1>1 DEF Wave, Refused
<1>. HIDE DEF G
<1>5. Refused(d, w.gone, G) <=> \E j \in Live(d) : j \notin G /\ Refers(d, j, w.gone, SetNull)
  BY <1>1, RefusedBy
<1>6. ASSUME Refused(d, w.gone, G)
      PROVE  \E some \in SUBSET Ids : \E j \in Live(d) :
               /\ Takes(d, S, some) /\ j \notin some
               /\ Refers(d, j, some, SetNull) /\ ~Refers(d, j, some, "CASCADE")
  <2>1. PICK j \in Live(d) : j \notin G /\ Refers(d, j, w.gone, SetNull)
    BY <1>5, <1>6
  <2>2. j \notin w.gone /\ ~Refers(d, j, w.gone, "CASCADE")
    BY <1>2, <2>1
  <2>. QED BY <1>1, <2>1, <2>2
<1>7. WaveOk(d, S, Wave(d, w))
  BY <1>2, <1>3, <1>4, <1>6 DEF WaveOk
<1>8. Wave(d, w).gone = Cascade(d, w.gone)
  BY <1>3 DEF G
<1>. QED BY <1>1, <1>3, <1>5, <1>7, <1>8

\* DELETE takes what it has to, or is refused and says so.
LEMMA DeleteDoes ==
  ASSUME NEW d, Shape(d), KeysOk(d), d.ok, NEW S \in SUBSET Ids, S \subseteq Live(d)
  PROVE  Erases(d, S, delete(d, S)) \/ Refuses(d, S, delete(d, S))
<1>1. CASE S = {}
  <2>1. delete(d, S) = d
    BY <1>1 DEF delete
  <2>2. Erase(d, S, {}, d)
    <3>1. d.rows = [i \in Ids |-> IF i \in {} THEN NoRow ELSE d.rows[i]]
      BY DEF Shape
    <3>2. IsDb(d) /\ d.ok
      BY DEF Shape
    <3>3. d.swept = d.swept \cup (({} \ S) \cap {b[2] : b \in d.bindings})
      OBVIOUS
    <3>. QED BY <3>1, <3>2, <3>3 DEF Erase
  <2>3. Takes(d, S, {})
    BY <1>1 DEF Takes
  <2>4. \A j \in Live(d) \ {} : ~Refers(d, j, {}, "CASCADE") /\ ~Refers(d, j, {}, SetNull)
    BY DEF Refers
  <2>. QED BY <2>1, <2>2, <2>3, <2>4 DEF Erases
<1>2. CASE S # {}
  <2>. DEFINE g0 == [gone |-> S, refused |-> FALSE]
              g1 == Wave(d, g0)
              g2 == Wave(d, g1)
              g3 == Wave(d, g2)
              g4 == Wave(d, g3)
  <2>1. delete(d, S) = Deleted(d, S, g4)
    BY <1>2, FourWaves DEF delete
  <2>2. WaveOk(d, S, g0)
    BY DEF WaveOk, Takes
  <2>3. g0.gone = S /\ ~g0.refused
    OBVIOUS
  <2>. HIDE DEF g0
  <2>4. WaveOk(d, S, g1) /\ g1.gone = Cascade(d, g0.gone)
    BY <2>2, WaveStep
  <2>. HIDE DEF g1
  <2>5. WaveOk(d, S, g2) /\ g2.gone = Cascade(d, g1.gone)
    BY <2>4, WaveStep DEF g2
  <2>. HIDE DEF g2
  <2>6. WaveOk(d, S, g3) /\ g3.gone = Cascade(d, g2.gone)
    BY <2>5, WaveStep DEF g3
  <2>. HIDE DEF g3
  <2>7. /\ WaveOk(d, S, g4) /\ g4.gone = Cascade(d, g3.gone)
        /\ ~g4.refused => \A j \in Live(d) : j \notin g4.gone => ~Refers(d, j, g3.gone, SetNull)
    BY <2>6, WaveStep DEF g4
  <2>. HIDE DEF g4
  <2>8. /\ g0.gone \in SUBSET Ids /\ g1.gone \in SUBSET Ids /\ g2.gone \in SUBSET Ids /\ g3.gone \in SUBSET Ids
        /\ Takes(d, S, g0.gone) /\ Takes(d, S, g1.gone) /\ Takes(d, S, g2.gone) /\ Takes(d, S, g3.gone)
    BY <2>2, <2>4, <2>5, <2>6 DEF WaveOk
  <2>9. \A j \in Live(d) : /\ Refers(d, j, g0.gone, "CASCADE") => j \in g1.gone
                           /\ Refers(d, j, g1.gone, "CASCADE") => j \in g2.gone
                           /\ Refers(d, j, g2.gone, "CASCADE") => j \in g3.gone
                           /\ Refers(d, j, g3.gone, "CASCADE") => j \in g4.gone
    BY <2>4, <2>5, <2>6, <2>7, <2>8, CascadeTakes
  <2>10. \A i \in g1.gone \ g0.gone : i \in Live(d) /\ Depth(d.rows[i].table) >= 1
    <3>1. \A j \in Live(d) : Refers(d, j, {}, "CASCADE") => j \in g0.gone
      BY DEF Refers
    <3>2. \A i \in g0.gone \ {} : i \in Live(d) /\ Depth(d.rows[i].table) >= 0
      BY <2>3 DEF Depth
    <3>. QED BY <2>4, <2>8, <3>1, <3>2, WavesSink
  <2>11. \A i \in g2.gone \ g1.gone : i \in Live(d) /\ Depth(d.rows[i].table) >= 2
    BY <2>5, <2>8, <2>9, <2>10, WavesSink
  <2>12. \A i \in g3.gone \ g2.gone : i \in Live(d) /\ Depth(d.rows[i].table) >= 3
    <3>1. \A i \in Cascade(d, g2.gone) \ g2.gone : i \in Live(d) /\ Depth(d.rows[i].table) >= 2 + 1
      BY <2>8, <2>9, <2>11, WavesSink
    <3>. QED BY <2>6, <3>1
  <2>13. \A i \in g4.gone \ g3.gone : Depth(d.rows[i].table) >= 4 /\ Depth(d.rows[i].table) \in 0..3
    BY <2>7, <2>8, <2>9, <2>12, WavesSink
  <2>14. g4.gone = g3.gone
    <3>1. g4.gone \subseteq g3.gone
      BY <2>13
    <3>2. g3.gone \subseteq g4.gone
      BY <2>7 DEF Cascade
    <3>. QED BY <3>1, <3>2
  <2>15. CASE g4.refused
    <3>1. delete(d, S) = [d EXCEPT !.ok = FALSE]
      BY <2>1, <2>15 DEF Deleted
    <3>2. ~delete(d, S).ok /\ delete(d, S).full = d.full
      BY <3>1 DEF Shape, IsDb
    <3>. QED BY <2>7, <2>15, <3>2 DEF WaveOk, Refuses
  <2>16. CASE ~g4.refused
    <3>1. delete(d, S) =
            [d EXCEPT !.rows = [i \in Ids |-> IF i \in g4.gone THEN NoRow ELSE @[i]],
                      !.swept = @ \cup ((g4.gone \ S) \cap {b[2] : b \in d.bindings})]
      BY <2>1, <2>16 DEF Deleted
    <3>2. Erase(d, S, g4.gone, delete(d, S))
      BY <3>1 DEF Erase, Shape, IsDb
    <3>3. \A j \in Live(d) \ g4.gone : ~Refers(d, j, g4.gone, "CASCADE") /\ ~Refers(d, j, g4.gone, SetNull)
      BY <2>7, <2>9, <2>14, <2>16
    <3>. QED BY <2>7, <3>2, <3>3 DEF WaveOk, Erases
  <2>17. g4.refused \in BOOLEAN
    BY <2>7 DEF WaveOk
  <2>. QED BY <2>15, <2>16, <2>17
<1>. QED BY <1>1, <1>2

----------------------------------------------------------------------------
(* What INSERT and record_evidence do. *)

\* A new row, or none for want of an id.
InsertsAt(d, row, evs, e, i) ==
  /\ IsDb(e)
  /\ e.rows = [d.rows EXCEPT ![i] = row]
  /\ e.bindings = d.bindings \cup (evs \X {i})
  /\ e.new = Append(d.new, i) /\ e.id = i
  /\ e.ok /\ e.evidence = d.evidence /\ e.swept = d.swept /\ e.full = d.full
  /\ e.found = d.found /\ e.package = d.package /\ e.machine = d.machine

Inserts(d, row, evs, e) == \E i \in FreshIds(d) : InsertsAt(d, row, evs, e, i)

\* An INSERT puts the row under an id that nothing mentions, or runs out of ids.
LEMMA InsertDoes ==
  ASSUME NEW d, Shape(d), NEW row, NEW evs, NEW e, e = insert(d, row, evs)
  PROVE  \/ d.ok /\ Inserts(d, row, evs, e)
         \/ ~d.ok /\ e = d
         \/ d.ok /\ IsDb(e) /\ ~e.ok /\ e.full
<1>0. IsDb(d)
  BY DEF Shape
<1>1. CASE ~d.ok
  BY <1>1 DEF insert
<1>2. CASE d.ok /\ FreshIds(d) = {}
  <2>1. e = [d EXCEPT !.ok = FALSE, !.full = TRUE]
    BY <1>2 DEF insert
  <2>. QED BY <1>0, <1>2, <2>1 DEF IsDb
<1>3. CASE d.ok /\ FreshIds(d) # {}
  <2>1. PICK i : i = IF row.method = Manual THEN Max(FreshIds(d)) ELSE Min(FreshIds(d))
    OBVIOUS
  <2>2. FreshIds(d) \in SUBSET (1..MaxId) /\ MaxId \in Nat /\ FreshIds(d) \in SUBSET Nat
    BY EvidenceAssumption DEF FreshIds, Ids
  <2>3. i \in FreshIds(d)
    <3>1. Min(FreshIds(d)) \in FreshIds(d) /\ Max(FreshIds(d)) \in FreshIds(d)
      BY <1>3, <2>2, MinIsIn, MaxIsIn
    <3>. QED BY <2>1, <3>1
  <2>4. e = [d EXCEPT !.rows[i] = row, !.bindings = @ \cup (evs \X {i}), !.new = Append(@, i), !.id = i]
    BY <1>3, <2>1 DEF insert
  <2>5. InsertsAt(d, row, evs, e, i)
    BY <1>0, <1>3, <2>4 DEF InsertsAt, IsDb
  <2>. QED BY <1>3, <2>3, <2>5 DEF Inserts
<1>. QED BY <1>1, <1>2, <1>3

\* New evidence, or none for want of an id.
RecordsAt(d, doc, e, x) ==
  /\ IsDb(e)
  /\ e.evidence = [d.evidence EXCEPT ![x] = doc]
  /\ e.found = Append(d.found, x)
  /\ e.ok /\ e.rows = d.rows /\ e.bindings = d.bindings /\ e.swept = d.swept /\ e.full = d.full
  /\ e.new = d.new /\ e.id = d.id /\ e.package = d.package /\ e.machine = d.machine

Records(d, doc, e) == \E x \in FreshEvidence(d) : RecordsAt(d, doc, e, x)

\* record_evidence takes evidence that is not there, or runs out of it.
LEMMA RecordDoes ==
  ASSUME NEW d, Shape(d), NEW doc, NEW method, NEW e, e = record(d, doc, method)
  PROVE  \/ d.ok /\ Records(d, doc, e)
         \/ ~d.ok /\ e = d
         \/ d.ok /\ IsDb(e) /\ ~e.ok /\ e.full
<1>0. IsDb(d)
  BY DEF Shape
<1>1. CASE ~d.ok
  BY <1>1 DEF record
<1>2. CASE d.ok /\ FreshEvidence(d) = {}
  <2>1. e = [d EXCEPT !.ok = FALSE, !.full = TRUE]
    BY <1>2 DEF record
  <2>. QED BY <1>0, <1>2, <2>1 DEF IsDb
<1>3. CASE d.ok /\ FreshEvidence(d) # {}
  <2>1. PICK x : x = IF method = Manual THEN Max(FreshEvidence(d)) ELSE Min(FreshEvidence(d))
    OBVIOUS
  <2>2. FreshEvidence(d) \in SUBSET (1..MaxEvidence) /\ MaxEvidence \in Nat /\ FreshEvidence(d) \in SUBSET Nat
    BY EvidenceAssumption DEF FreshEvidence, EvidenceIds
  <2>3. x \in FreshEvidence(d)
    <3>1. Min(FreshEvidence(d)) \in FreshEvidence(d) /\ Max(FreshEvidence(d)) \in FreshEvidence(d)
      BY <1>3, <2>2, MinIsIn, MaxIsIn
    <3>. QED BY <2>1, <3>1
  <2>4. e = [d EXCEPT !.evidence[x] = doc, !.found = Append(@, x)]
    BY <1>3, <2>1 DEF record
  <2>5. RecordsAt(d, doc, e, x)
    BY <1>0, <1>3, <2>4 DEF RecordsAt, IsDb
  <2>. QED BY <1>3, <2>3, <2>5 DEF Records
<1>. QED BY <1>1, <1>2, <1>3

----------------------------------------------------------------------------
(* What holds of a database throughout. *)

Package(d, i) == d.rows[i].refs["package_id"]
Made(d, i) == d.rows[i].method # Manual

\* A binding's evidence is there, and so is its row, which is of a grounded table,
\* unless it was swept.
Bound(d) ==
  \A b \in d.bindings :
    /\ d.evidence[b[1]] # Null
    /\ d.rows[b[2]] # NoRow => Grounds(d.rows[b[2]].table)
    /\ d.rows[b[2]] = NoRow => b[2] \in d.swept

WorkerTables ==
  {"machine_packages", "package_documents", "machines", "assemblies", "package_assignments"}

ResolverTables ==
  {"engineering_conflicts", "engineering_entity_candidates", "engineering_entities"}

\* What the three kinds of writers write.
MadeBy(r) ==
  /\ r.method = Manual =>
       /\ r.code = Null /\ r.sides = << >>
       /\ r.table = "engineering_entity_candidates" => r.refs["canonical_entity_id"] = Null
       /\ r.table = "engineering_relation_candidates" => r.refs["canonical_relation_id"] = Null
  /\ r.method = Worker => r.table \in WorkerTables /\ (r.table = "machine_packages" => r.code \in Docs)
  /\ r.method = Resolver => r.table \in ResolverTables /\ ~r.raced

\* What the worker and the resolver write refers to what they wrote for the package.
OwnRefs(d, r) ==
  r.method # Manual =>
    \A f \in ForeignKeys[r.table] : r.refs[f.col] # Null =>
      /\ Made(d, r.refs[f.col])
      /\ f.col # "package_id" => Package(d, r.refs[f.col]) = r.refs["package_id"]

Makers(d) == \A i \in Live(d) : MadeBy(d.rows[i]) /\ OwnRefs(d, d.rows[i])

\* What the resolver wrote stands on evidence of its package's archive.
OwnEvidence(d) ==
  \A i \in Live(d) : d.rows[i].method = Resolver =>
    \A x \in EvidenceOf(d, i) : d.evidence[x] = d.rows[Package(d, i)].code

Sound(d) == Shape(d) /\ KeysOk(d) /\ Bound(d) /\ Makers(d) /\ OwnEvidence(d)

\* The keys of a row, were it in d.
RowKeys(d, row) ==
  \A f \in ForeignKeys[row.table] :
    \/ /\ row.refs[f.col] \in OfTable(d, f.parent)
       /\ f.packaged => d.rows[row.refs[f.col]].refs["package_id"] = row.refs["package_id"]
    \/ row.refs[f.col] = Null /\ ~f.required

\* A row and evidence for it that may be inserted.
Fits(d, row, evs) ==
  /\ IsRow(row) /\ RowKeys(d, row) /\ MadeBy(row) /\ OwnRefs(d, row)
  /\ evs \subseteq EvidenceIds /\ \A x \in evs : d.evidence[x] # Null
  /\ evs # {} => Grounds(row.table)
  /\ row.method = Resolver => \A x \in evs : d.evidence[x] = d.rows[row.refs["package_id"]].code

\* A reference is to a row that is there.
LEMMA RefsLive ==
  ASSUME NEW d, Shape(d), KeysOk(d), NEW i \in Live(d), NEW f \in ForeignKeys[d.rows[i].table],
         d.rows[i].refs[f.col] # Null
  PROVE  /\ d.rows[i].refs[f.col] \in Live(d) /\ d.rows[d.rows[i].refs[f.col]].table = f.parent
         /\ d.rows[i].refs[f.col] \in Ids
BY DEF KeysOk, OfTable, Live

\* A resolver's row is in a package, which is there.
LEMMA PackageLive ==
  ASSUME NEW d, Shape(d), KeysOk(d), NEW i \in Live(d), d.rows[i].table \notin Unpackaged
  PROVE  /\ Package(d, i) \in Live(d) /\ d.rows[Package(d, i)].table = "machine_packages"
         /\ Package(d, i) \in Ids
<1>1. d.rows[i].table \in EngineeringTables
  BY DEF Shape, IsRow, AnyRow
<1>2. Owned \in ForeignKeys[d.rows[i].table]
  BY <1>1, KeyPlaces
<1>3. Owned.col = "package_id" /\ Owned.parent = "machine_packages" /\ Owned.required
  BY KeyFields DEF Owned
<1>. QED BY <1>2, <1>3 DEF KeysOk, OfTable, Live, Package

----------------------------------------------------------------------------
(* What an insert, new evidence and a removal keep. *)

\* i is the one row of e that d has not.
RowAdded(d, row, evs, i, e) ==
  /\ i \in Ids /\ i \notin Live(d) /\ d.rows[i] = NoRow /\ row # NoRow
  /\ e.rows[i] = row /\ \A j \in Ids : j # i => e.rows[j] = d.rows[j]
  /\ Live(e) = Live(d) \cup {i}
  /\ EvidenceOf(e, i) = evs
  /\ \A j : j # i => EvidenceOf(e, j) = EvidenceOf(d, j)
  /\ Shape(e)

\* What INSERT adds, nothing named before.
LEMMA InsertRows ==
  ASSUME NEW d, Shape(d), NEW row, IsRow(row), NEW evs \in SUBSET EvidenceIds, NEW i \in FreshIds(d),
         NEW e, InsertsAt(d, row, evs, e, i)
  PROVE  RowAdded(d, row, evs, i, e)
<1>1. i \in Ids /\ i \notin Live(d) /\ d.rows[i] = NoRow /\ \A b \in d.bindings : b[2] # i
  BY DEF FreshIds, Mentioned, Live
<1>2. row # NoRow
  BY NoRowIsNoRow DEF IsRow
<1>3. e.rows[i] = row /\ \A j \in Ids : j # i => e.rows[j] = d.rows[j]
  BY <1>1 DEF InsertsAt, Shape
<1>4. Live(e) = Live(d) \cup {i}
  BY <1>1, <1>2, <1>3 DEF Live
<1>5. \A b : b \in e.bindings <=> b \in d.bindings \/ b \in evs \X {i}
  BY DEF InsertsAt
<1>6. EvidenceOf(e, i) = evs
  <2>1. ASSUME NEW x \in evs PROVE x \in EvidenceOf(e, i)
    <3>1. <<x, i>> \in e.bindings
      BY <1>5
    <3>. QED BY <3>1 DEF EvidenceOf
  <2>2. ASSUME NEW x \in EvidenceOf(e, i) PROVE x \in evs
    BY <1>1, <1>5 DEF EvidenceOf
  <2>. QED BY <2>1, <2>2
<1>7. ASSUME NEW j, j # i PROVE EvidenceOf(e, j) = EvidenceOf(d, j)
  <2>1. {c \in e.bindings : c[2] = j} = {c \in d.bindings : c[2] = j}
    BY <1>5, <1>7
  <2>. QED BY <2>1 DEF EvidenceOf
<1>8. Shape(e)
  <2>1. e.rows \in [Ids -> AnyRow \cup {NoRow}]
    BY <1>1 DEF InsertsAt, Shape, IsRow
  <2>2. \A j \in Live(e) : IsRow(e.rows[j])
    BY <1>3, <1>4 DEF Shape, Live
  <2>3. e.bindings \subseteq EvidenceIds \X Ids
    BY <1>1, <1>5 DEF Shape
  <2>. QED BY <2>1, <2>2, <2>3 DEF Shape, InsertsAt
<1>. QED BY <1>1, <1>2, <1>3, <1>4, <1>6, <1>7, <1>8 DEF RowAdded

\* A row that fits leaves a sound database.
LEMMA InsertSound ==
  ASSUME NEW d, Sound(d), NEW row, NEW evs, Fits(d, row, evs), NEW i \in FreshIds(d),
         NEW e, InsertsAt(d, row, evs, e, i)
  PROVE  Sound(e)
<1>0. Shape(d) /\ KeysOk(d) /\ Bound(d) /\ Makers(d) /\ OwnEvidence(d)
  BY DEF Sound
<1>1. IsRow(row) /\ evs \in SUBSET EvidenceIds
  BY DEF Fits
<1>2. /\ i \in Ids /\ i \notin Live(d) /\ d.rows[i] = NoRow /\ row # NoRow
      /\ e.rows[i] = row /\ \A j \in Ids : j # i => e.rows[j] = d.rows[j]
      /\ Live(e) = Live(d) \cup {i}
      /\ EvidenceOf(e, i) = evs
      /\ \A j : j # i => EvidenceOf(e, j) = EvidenceOf(d, j)
      /\ Shape(e)
  <2>1. RowAdded(d, row, evs, i, e)
    BY <1>0, <1>1, InsertRows
  <2>. QED BY <2>1 DEF RowAdded
<1>3. e.evidence = d.evidence /\ e.swept = d.swept /\ e.bindings = d.bindings \cup (evs \X {i})
  BY DEF InsertsAt
<1>4. \A j \in Live(d) : j \in Ids /\ j # i /\ e.rows[j] = d.rows[j] /\ j \in Live(e)
  BY <1>2 DEF Live
<1>5. \A t : OfTable(d, t) \subseteq OfTable(e, t)
  BY <1>4 DEF OfTable
<1>6. \A r \in AnyRow : RowKeys(d, r) => RowKeys(e, r)
  <2>1. SUFFICES ASSUME NEW r \in AnyRow, RowKeys(d, r), NEW f \in ForeignKeys[r.table]
                 PROVE  \/ /\ r.refs[f.col] \in OfTable(e, f.parent)
                           /\ f.packaged => e.rows[r.refs[f.col]].refs["package_id"] = r.refs["package_id"]
                        \/ r.refs[f.col] = Null /\ ~f.required
    BY DEF RowKeys
  <2>2. CASE r.refs[f.col] = Null /\ ~f.required
    BY <2>2
  <2>3. CASE /\ r.refs[f.col] \in OfTable(d, f.parent)
             /\ f.packaged => d.rows[r.refs[f.col]].refs["package_id"] = r.refs["package_id"]
    <3>1. r.refs[f.col] \in Live(d)
      BY <2>3 DEF OfTable
    <3>. QED BY <2>3, <3>1, <1>4, <1>5
  <2>. QED BY <2>1, <2>2, <2>3 DEF RowKeys
<1>7. KeysOk(e)
  <2>1. \A j \in Live(d) : RowKeys(d, d.rows[j])
    BY <1>0 DEF KeysOk, RowKeys
  <2>2. \A j \in Live(d) : d.rows[j] \in AnyRow
    BY <1>0 DEF Shape, IsRow
  <2>3. \A j \in Live(e) : RowKeys(e, e.rows[j])
    BY <1>1, <1>2, <1>4, <1>6, <2>1, <2>2 DEF Fits, IsRow
  <2>. QED BY <2>3 DEF KeysOk, RowKeys
<1>8. Bound(e)
  <2>1. ASSUME NEW b \in d.bindings
        PROVE  /\ e.evidence[b[1]] # Null
               /\ e.rows[b[2]] # NoRow => Grounds(e.rows[b[2]].table)
               /\ e.rows[b[2]] = NoRow => b[2] \in e.swept
    <3>1. b[2] # i /\ b[2] \in Ids
      BY <1>0 DEF FreshIds, Mentioned, Shape
    <3>. QED BY <3>1, <1>0, <1>2, <1>3 DEF Bound
  <2>2. ASSUME NEW b \in evs \X {i}
        PROVE  /\ e.evidence[b[1]] # Null
               /\ e.rows[b[2]] # NoRow => Grounds(e.rows[b[2]].table)
               /\ e.rows[b[2]] = NoRow => b[2] \in e.swept
    BY <1>2, <1>3 DEF Fits
  <2>. QED BY <1>3, <2>1, <2>2 DEF Bound
<1>9. Makers(e)
  <2>1. ASSUME NEW r, RowKeys(d, r), OwnRefs(d, r) PROVE OwnRefs(e, r)
    <3>1. SUFFICES ASSUME r.method # Manual, NEW f \in ForeignKeys[r.table], r.refs[f.col] # Null
                   PROVE  /\ Made(e, r.refs[f.col])
                          /\ f.col # "package_id" => Package(e, r.refs[f.col]) = r.refs["package_id"]
      BY DEF OwnRefs
    <3>2. r.refs[f.col] \in Live(d)
      BY <2>1, <3>1 DEF RowKeys, OfTable
    <3>. QED BY <2>1, <3>1, <3>2, <1>4 DEF OwnRefs, Made, Package
  <2>2. ASSUME NEW j \in Live(d) PROVE MadeBy(e.rows[j]) /\ OwnRefs(e, e.rows[j])
    <3>1. RowKeys(d, d.rows[j]) /\ MadeBy(d.rows[j]) /\ OwnRefs(d, d.rows[j])
      BY <1>0 DEF KeysOk, RowKeys, Makers
    <3>. QED BY <3>1, <2>1, <1>4
  <2>3. MadeBy(row) /\ OwnRefs(e, row)
    BY <2>1 DEF Fits
  <2>. QED BY <1>2, <2>2, <2>3 DEF Makers
<1>10. OwnEvidence(e)
  <2>1. ASSUME NEW j \in Live(d), d.rows[j].method = Resolver, NEW x \in EvidenceOf(d, j)
        PROVE  e.evidence[x] = e.rows[Package(e, j)].code
    <3>1. d.rows[j].table \notin Unpackaged
      BY <1>0, <2>1 DEF Makers, MadeBy, ResolverTables, Unpackaged, Resolver, Manual, Worker
    <3>2. Package(d, j) \in Live(d)
      BY <1>0, <3>1, PackageLive
    <3>3. Package(e, j) = Package(d, j)
      BY <1>4 DEF Package
    <3>. QED BY <1>0, <1>3, <1>4, <2>1, <3>2, <3>3 DEF OwnEvidence
  <2>2. ASSUME row.method = Resolver, NEW x \in evs
        PROVE  e.evidence[x] = e.rows[Package(e, i)].code
    <3>1. row.table \in EngineeringTables /\ row.table \notin Unpackaged
      BY <2>2 DEF Fits, IsRow, AnyRow, MadeBy, ResolverTables, Unpackaged
    <3>2. Owned \in ForeignKeys[row.table] /\ Owned.col = "package_id" /\ Owned.required
      BY <3>1, KeyPlaces, KeyFields DEF Owned
    <3>3. row.refs["package_id"] \in Live(d)
      BY <3>2 DEF Fits, RowKeys, OfTable
    <3>4. Package(e, i) = row.refs["package_id"]
      BY <1>2 DEF Package
    <3>. QED BY <1>3, <1>4, <2>2, <3>3, <3>4 DEF Fits
  <2>. QED BY <1>2, <1>4, <2>1, <2>2 DEF OwnEvidence
<1>. QED BY <1>2, <1>7, <1>8, <1>9, <1>10 DEF Sound

\* New evidence supports nothing yet.
LEMMA RecordSound ==
  ASSUME NEW d, Sound(d), NEW doc \in Docs, NEW x \in FreshEvidence(d),
         NEW e, RecordsAt(d, doc, e, x)
  PROVE  /\ Sound(e)
         /\ x \in EvidenceIds /\ d.evidence[x] = Null /\ e.evidence[x] = doc
         /\ \A y \in EvidenceIds : y # x => e.evidence[y] = d.evidence[y]
         /\ Live(e) = Live(d) /\ \A i : x \notin EvidenceOf(d, i) /\ EvidenceOf(e, i) = EvidenceOf(d, i)
<1>0. Shape(d) /\ KeysOk(d) /\ Bound(d) /\ Makers(d) /\ OwnEvidence(d)
  BY DEF Sound
<1>1. e.rows = d.rows /\ e.bindings = d.bindings /\ e.swept = d.swept /\ IsDb(e)
  BY DEF RecordsAt
<1>2. x \in EvidenceIds /\ d.evidence[x] = Null /\ doc # Null
  BY EvidenceAssumption DEF FreshEvidence
<1>3. e.evidence[x] = doc /\ \A y \in EvidenceIds : y # x => e.evidence[y] = d.evidence[y]
  BY <1>0, <1>2 DEF RecordsAt, Shape
<1>4. Live(e) = Live(d) /\ \A i : EvidenceOf(e, i) = EvidenceOf(d, i)
  BY <1>1 DEF Live, EvidenceOf
<1>5. \A b \in d.bindings : b[1] # x /\ b[1] \in EvidenceIds
  BY <1>0, <1>2 DEF Bound, Shape
<1>6. \A i : \A y \in EvidenceOf(d, i) : y # x /\ y \in EvidenceIds
  BY <1>5 DEF EvidenceOf
<1>7. Shape(e)
  <2>1. e.evidence \in [EvidenceIds -> Docs \cup {Null}]
    BY <1>0 DEF RecordsAt, Shape
  <2>. QED BY <1>0, <1>1, <1>4, <2>1 DEF Shape
<1>8. KeysOk(e)
  <2>1. \A t : OfTable(e, t) = OfTable(d, t)
    BY <1>1, <1>4 DEF OfTable
  <2>2. \A j \in Live(d) : \A f \in ForeignKeys[d.rows[j].table] :
          \/ /\ d.rows[j].refs[f.col] \in OfTable(d, f.parent)
             /\ f.packaged => d.rows[d.rows[j].refs[f.col]].refs["package_id"] = d.rows[j].refs["package_id"]
          \/ d.rows[j].refs[f.col] = Null /\ ~f.required
    BY <1>0 DEF KeysOk
  <2>3. ASSUME NEW j \in Live(e), NEW f \in ForeignKeys[d.rows[j].table]
        PROVE  \/ /\ d.rows[j].refs[f.col] \in OfTable(e, f.parent)
                  /\ f.packaged => d.rows[d.rows[j].refs[f.col]].refs["package_id"] = d.rows[j].refs["package_id"]
               \/ d.rows[j].refs[f.col] = Null /\ ~f.required
    <3>1. j \in Live(d) /\ OfTable(e, f.parent) = OfTable(d, f.parent)
      BY <1>4, <2>1
    <3>. QED BY <2>2, <3>1
  <2>. QED BY <1>1, <2>3 DEF KeysOk
<1>9. Bound(e)
  BY <1>0, <1>1, <1>3, <1>5 DEF Bound
<1>10. Makers(e)
  <2>1. \A r : OwnRefs(d, r) => OwnRefs(e, r)
    BY <1>1 DEF OwnRefs, Made, Package
  <2>. QED BY <1>0, <1>1, <1>4, <2>1 DEF Makers
<1>11. OwnEvidence(e)
  BY <1>0, <1>1, <1>3, <1>4, <1>6 DEF OwnEvidence, Package
<1>. QED BY <1>2, <1>3, <1>4, <1>6, <1>7, <1>8, <1>9, <1>10, <1>11 DEF Sound

\* e is d with rows, evidence and bindings taken away: no reference dangles and
\* no binding is left behind, but to a swept row.
Shrinks(d, e) ==
  /\ IsDb(e)
  /\ e.rows \in [Ids -> AnyRow \cup {NoRow}] /\ \A j \in Ids : e.rows[j] \in {d.rows[j], NoRow}
  /\ e.evidence \in [EvidenceIds -> Docs \cup {Null}]
  /\ \A x \in EvidenceIds : e.evidence[x] \in {d.evidence[x], Null}
  /\ e.bindings \subseteq d.bindings /\ e.swept \subseteq Ids
  /\ \A b \in e.bindings : e.evidence[b[1]] # Null /\ (e.rows[b[2]] = NoRow => b[2] \in e.swept)
  /\ \A j \in Live(e) : \A f \in ForeignKeys[d.rows[j].table] :
       d.rows[j].refs[f.col] \in Live(d) => d.rows[j].refs[f.col] \in Live(e)

\* Less of a sound database is sound, if no key is left without its row.
LEMMA ShrinkSound ==
  ASSUME NEW d, Sound(d), NEW e, Shrinks(d, e)
  PROVE  /\ Sound(e)
         /\ Live(e) \subseteq Live(d) /\ \A j \in Live(e) : e.rows[j] = d.rows[j]
         /\ \A i : EvidenceOf(e, i) \subseteq EvidenceOf(d, i)
<1>0. Shape(d) /\ KeysOk(d) /\ Bound(d) /\ Makers(d) /\ OwnEvidence(d)
  BY DEF Sound
<1>1. Live(e) \subseteq Live(d) /\ \A j \in Live(e) : e.rows[j] = d.rows[j] /\ j \in Ids
  BY DEF Shrinks, Live
<1>2. \A i : EvidenceOf(e, i) \subseteq EvidenceOf(d, i)
  BY DEF Shrinks, EvidenceOf
<1>3. Shape(e)
  BY <1>0, <1>1 DEF Shape, Shrinks
<1>4. KeysOk(e)
  <2>1. ASSUME NEW j \in Live(e), NEW f \in ForeignKeys[e.rows[j].table], NEW r, r = e.rows[j].refs[f.col]
        PROVE  \/ /\ r \in OfTable(e, f.parent)
                  /\ f.packaged => e.rows[r].refs["package_id"] = e.rows[j].refs["package_id"]
               \/ r = Null /\ ~f.required
    <3>1. e.rows[j] = d.rows[j] /\ j \in Live(d)
      BY <1>1
    <3>2. \/ /\ r \in OfTable(d, f.parent)
             /\ f.packaged => d.rows[r].refs["package_id"] = d.rows[j].refs["package_id"]
          \/ r = Null /\ ~f.required
      BY <1>0, <2>1, <3>1 DEF KeysOk
    <3>3. ASSUME r \in OfTable(d, f.parent) PROVE r \in Live(e) /\ e.rows[r] = d.rows[r] /\ r \in OfTable(e, f.parent)
      <4>1. r \in Live(d) /\ d.rows[r].table = f.parent
        BY <3>3 DEF OfTable
      <4>2. r \in Live(e)
        BY <2>1, <3>1, <4>1 DEF Shrinks
      <4>. QED BY <1>1, <4>1, <4>2 DEF OfTable
    <3>. QED BY <3>1, <3>2, <3>3
  <2>. QED BY <2>1 DEF KeysOk
<1>5. Bound(e)
  <2>1. ASSUME NEW b \in e.bindings
        PROVE  /\ e.evidence[b[1]] # Null
               /\ e.rows[b[2]] # NoRow => Grounds(e.rows[b[2]].table)
               /\ e.rows[b[2]] = NoRow => b[2] \in e.swept
    <3>1. b \in d.bindings /\ b[2] \in Ids
      BY <1>0 DEF Shrinks, Shape
    <3>2. e.rows[b[2]] \in {d.rows[b[2]], NoRow}
      BY <3>1 DEF Shrinks
    <3>. QED BY <3>1, <3>2, <1>0 DEF Bound, Shrinks
  <2>. QED BY <2>1 DEF Bound
<1>6. Makers(e)
  <2>1. ASSUME NEW j \in Live(e) PROVE MadeBy(e.rows[j]) /\ OwnRefs(e, e.rows[j])
    <3>1. j \in Live(d) /\ e.rows[j] = d.rows[j] /\ MadeBy(d.rows[j]) /\ OwnRefs(d, d.rows[j])
      BY <1>0, <1>1 DEF Makers
    <3>2. ASSUME NEW f \in ForeignKeys[d.rows[j].table], d.rows[j].refs[f.col] # Null
          PROVE  d.rows[j].refs[f.col] \in Live(e) /\ e.rows[d.rows[j].refs[f.col]] = d.rows[d.rows[j].refs[f.col]]
      <4>1. d.rows[j].refs[f.col] \in Live(d)
        BY <1>0, <3>1, <3>2, RefsLive
      <4>2. d.rows[j].refs[f.col] \in Live(e)
        BY <4>1 DEF Shrinks
      <4>. QED BY <1>1, <4>2
    <3>3. OwnRefs(e, d.rows[j])
      BY <3>1, <3>2 DEF OwnRefs, Made, Package
    <3>. QED BY <3>1, <3>3
  <2>. QED BY <2>1 DEF Makers
<1>7. OwnEvidence(e)
  <2>1. ASSUME NEW j \in Live(e), e.rows[j].method = Resolver, NEW x \in EvidenceOf(e, j)
        PROVE  e.evidence[x] = e.rows[Package(e, j)].code
    <3>1. j \in Live(d) /\ e.rows[j] = d.rows[j] /\ x \in EvidenceOf(d, j)
      BY <1>1, <1>2
    <3>2. e.rows[j].table \notin Unpackaged
      BY <1>6, <2>1 DEF Makers, MadeBy, ResolverTables, Unpackaged, Resolver, Manual, Worker
    <3>3. Package(e, j) \in Live(e)
      BY <1>3, <1>4, <3>2, PackageLive
    <3>4. Package(e, j) = Package(d, j) /\ e.rows[Package(e, j)] = d.rows[Package(d, j)]
      BY <1>1, <3>1, <3>3 DEF Package
    <3>5. PICK b \in e.bindings : b[1] = x
      BY <2>1 DEF EvidenceOf
    <3>6. e.evidence[x] # Null /\ x \in EvidenceIds
      BY <3>5, <1>3 DEF Shrinks, Shape
    <3>7. e.evidence[x] = d.evidence[x]
      BY <3>6 DEF Shrinks
    <3>. QED BY <1>0, <2>1, <3>1, <3>4, <3>7 DEF OwnEvidence
  <2>. QED BY <2>1 DEF OwnEvidence
<1>. QED BY <1>1, <1>2, <1>3, <1>4, <1>5, <1>6, <1>7 DEF Sound

\* Taking away twice is taking away.
LEMMA ShrinkTwice ==
  ASSUME NEW d, Sound(d), NEW e, Shrinks(d, e), NEW g, Shrinks(e, g)
  PROVE  Shrinks(d, g)
<1>1. Live(e) \subseteq Live(d) /\ (\A j \in Live(e) : e.rows[j] = d.rows[j]) /\ Sound(e)
  BY ShrinkSound
<1>2. Live(g) \subseteq Live(e) /\ \A j \in Live(g) : g.rows[j] = e.rows[j]
  BY <1>1, ShrinkSound
<1>3. \A j \in Ids : g.rows[j] \in {d.rows[j], NoRow}
  BY DEF Shrinks
<1>4. \A x \in EvidenceIds : g.evidence[x] \in {d.evidence[x], Null}
  BY DEF Shrinks
<1>5. ASSUME NEW j \in Live(g), NEW f \in ForeignKeys[d.rows[j].table], d.rows[j].refs[f.col] \in Live(d)
      PROVE  d.rows[j].refs[f.col] \in Live(g)
  <2>1. j \in Live(e) /\ e.rows[j] = d.rows[j]
    BY <1>1, <1>2
  <2>2. d.rows[j].refs[f.col] \in Live(e)
    BY <1>5, <2>1 DEF Shrinks
  <2>. QED BY <2>1, <2>2 DEF Shrinks
<1>. QED BY <1>3, <1>4, <1>5 DEF Shrinks

\* A delete that is done takes away, when what it deletes is not bound or swept.
LEMMA EraseShrinks ==
  ASSUME NEW d, Sound(d), NEW S \in SUBSET Ids, NEW e, Erases(d, S, e),
         \A b \in d.bindings : b[2] \in S => b[2] \in d.swept
  PROVE  Shrinks(d, e) /\ Live(e) \cap S = {}
<1>0. Shape(d) /\ KeysOk(d) /\ Bound(d)
  BY DEF Sound
<1>1. PICK gone \in SUBSET Ids :
        /\ Takes(d, S, gone) /\ Erase(d, S, gone, e)
        /\ \A j \in Live(d) \ gone : ~Refers(d, j, gone, "CASCADE") /\ ~Refers(d, j, gone, SetNull)
  BY DEF Erases
<1>2. \A j \in Ids : e.rows[j] = IF j \in gone THEN NoRow ELSE d.rows[j]
  BY <1>1 DEF Erase
<1>3. e.rows \in [Ids -> AnyRow \cup {NoRow}] /\ \A j \in Ids : e.rows[j] \in {d.rows[j], NoRow}
  BY <1>0, <1>1, <1>2 DEF Erase, Shape
<1>4. Live(e) = Live(d) \ gone
  BY <1>2 DEF Live
<1>5. ASSUME NEW j \in Live(e), NEW f \in ForeignKeys[d.rows[j].table], d.rows[j].refs[f.col] \in Live(d)
      PROVE  d.rows[j].refs[f.col] \in Live(e)
  <2>1. d.rows[j].table \in EngineeringTables
    BY <1>0, <1>4 DEF Shape, IsRow, AnyRow
  <2>2. f.ondelete \in {"CASCADE", SetNull}
    BY <2>1, KeyShapes DEF KeyShape
  <2>. QED BY <1>1, <1>4, <1>5, <2>2 DEF Refers
<1>6. ASSUME NEW b \in e.bindings
      PROVE  e.evidence[b[1]] # Null /\ (e.rows[b[2]] = NoRow => b[2] \in e.swept)
  <2>1. b \in d.bindings /\ b[2] \in Ids /\ e.evidence = d.evidence
    BY <1>0, <1>1 DEF Erase, Shape
  <2>2. d.evidence[b[1]] # Null /\ (d.rows[b[2]] = NoRow => b[2] \in d.swept)
    BY <1>0, <2>1 DEF Bound
  <2>3. e.rows[b[2]] = NoRow => b[2] \in gone \/ d.rows[b[2]] = NoRow
    BY <1>2, <2>1
  <2>4. b[2] \in gone \ S => b[2] \in e.swept
    BY <1>1, <2>1 DEF Erase
  <2>5. b[2] \in d.swept => b[2] \in e.swept
    BY <1>1 DEF Erase
  <2>. QED BY <2>1, <2>2, <2>3, <2>4, <2>5
<1>7. IsDb(e) /\ e.evidence = d.evidence /\ e.bindings = d.bindings /\ e.swept \subseteq Ids
  BY <1>0, <1>1 DEF Erase, Shape
<1>8. Shrinks(d, e)
  BY <1>0, <1>3, <1>5, <1>6, <1>7 DEF Shrinks, Shape
<1>. QED BY <1>1, <1>4, <1>8 DEF Takes

----------------------------------------------------------------------------
(* The rows that are written. *)

\* What a code may be.
LEMMA CodesAre ==
  Null \in Codes /\ Docs \subseteq Codes
BY Zenon DEF Codes

\* r has the fields of a row.
IsFields(r) ==
  r = [table |-> r.table, refs |-> r.refs, doc |-> r.doc, method |-> r.method, sides |-> r.sides,
       code |-> r.code, raced |-> r.raced]

\* A record of the right fields is a row.
LEMMA RowIs ==
  ASSUME NEW r, IsFields(r), r.table \in EngineeringTables, r.refs \in [Columns(r.table) -> Ids \cup {Null}],
         r.doc \in Docs \cup {Null}, r.method \in {Manual, Worker, Resolver}, r.sides \in Seq(Ids),
         r.code \in Codes, r.raced \in BOOLEAN
  PROVE  IsRow(r)
<1>1. r.refs \in UNION {[Columns(u) -> Ids \cup {Null}] : u \in EngineeringTables}
  OBVIOUS
<1>2. r \in AnyRow
  BY <1>1 DEF AnyRow, IsFields
<1>. QED BY <1>2 DEF IsRow

\* A row before its caller fills it in.
Blank(r, t, refs) ==
  /\ IsFields(r) /\ r.table = t /\ r.doc = Null /\ r.sides = << >> /\ r.code = Null /\ r.raced = FALSE
  /\ r.refs \in [Columns(t) -> Ids \cup {Null}]
  /\ \A c \in Columns(t) : r.refs[c] = IF c \in DOMAIN refs THEN refs[c] ELSE Null

\* The fields of the three kinds of rows.
LEMMA RowFields ==
  ASSUME NEW t \in EngineeringTables, NEW refs, \A c \in DOMAIN refs : refs[c] \in Ids \cup {Null}
  PROVE  /\ Blank(Row(t, refs), t, refs) /\ Row(t, refs).method = Manual
         /\ Blank(WorkerRow(t, refs), t, refs) /\ WorkerRow(t, refs).method = Worker
         /\ Blank(ResolverRow(t, refs), t, refs) /\ ResolverRow(t, refs).method = Resolver
<1>1. PICK r : r = Row(t, refs)
  OBVIOUS
<1>2. /\ r = [table |-> t, refs |-> r.refs, doc |-> Null, method |-> Manual, sides |-> << >>,
              code |-> Null, raced |-> FALSE]
      /\ r.refs = [c \in Columns(t) |-> IF c \in DOMAIN refs THEN refs[c] ELSE Null]
  BY <1>1 DEF Row
<1>3. /\ r.refs \in [Columns(t) -> Ids \cup {Null}]
      /\ \A c \in Columns(t) : r.refs[c] = IF c \in DOMAIN refs THEN refs[c] ELSE Null
  BY <1>2
<1>4. /\ r.table = t /\ r.doc = Null /\ r.sides = << >> /\ r.code = Null /\ r.raced = FALSE
      /\ r.method = Manual /\ IsFields(r)
  BY <1>2 DEF IsFields
<1>5. Blank(r, t, refs)
  BY <1>3, <1>4 DEF Blank
<1>6. ASSUME NEW m, NEW q, q = [r EXCEPT !.method = m] PROVE Blank(q, t, refs) /\ q.method = m
  <2>1. IsFields(q) /\ q.table = r.table /\ q.refs = r.refs /\ q.doc = r.doc /\ q.method = m
        /\ q.sides = r.sides /\ q.code = r.code /\ q.raced = r.raced
    BY <1>4, <1>6 DEF IsFields
  <2>. QED BY <1>5, <2>1 DEF Blank
<1>7. Blank(WorkerRow(t, refs), t, refs) /\ WorkerRow(t, refs).method = Worker
  BY <1>1, <1>6 DEF WorkerRow
<1>8. Blank(ResolverRow(t, refs), t, refs) /\ ResolverRow(t, refs).method = Resolver
  BY <1>1, <1>6 DEF ResolverRow
<1>. QED BY <1>1, <1>4, <1>5, <1>7, <1>8

\* The references of a row that the worker or the resolver writes for package p.
MadeRefs(d, row, p) ==
  /\ row.refs["package_id"] = p
  /\ row.table = "assemblies" =>
       /\ row.refs["machine_id"] \in OfTable(d, "machines") /\ Made(d, row.refs["machine_id"])
       /\ Package(d, row.refs["machine_id"]) = p /\ row.refs["parent_assembly_id"] = Null
  /\ row.table \in {"package_assignments", "engineering_entities"} =>
       /\ \/ row.refs["machine_id"] = Null
          \/ /\ row.refs["machine_id"] \in OfTable(d, "machines") /\ Made(d, row.refs["machine_id"])
             /\ Package(d, row.refs["machine_id"]) = p
       /\ \/ row.refs["assembly_id"] = Null
          \/ /\ row.refs["assembly_id"] \in OfTable(d, "assemblies") /\ Made(d, row.refs["assembly_id"])
             /\ Package(d, row.refs["assembly_id"]) = p
  /\ row.table = "engineering_entity_candidates" => row.refs["canonical_entity_id"] = Null

\* The keys of a row that the worker or the resolver makes in its package.
LEMMA MadeKeys ==
  ASSUME NEW d, NEW p \in OfTable(d, "machine_packages"), Made(d, p), NEW row,
         row.table \in EngineeringTables, row.table \in (WorkerTables \cup ResolverTables) \ {"machine_packages"},
         MadeRefs(d, row, p)
  PROVE  RowKeys(d, row) /\ OwnRefs(d, row)
<1>1. ASSUME NEW f \in ForeignKeys[row.table]
      PROVE  \/ f.parent = "machine_packages" /\ f.col = "package_id"
             \/ f.parent = "machines" /\ f.col = "machine_id"
                  /\ row.table \in {"assemblies", "package_assignments", "engineering_entities"}
             \/ f.parent = "assemblies" /\ f.col = "assembly_id" /\ ~f.required
                  /\ row.table \in {"package_assignments", "engineering_entities"}
             \/ f.col = "parent_assembly_id" /\ ~f.required /\ row.table = "assemblies"
             \/ f.col = "canonical_entity_id" /\ ~f.required /\ row.table = "engineering_entity_candidates"
  BY KeyCases, KeyFields, SetsNull DEF KeyCase, Owned, WorkerTables, ResolverTables
<1>2. ASSUME NEW f \in ForeignKeys[row.table]
      PROVE  f.col = "machine_id" => (f.required <=> row.table = "assemblies")
  BY KeyCases, KeyFields, SetsNull DEF KeyCase, Owned, WorkerTables, ResolverTables
<1>3. ASSUME NEW f \in ForeignKeys[row.table] PROVE ~f.packaged
  BY KeyShapes DEF KeyShape, WorkerTables, ResolverTables
<1>4. ASSUME NEW f \in ForeignKeys[row.table]
      PROVE  row.refs[f.col] \in OfTable(d, f.parent) \/ (row.refs[f.col] = Null /\ ~f.required)
  BY <1>1, <1>2 DEF MadeRefs
<1>5. ASSUME NEW f \in ForeignKeys[row.table], row.refs[f.col] # Null
      PROVE  Made(d, row.refs[f.col]) /\ (f.col # "package_id" => Package(d, row.refs[f.col]) = row.refs["package_id"])
  BY <1>1, <1>5 DEF MadeRefs
<1>. QED BY <1>3, <1>4, <1>5 DEF RowKeys, OwnRefs

\* The columns of those references.
LEMMA MadeColumns ==
  /\ \A t \in EngineeringTables : t \notin Unpackaged => "package_id" \in Columns(t)
  /\ {"machine_id", "parent_assembly_id"} \subseteq Columns("assemblies")
  /\ {"machine_id", "assembly_id"} \subseteq Columns("package_assignments")
  /\ {"machine_id", "assembly_id"} \subseteq Columns("engineering_entities")
  /\ "canonical_entity_id" \in Columns("engineering_entity_candidates")
  /\ WorkerTables \cup ResolverTables \subseteq EngineeringTables
  /\ (WorkerTables \cup ResolverTables) \cap Unpackaged = {"machine_packages"}
<1>1. ASSUME NEW t \in EngineeringTables, t \notin Unpackaged PROVE "package_id" \in Columns(t)
  <2>1. Owned \in ForeignKeys[t] /\ Owned.col = "package_id"
    BY <1>1, KeyOwned, KeyFields DEF Owned
  <2>. QED BY <2>1 DEF Columns
<1>2. EngineeringTables = DOMAIN Keys /\ \A t \in EngineeringTables : ForeignKeys[t] = Keys[t]
  BY KeyTable
<1>3. WorkerTables \cup ResolverTables \subseteq EngineeringTables
  BY <1>2 DEF Keys, WorkerTables, ResolverTables
<1>4. (WorkerTables \cup ResolverTables) \cap Unpackaged = {"machine_packages"}
  BY DEF WorkerTables, ResolverTables, Unpackaged
<1>5. \A t \in WorkerTables \cup ResolverTables : \A f \in Keys[t] : f.col \in Columns(t)
  BY <1>2, <1>3 DEF Columns
<1>6. {"machine_id", "parent_assembly_id"} \subseteq Columns("assemblies")
  <2>1. /\ Key("machine_id", "machines", "CASCADE") \in Keys["assemblies"]
        /\ Key("parent_assembly_id", "assemblies", SetNull) \in Keys["assemblies"]
    BY DEF Keys
  <2>2. /\ Key("machine_id", "machines", "CASCADE").col \in Columns("assemblies")
        /\ Key("parent_assembly_id", "assemblies", SetNull).col \in Columns("assemblies")
    BY <1>5, <2>1 DEF WorkerTables
  <2>. QED BY <2>2, KeyFields
<1>7. {"machine_id", "assembly_id"} \subseteq Columns("package_assignments")
  <2>1. /\ Key("machine_id", "machines", SetNull) \in Keys["package_assignments"]
        /\ Key("assembly_id", "assemblies", SetNull) \in Keys["package_assignments"]
    BY DEF Keys
  <2>2. /\ Key("machine_id", "machines", SetNull).col \in Columns("package_assignments")
        /\ Key("assembly_id", "assemblies", SetNull).col \in Columns("package_assignments")
    BY <1>5, <2>1 DEF WorkerTables
  <2>. QED BY <2>2, KeyFields
<1>8. {"machine_id", "assembly_id"} \subseteq Columns("engineering_entities")
  <2>1. /\ Key("machine_id", "machines", SetNull) \in Keys["engineering_entities"]
        /\ Key("assembly_id", "assemblies", SetNull) \in Keys["engineering_entities"]
    BY DEF Keys
  <2>2. /\ Key("machine_id", "machines", SetNull).col \in Columns("engineering_entities")
        /\ Key("assembly_id", "assemblies", SetNull).col \in Columns("engineering_entities")
    BY <1>5, <2>1 DEF ResolverTables
  <2>. QED BY <2>2, KeyFields
<1>9. "canonical_entity_id" \in Columns("engineering_entity_candidates")
  <2>1. Key("canonical_entity_id", "engineering_entities", SetNull) \in Keys["engineering_entity_candidates"]
    BY DEF Keys
  <2>2. Key("canonical_entity_id", "engineering_entities", SetNull).col \in Columns("engineering_entity_candidates")
    BY <1>5, <2>1 DEF ResolverTables
  <2>. QED BY <2>2, KeyFields
<1>. QED BY <1>1, <1>3, <1>4, <1>6, <1>7, <1>8, <1>9

\* The grounded tables.
LEMMA GroundsIs ==
  ASSUME NEW t
  PROVE  Grounds(t) <=> t \in {"engineering_relations", "engineering_relation_candidates",
           "derived_behavior_claims", "engineering_conflicts", "unsupported_constructs",
           "engineering_entity_candidates", "package_assignments", "engineering_entities"}
<1>. DEFINE s == GROUNDED_SUBJECTS
<1>1. /\ s[1] = "engineering_relations" /\ s[2] = "engineering_relation_candidates"
      /\ s[3] = "derived_behavior_claims" /\ s[4] = "engineering_conflicts"
      /\ s[5] = "unsupported_constructs" /\ s[6] = "engineering_entity_candidates"
      /\ s[7] = "package_assignments" /\ s[8] = "engineering_entities" /\ DOMAIN s = 1..8
  BY DEF GROUNDED_SUBJECTS
<1>. HIDE DEF s
<1>2. Range(s) = {s[1], s[2], s[3], s[4], s[5], s[6], s[7], s[8]}
  BY <1>1 DEF Range
<1>. QED BY <1>1, <1>2 DEF Grounds, s

\* A row that its caller filled in.
LEMMA FilledIs ==
  ASSUME NEW t \in EngineeringTables, NEW refs, NEW r, Blank(r, t, refs), r.method \in {Manual, Worker, Resolver},
         NEW q, IsFields(q), q.table = r.table, q.refs = r.refs, q.method = r.method,
         q.doc \in Docs \cup {Null}, q.sides = << >> \/ q.sides \in Seq(Ids), q.code \in Codes, q.raced \in BOOLEAN
  PROVE  /\ IsRow(q) /\ q.table = t
         /\ \A c \in Columns(t) : q.refs[c] = IF c \in DOMAIN refs THEN refs[c] ELSE Null
<1>1. q.table \in EngineeringTables /\ q.refs \in [Columns(q.table) -> Ids \cup {Null}] /\ q.table = t
  BY DEF Blank
<1>2. << >> \in Seq(Ids)
  OBVIOUS
<1>3. q.sides \in Seq(Ids)
  BY <1>2
<1>4. IsRow(q)
  BY <1>1, <1>3, RowIs
<1>. QED BY <1>1, <1>4 DEF Blank

----------------------------------------------------------------------------
(* What a database keeps of the committed one while an attempt on doc works. *)

\* What adapter.json and the other transactions remember.
Noted == Range(recorded) \cup (UNION {held[x].rows : x \in Docs})

\* What a foreign key may refuse for: an optional reference that a caller gave.
ManualReference(d) ==
  \E i \in Live(d) : d.rows[i].method = Manual /\
    \E f \in ForeignKeys[d.rows[i].table] : f.ondelete = SetNull /\ d.rows[i].refs[f.col] # Null

\* A relation with an end that the resolver made.
OnResolved(d, r) ==
  /\ r.table = "engineering_relations"
  /\ \E c \in {"source_entity_id", "target_entity_id"} : d.rows[r.refs[c]].method = Resolver

\* A row that a resolution may clear.
Clearable(i) == rows[i].method = Resolver \/ OnResolved(Db, rows[i])

\* Evidence that only new rows stand on.
NewOnly(d, Old, x) == \A c \in d.bindings : c[1] = x => c[2] \in Live(d) \ Old

\* Old are the committed rows that are still there; every other row is new, made
\* by the attempt on evidence of doc.
Grown(doc, d, Old) ==
  /\ Old \subseteq Live(Db) \cap Live(d)
  /\ \A i \in Old : d.rows[i] = rows[i] /\ (~rows[i].raced => EvidenceOf(d, i) = EvidenceOf(Db, i))
  /\ \A i \in Live(Db) \ Old : Clearable(i)
  /\ \A i \in Live(d) \ Old :
       /\ i \notin Noted /\ d.rows[i].method # Manual /\ ~d.rows[i].raced
       /\ Grounds(d.rows[i].table) => \E x \in EvidenceOf(d, i) : NewOnly(d, Old, x)
  /\ \A b \in d.bindings :
       IF b[2] \in Live(d) \ Old THEN d.evidence[b[1]] = doc
       ELSE b \in bindings /\ d.evidence[b[1]] = evidence[b[1]]

\* ConflictsNameLiveRows, and what of them: rows the resolver made for the package.
Sides(d) ==
  \A i \in OfTable(d, "engineering_conflicts") : d.rows[i].method = Resolver =>
    \A s \in Range(d.rows[i].sides) :
      /\ s \in Live(d) /\ d.rows[s].method = Resolver /\ Package(d, s) = Package(d, i)
      /\ d.rows[s].table # "engineering_conflicts"

Merged(d, i) ==
  {x \in OfTable(d, "engineering_entity_candidates") : d.rows[x].refs["canonical_entity_id"] = i}

\* EntitiesStandOnCandidates, for any database.
Stands(d, i) == \A y : y \in EvidenceOf(d, i) <=> \E x \in Merged(d, i) : y \in EvidenceOf(d, x)

Standing(d) ==
  \A i \in OfTable(d, "engineering_entities") : d.rows[i].method = Resolver => Stands(d, i)

Broken(d) == IsDb(d) /\ ~d.ok /\ (d.full \/ ManualReference(Db))

\* The tables are the same.
SameTables(d, e) ==
  /\ IsDb(e) /\ e.rows = d.rows /\ e.evidence = d.evidence /\ e.bindings = d.bindings
  /\ e.swept = d.swept /\ e.ok = d.ok /\ e.full = d.full

\* Databases with the same tables have the same rows and evidence.
LEMMA SameLive ==
  ASSUME NEW d, NEW e, SameTables(d, e)
  PROVE  /\ Live(e) = Live(d) /\ \A t : OfTable(e, t) = OfTable(d, t)
         /\ \A i : EvidenceOf(e, i) = EvidenceOf(d, i) /\ Package(e, i) = Package(d, i) /\ Made(e, i) = Made(d, i)
         /\ e.rows = d.rows /\ e.evidence = d.evidence /\ e.bindings = d.bindings
<1>1. e.rows = d.rows /\ e.bindings = d.bindings /\ e.evidence = d.evidence
  BY DEF SameTables
<1>2. Live(e) = Live(d)
  BY <1>1 DEF Live
<1>3. \A t : OfTable(e, t) = OfTable(d, t)
  BY <1>1, <1>2 DEF OfTable
<1>4. \A i : EvidenceOf(e, i) = EvidenceOf(d, i)
  BY <1>1 DEF EvidenceOf
<1>5. \A i : Package(e, i) = Package(d, i) /\ Made(e, i) = Made(d, i)
  BY <1>1 DEF Package, Made
<1>. QED BY <1>1, <1>2, <1>3, <1>4, <1>5

\* ... are sound alike, ...
LEMMA SameSound ==
  ASSUME NEW d, Sound(d), NEW e, SameTables(d, e)
  PROVE  Sound(e)
<1>0. Shape(d) /\ KeysOk(d) /\ Bound(d) /\ Makers(d) /\ OwnEvidence(d)
  BY DEF Sound
<1>1. /\ Live(e) = Live(d) /\ \A t : OfTable(e, t) = OfTable(d, t)
      /\ \A i : EvidenceOf(e, i) = EvidenceOf(d, i) /\ Package(e, i) = Package(d, i) /\ Made(e, i) = Made(d, i)
      /\ e.rows = d.rows /\ e.evidence = d.evidence /\ e.bindings = d.bindings
  BY SameLive
<1>2. Shape(e)
  BY <1>0, <1>1 DEF Shape, SameTables
<1>3. KeysOk(e)
  <2>1. ASSUME NEW j \in Live(e), NEW f \in ForeignKeys[d.rows[j].table]
        PROVE  \/ /\ d.rows[j].refs[f.col] \in OfTable(e, f.parent)
                  /\ f.packaged => d.rows[d.rows[j].refs[f.col]].refs["package_id"] = d.rows[j].refs["package_id"]
               \/ d.rows[j].refs[f.col] = Null /\ ~f.required
    <3>1. j \in Live(d) /\ OfTable(e, f.parent) = OfTable(d, f.parent)
      BY <1>1
    <3>. QED BY <1>0, <3>1 DEF KeysOk
  <2>. QED BY <1>1, <2>1 DEF KeysOk
<1>4. Bound(e)
  BY <1>0, <1>1 DEF Bound, SameTables
<1>5. Makers(e)
  <2>1. \A r : OwnRefs(d, r) => OwnRefs(e, r)
    BY <1>1 DEF OwnRefs
  <2>. QED BY <1>0, <1>1, <2>1 DEF Makers
<1>6. OwnEvidence(e)
  BY <1>0, <1>1 DEF OwnEvidence
<1>. QED BY <1>2, <1>3, <1>4, <1>5, <1>6 DEF Sound

\* ... have grown alike, ...
LEMMA SameGrown ==
  ASSUME NEW doc, NEW d, NEW Old, Grown(doc, d, Old), NEW e, SameTables(d, e)
  PROVE  Grown(doc, e, Old)
<1>1. /\ Live(e) = Live(d) /\ e.rows = d.rows /\ e.evidence = d.evidence /\ e.bindings = d.bindings
      /\ \A i : EvidenceOf(e, i) = EvidenceOf(d, i)
  BY SameLive
<1>. QED BY <1>1 DEF Grown, NewOnly

\* ... and are coherent alike.
LEMMA SameCoherent ==
  ASSUME NEW d, Sides(d), Standing(d), NEW e, SameTables(d, e)
  PROVE  Sides(e) /\ Standing(e)
<1>1. /\ Live(e) = Live(d) /\ \A t : OfTable(e, t) = OfTable(d, t)
      /\ \A i : EvidenceOf(e, i) = EvidenceOf(d, i) /\ Package(e, i) = Package(d, i)
      /\ e.rows = d.rows /\ e.evidence = d.evidence /\ e.bindings = d.bindings
  BY SameLive
<1>2. \A i : Merged(e, i) = Merged(d, i)
  BY <1>1 DEF Merged
<1>3. Sides(e)
  BY <1>1 DEF Sides
<1>4. Standing(e)
  BY <1>1, <1>2 DEF Standing, Stands
<1>. QED BY <1>3, <1>4

\* What the attempt inserts is new.
LEMMA GrownInsert ==
  ASSUME NEW doc, NEW d, Sound(d), NEW Old, Grown(doc, d, Old), NEW row, NEW evs,
         Fits(d, row, evs), row.method # Manual, ~row.raced, Grounds(row.table) => evs # {},
         \A x \in evs : d.evidence[x] = doc /\ NewOnly(d, Old, x), NEW i \in FreshIds(d), NEW e, InsertsAt(d, row, evs, e, i)
  PROVE  Grown(doc, e, Old) /\ \A x : NewOnly(d, Old, x) => NewOnly(e, Old, x)
<1>1. /\ i \in Ids /\ i \notin Live(d) /\ d.rows[i] = NoRow /\ row # NoRow
      /\ e.rows[i] = row /\ \A j \in Ids : j # i => e.rows[j] = d.rows[j]
      /\ Live(e) = Live(d) \cup {i}
      /\ EvidenceOf(e, i) = evs
      /\ \A j : j # i => EvidenceOf(e, j) = EvidenceOf(d, j)
  <2>1. Shape(d) /\ IsRow(row) /\ evs \in SUBSET EvidenceIds
    BY DEF Sound, Fits
  <2>2. RowAdded(d, row, evs, i, e)
    BY <2>1, InsertRows
  <2>. QED BY <2>2 DEF RowAdded
<1>2. e.evidence = d.evidence /\ e.bindings = d.bindings \cup (evs \X {i})
  BY DEF InsertsAt
<1>3. i \notin Noted /\ \A b \in d.bindings : b[2] # i
  <2>1. i \notin Mentioned(d)
    BY DEF FreshIds
  <2>2. i \notin Range(recorded) /\ i \notin (UNION {held[x].rows : x \in Docs}) /\ i \notin {b[2] : b \in d.bindings}
    BY <2>1 DEF Mentioned
  <2>. QED BY <2>2 DEF Noted
<1>4. Old \subseteq Live(d) /\ Old \subseteq Live(Db) /\ Live(d) \subseteq Ids
  BY DEF Grown, Live
<1>5. \A j \in Old : j # i /\ e.rows[j] = d.rows[j] /\ EvidenceOf(e, j) = EvidenceOf(d, j)
  BY <1>1, <1>4
<1>0. ASSUME NEW x, NewOnly(d, Old, x) PROVE NewOnly(e, Old, x)
  <2>1. SUFFICES ASSUME NEW c \in e.bindings, c[1] = x PROVE c[2] \in Live(e) \ Old
    BY DEF NewOnly
  <2>2. CASE c \in d.bindings
    BY <2>1, <2>2, <1>0, <1>1 DEF NewOnly
  <2>3. CASE c \in evs \X {i}
    BY <2>3, <1>1, <1>4
  <2>. QED BY <1>2, <2>1, <2>2, <2>3
<1>6. ASSUME NEW j \in Live(e) \ Old
      PROVE  /\ j \notin Noted /\ e.rows[j].method # Manual /\ ~e.rows[j].raced
             /\ Grounds(e.rows[j].table) => \E x \in EvidenceOf(e, j) : NewOnly(e, Old, x)
  <2>1. CASE j = i
    BY <2>1, <1>1, <1>3, <1>0
  <2>2. CASE j # i
    <3>1. j \in Live(d) \ Old /\ e.rows[j] = d.rows[j] /\ EvidenceOf(e, j) = EvidenceOf(d, j)
      BY <2>2, <1>1, <1>4, <1>6
    <3>. QED BY <3>1, <1>0 DEF Grown
  <2>. QED BY <2>1, <2>2
<1>7. ASSUME NEW b \in e.bindings
      PROVE  IF b[2] \in Live(e) \ Old THEN e.evidence[b[1]] = doc
             ELSE b \in bindings /\ e.evidence[b[1]] = evidence[b[1]]
  <2>1. CASE b \in d.bindings
    <3>1. b[2] # i
      BY <1>3, <2>1
    <3>2. b[2] \in Live(e) \ Old <=> b[2] \in Live(d) \ Old
      BY <1>1, <3>1
    <3>. QED BY <1>2, <2>1, <3>2 DEF Grown
  <2>2. CASE b \in evs \X {i}
    BY <2>2, <1>1, <1>2, <1>4
  <2>. QED BY <1>2, <2>1, <2>2
<1>8. \A j \in Old : e.rows[j] = rows[j] /\ (~rows[j].raced => EvidenceOf(e, j) = EvidenceOf(Db, j))
  BY <1>5 DEF Grown
<1>9. \A j \in Live(Db) \ Old : Clearable(j)
  BY DEF Grown
<1>. QED BY <1>0, <1>1, <1>4, <1>6, <1>7, <1>8, <1>9 DEF Grown

\* New evidence changes nothing of that.
LEMMA GrownRecord ==
  ASSUME NEW doc \in Docs, NEW d, Sound(d), NEW Old, Grown(doc, d, Old),
         NEW x \in FreshEvidence(d), NEW e, RecordsAt(d, doc, e, x)
  PROVE  Grown(doc, e, Old)
<1>0. /\ x \in EvidenceIds /\ d.evidence[x] = Null
      /\ \A y \in EvidenceIds : y # x => e.evidence[y] = d.evidence[y]
      /\ Live(e) = Live(d) /\ \A i : EvidenceOf(e, i) = EvidenceOf(d, i)
      /\ e.rows = d.rows /\ e.bindings = d.bindings
  <2>1. e.rows = d.rows /\ e.bindings = d.bindings
    BY DEF RecordsAt
  <2>. QED BY <2>1, RecordSound
<1>1. \A b \in d.bindings : e.evidence[b[1]] = d.evidence[b[1]]
  BY <1>0 DEF Sound, Bound, Shape
<1>. QED BY <1>0, <1>1 DEF Grown, NewOnly

----------------------------------------------------------------------------
(* The statements of an attempt. *)

\* The rows and the evidence that the attempt has made.
Lists(doc, d, Old) ==
  /\ d.new \in Seq(Ids) /\ d.found \in Seq(EvidenceIds)
  /\ \A x \in Range(d.found) : d.evidence[x] = doc /\ NewOnly(d, Old, x)

\* What the attempt has listed is the same, too.
LEMMA SameLists ==
  ASSUME NEW doc, NEW d, NEW Old, Lists(doc, d, Old), NEW e, SameTables(d, e), e.new = d.new, e.found = d.found
  PROVE  Lists(doc, e, Old)
<1>1. Live(e) = Live(d) /\ e.bindings = d.bindings /\ e.evidence = d.evidence
  BY SameLive
<1>. QED BY <1>1 DEF Lists, NewOnly

Going(doc, d, Old) == Sound(d) /\ Grown(doc, d, Old) /\ d.ok

\* The package of the archive.
For(doc, d, p) == p \in OfTable(d, "machine_packages") /\ d.rows[p].code = doc

\* A row that the attempt may insert, on this evidence.
May(doc, d, row, evs, p) ==
  /\ IsRow(row) /\ row.table \in (WorkerTables \cup ResolverTables) \ {"machine_packages"}
  /\ MadeRefs(d, row, p) /\ MadeBy(row) /\ row.method # Manual /\ ~row.raced
  /\ evs \subseteq Range(d.found) /\ Grounds(row.table) <=> evs # {}

\* The row is in, or an id is missing.
LEMMA AttemptInsert ==
  ASSUME NEW doc \in Docs, NEW d, NEW Old, Going(doc, d, Old), Lists(doc, d, Old), NEW p, For(doc, d, p),
         NEW row, NEW evs, May(doc, d, row, evs, p), NEW e, e = insert(d, row, evs)
  PROVE  \/ Broken(e)
         \/ /\ Going(doc, e, Old) /\ Lists(doc, e, Old)
            /\ \E i \in FreshIds(d) : InsertsAt(d, row, evs, e, i) /\ RowAdded(d, row, evs, i, e)
<1>0. Shape(d) /\ Makers(d)
  BY DEF Going, Sound
<1>1. doc # Null
  BY EvidenceAssumption
<1>2. p \in OfTable(d, "machine_packages") /\ d.rows[p].code = doc /\ p \in Live(d)
  BY DEF For, OfTable
<1>3. Made(d, p)
  BY <1>0, <1>1, <1>2 DEF Makers, MadeBy, Made
<1>4. RowKeys(d, row) /\ OwnRefs(d, row)
  <2>1. row.table \in EngineeringTables
    BY MadeColumns DEF May
  <2>. QED BY <1>2, <1>3, <2>1, MadeKeys DEF May
<1>5. row.refs["package_id"] = p
  BY DEF May, MadeRefs
<1>9. evs \subseteq EvidenceIds /\ \A x \in evs : d.evidence[x] = doc /\ NewOnly(d, Old, x)
  <2>1. Range(d.found) \subseteq EvidenceIds
    BY DEF Lists, Range
  <2>. QED BY <2>1 DEF Lists, May
<1>6. Fits(d, row, evs)
  BY <1>1, <1>2, <1>4, <1>5, <1>9 DEF Fits, May
<1>7. \/ d.ok /\ Inserts(d, row, evs, e)
      \/ ~d.ok /\ e = d
      \/ d.ok /\ IsDb(e) /\ ~e.ok /\ e.full
  BY <1>0, InsertDoes
<1>8. ASSUME Inserts(d, row, evs, e)
      PROVE  /\ Going(doc, e, Old) /\ Lists(doc, e, Old)
             /\ \E i \in FreshIds(d) : InsertsAt(d, row, evs, e, i) /\ RowAdded(d, row, evs, i, e)
  <2>1. PICK i \in FreshIds(d) : InsertsAt(d, row, evs, e, i)
    BY <1>8 DEF Inserts
  <2>2. RowAdded(d, row, evs, i, e)
    BY <1>0, <1>6, <2>1, InsertRows DEF Fits
  <2>3. Sound(e)
    BY <1>6, <2>1, InsertSound DEF Going
  <2>4. Grown(doc, e, Old) /\ \A x : NewOnly(d, Old, x) => NewOnly(e, Old, x)
    BY <1>6, <1>9, <2>1, GrownInsert DEF Going, May
  <2>5. e.ok /\ e.new = Append(d.new, i) /\ e.found = d.found /\ e.evidence = d.evidence
    BY <2>1 DEF InsertsAt
  <2>6. i \in Ids
    BY <2>2 DEF RowAdded
  <2>7. Lists(doc, e, Old)
    BY <2>4, <2>5, <2>6 DEF Lists
  <2>. QED BY <2>1, <2>2, <2>3, <2>4, <2>5, <2>7 DEF Going
<1>. QED BY <1>7, <1>8 DEF Broken, Going

\* Nothing an attempt starts with is lost by an insert.
Grows(d, e) ==
  \A j \in Live(d) : j \in Live(e) /\ e.rows[j] = d.rows[j] /\ EvidenceOf(e, j) = EvidenceOf(d, j)

Coherent(d) == Sides(d) /\ Standing(d)

\* A row other than an entity of the resolver's leaves what the resolver wrote coherent.
LEMMA CoherentInsert ==
  ASSUME NEW d, Sound(d), Coherent(d), NEW row, NEW evs, NEW i, NEW e, RowAdded(d, row, evs, i, e),
         row.table = "engineering_entities" => row.method # Resolver,
         row.table = "engineering_entity_candidates" => row.refs["canonical_entity_id"] = Null,
         row.table = "engineering_conflicts" /\ row.method = Resolver =>
           \A s \in Range(row.sides) :
             /\ s \in Live(d) /\ d.rows[s].method = Resolver /\ Package(d, s) = row.refs["package_id"]
             /\ d.rows[s].table # "engineering_conflicts"
  PROVE  Coherent(e) /\ Grows(d, e)
<1>1. /\ i \in Ids /\ i \notin Live(d)
      /\ e.rows[i] = row /\ \A j \in Ids : j # i => e.rows[j] = d.rows[j]
      /\ Live(e) = Live(d) \cup {i}
      /\ \A j : j # i => EvidenceOf(e, j) = EvidenceOf(d, j)
  BY DEF RowAdded
<1>2. \A j \in Live(d) : j \in Ids /\ j # i /\ e.rows[j] = d.rows[j] /\ j \in Live(e) /\ EvidenceOf(e, j) = EvidenceOf(d, j)
  BY <1>1 DEF Live
<1>3. Grows(d, e)
  BY <1>2 DEF Grows
<1>4. Sides(e)
  <2>1. SUFFICES ASSUME NEW c \in OfTable(e, "engineering_conflicts"), e.rows[c].method = Resolver,
                        NEW s \in Range(e.rows[c].sides)
                 PROVE  /\ s \in Live(e) /\ e.rows[s].method = Resolver /\ Package(e, s) = Package(e, c)
                        /\ e.rows[s].table # "engineering_conflicts"
    BY DEF Sides
  <2>2. /\ s \in Live(d) /\ d.rows[s].method = Resolver /\ Package(d, s) = e.rows[c].refs["package_id"]
        /\ d.rows[s].table # "engineering_conflicts"
    <3>1. CASE c = i
      BY <2>1, <3>1, <1>1 DEF OfTable
    <3>2. CASE c # i
      <4>1. c \in OfTable(d, "engineering_conflicts") /\ e.rows[c] = d.rows[c]
        BY <2>1, <3>2, <1>1, <1>2 DEF OfTable
      <4>. QED BY <2>1, <4>1 DEF Coherent, Sides, Package
    <3>. QED BY <3>1, <3>2
  <2>. QED BY <2>2, <1>2 DEF Package
<1>5. Standing(e)
  <2>1. SUFFICES ASSUME NEW n \in OfTable(e, "engineering_entities"), e.rows[n].method = Resolver
                 PROVE  Stands(e, n)
    BY DEF Standing
  <2>2. n # i /\ n \in OfTable(d, "engineering_entities") /\ d.rows[n].method = Resolver
    BY <2>1, <1>1, <1>2 DEF OfTable
  <2>3. n \in Ids /\ n # Null
    BY <2>2, EvidenceAssumption DEF OfTable, Live, Ids
  <2>4. \A x : x \in Merged(e, n) <=> x \in Merged(d, n)
    BY <1>1, <1>2, <2>3 DEF Merged, OfTable
  <2>5. \A x \in Merged(d, n) : EvidenceOf(e, x) = EvidenceOf(d, x)
    BY <1>2 DEF Merged, OfTable
  <2>6. EvidenceOf(e, n) = EvidenceOf(d, n) /\ Stands(d, n)
    BY <1>2, <2>2 DEF Coherent, Standing, OfTable
  <2>. QED BY <2>4, <2>5, <2>6 DEF Stands
<1>. QED BY <1>3, <1>4, <1>5 DEF Coherent

\* The row that was there, or the row asked for.
LEMMA EnsuredDoes ==
  ASSUME NEW d, Shape(d), d.ok, NEW have \in SUBSET Ids, NEW row, NEW e, e = Ensured(d, have, row)
  PROVE  \/ SameTables(d, e) /\ e.id \in have
            /\ e.new = d.new /\ e.found = d.found /\ e.package = d.package /\ e.machine = d.machine
         \/ have = {} /\ e = insert(d, row, {})
<1>1. CASE have # {}
  <2>1. e = [d EXCEPT !.id = Min(have)]
    BY <1>1 DEF Ensured
  <2>2. Min(have) \in have
    <3>1. have \in SUBSET Nat
      BY EvidenceAssumption DEF Ids
    <3>. QED BY <1>1, <3>1, MinIsIn
  <2>. QED BY <2>1, <2>2 DEF Shape, IsDb, SameTables
<1>. QED BY <1>1 DEF Ensured

\* At the start nothing is new.
LEMMA GrownFrom ==
  ASSUME NEW doc, Shape(Db)
  PROVE  Grown(doc, Db, Live(Db)) /\ Db.ok /\ Grows(Db, Db)
BY DEF Grown, Db, Grows

----------------------------------------------------------------------------
(* What the worker writes around the resolution. *)

\* adapter.json names the one package of the archive, which the archive is in.
Recorded(doc) ==
  /\ recorded[doc] \in Live(Db) => For(doc, Db, recorded[doc])
  /\ \A q : For(doc, Db, q) => recorded[doc] = q /\ doc \in MembersOf(Db, q)

\* The attempt's package is the one of the archive, and the only one it made.
Only(doc, d) ==
  /\ \A q : For(doc, d, q) => q = d.package
  /\ \A q \in OfTable(d, "machine_packages") : q = d.package \/ (q \in Live(Db) /\ d.rows[q] = rows[q])

\* The rows that the attempt added before the resolution are the worker's.
Worked(d) == \A j \in Live(d) \ Live(Db) : d.rows[j].method = Worker

\* package_for_archive.
LEMMA PackageStep ==
  ASSUME NEW doc \in Docs, Sound(Db), Coherent(Db), Recorded(doc),
         NEW e, e = package_for_archive(Db, doc)
  PROVE  \/ Broken(e)
         \/ /\ Going(doc, e, Live(Db)) /\ Coherent(e) /\ For(doc, e, e.package) /\ Only(doc, e)
            /\ Grows(Db, e) /\ e.machine = Null /\ Lists(doc, e, Live(Db))
            /\ Worked(e)
<1>0. Shape(Db) /\ Db.ok /\ Db.machine = Null /\ Db.rows = rows /\ Db.new = << >> /\ Db.found = << >>
  BY DEF Sound, Db
<1>. DEFINE have == PackagesFor(Db, doc)
            row == [WorkerRow("machine_packages", << >>) EXCEPT !.code = doc]
<1>1. PICK g : g = Ensured(Db, have, row)
  OBVIOUS
<1>2. e = [g EXCEPT !.package = g.id]
  BY <1>1 DEF package_for_archive
<1>3. have \in SUBSET Ids /\ \A p \in have : For(doc, Db, p) /\ p = recorded[doc]
  <2>1. \A p \in have : p \in OfTable(Db, "machine_packages") /\ p \in Live(Db)
                        /\ (p = recorded[doc] \/ Db.rows[p].code = doc)
    BY DEF PackagesFor, OfTable
  <2>2. \A p \in have : For(doc, Db, p)
    BY <2>1 DEF Recorded, For
  <2>. QED BY <2>1, <2>2 DEF Recorded, Live
<1>4. IsRow(row) /\ row.table = "machine_packages" /\ row.method = Worker /\ row.code = doc /\ row.raced = FALSE
  <2>1. PICK r : r = WorkerRow("machine_packages", << >>)
    OBVIOUS
  <2>2. "machine_packages" \in EngineeringTables /\ DOMAIN << >> = {}
    BY MadeColumns DEF WorkerTables
  <2>3. Blank(r, "machine_packages", << >>) /\ r.method = Worker
    BY <2>1, <2>2, RowFields
  <2>4. row = [r EXCEPT !.code = doc]
    BY <2>1
  <2>5. /\ IsFields(row) /\ row.table = r.table /\ row.refs = r.refs /\ row.doc = r.doc /\ row.method = r.method
        /\ row.sides = r.sides /\ row.code = doc /\ row.raced = r.raced
    BY <2>3, <2>4 DEF Blank, IsFields
  <2>6. IsRow(row)
    <3>1. row.doc \in Docs \cup {Null} /\ row.method \in {Manual, Worker, Resolver} /\ row.sides \in Seq(Ids)
      <4>1. row.doc = Null /\ row.method = Worker /\ row.sides = << >>
        BY <2>3, <2>5 DEF Blank
      <4>2. << >> \in Seq(Ids)
        OBVIOUS
      <4>. QED BY <4>1, <4>2
    <3>2. row.code \in Codes /\ row.raced \in BOOLEAN
      BY <2>3, <2>5, CodesAre DEF Blank
    <3>3. row.table \in EngineeringTables /\ row.refs \in [Columns(row.table) -> Ids \cup {Null}]
      BY <2>2, <2>3, <2>5 DEF Blank
    <3>. QED BY <2>5, <3>1, <3>2, <3>3, RowIs
  <2>. QED BY <2>3, <2>5, <2>6 DEF Blank
<1>. HIDE DEF have, row
<1>5. \/ SameTables(Db, g) /\ g.id \in have
           /\ g.new = Db.new /\ g.found = Db.found /\ g.package = Db.package /\ g.machine = Db.machine
      \/ have = {} /\ g = insert(Db, row, {})
  BY <1>0, <1>1, <1>3, EnsuredDoes
<1>6. CASE SameTables(Db, g) /\ g.id \in have /\ g.machine = Db.machine /\ g.new = Db.new /\ g.found = Db.found
  <2>1. SameTables(Db, e) /\ e.package = g.id /\ e.machine = Null /\ e.ok
    BY <1>0, <1>2, <1>6 DEF SameTables, IsDb
  <2>0. Lists(doc, e, Live(Db))
    <3>1. e.new = << >> /\ e.found = << >>
      BY <1>0, <1>2, <1>6 DEF SameTables, IsDb
    <3>2. Range(e.found) = {}
      BY <3>1 DEF Range
    <3>. QED BY <3>1, <3>2 DEF Lists
  <2>2. Going(doc, e, Live(Db))
    BY <2>1, <1>0, GrownFrom, SameSound, SameGrown DEF Going
  <2>3. Coherent(e)
    BY <2>1, SameCoherent DEF Coherent
  <2>4. /\ Live(e) = Live(Db) /\ \A t : OfTable(e, t) = OfTable(Db, t)
        /\ e.rows = Db.rows /\ \A i : EvidenceOf(e, i) = EvidenceOf(Db, i)
    BY <2>1, SameLive
  <2>5. For(doc, e, e.package) /\ Grows(Db, e)
    BY <1>3, <1>6, <2>1, <2>4 DEF For, Grows
  <2>6. Only(doc, e)
    <3>1. \A q : For(doc, e, q) => q = e.package
      BY <1>3, <1>6, <2>1, <2>4 DEF For, Recorded
    <3>2. \A q \in OfTable(e, "machine_packages") : q \in Live(Db) /\ e.rows[q] = rows[q]
      BY <1>0, <2>4 DEF OfTable
    <3>. QED BY <3>1, <3>2 DEF Only
  <2>7. Worked(e)
    BY <2>4 DEF Worked
  <2>. QED BY <2>0, <2>1, <2>2, <2>3, <2>5, <2>6, <2>7
<1>7. CASE have = {} /\ g = insert(Db, row, {})
  <2>1. \A q : ~For(doc, Db, q)
    BY <1>7 DEF Recorded, PackagesFor, For, have
  <2>2. \/ Db.ok /\ Inserts(Db, row, {}, g)
        \/ ~Db.ok /\ g = Db
        \/ Db.ok /\ IsDb(g) /\ ~g.ok /\ g.full
    BY <1>0, <1>7, InsertDoes
  <2>3. CASE IsDb(g) /\ ~g.ok /\ g.full
    BY <1>2, <2>3 DEF Broken, IsDb
  <2>4. CASE Inserts(Db, row, {}, g)
    <3>1. PICK i \in FreshIds(Db) : InsertsAt(Db, row, {}, g, i)
      BY <2>4 DEF Inserts
    <3>2. ForeignKeys["machine_packages"] = {} /\ ~Grounds("machine_packages")
      <4>1. "machine_packages" \in EngineeringTables
        BY MadeColumns DEF WorkerTables
      <4>. QED BY <4>1, KeyPlaces, GroundsIs
    <3>3. MadeBy(row)
      BY <1>4 DEF MadeBy, Manual, Worker, Resolver, WorkerTables
    <3>4. RowKeys(Db, row) /\ OwnRefs(Db, row)
      BY <1>4, <3>2 DEF RowKeys, OwnRefs
    <3>5. Fits(Db, row, {})
      BY <1>4, <3>3, <3>4 DEF Fits
    <3>6. RowAdded(Db, row, {}, i, g)
      BY <1>0, <1>4, <3>1, InsertRows
    <3>7. Sound(g)
      BY <3>1, <3>5, InsertSound
    <3>8. Grown(doc, g, Live(Db))
      <4>1. Grown(doc, Db, Live(Db))
        BY <1>0, GrownFrom
      <4>2. row.method # Manual /\ ~row.raced /\ ~Grounds(row.table)
        BY <1>4, <3>2 DEF Manual, Worker
      <4>. QED BY <3>1, <3>5, <4>1, <4>2, GrownInsert
    <3>9. Coherent(g) /\ Grows(Db, g)
      BY <1>4, <3>6, CoherentInsert
    <3>10. g.ok /\ g.id = i /\ g.machine = Null /\ IsDb(g)
      BY <1>0, <3>1 DEF InsertsAt
    <3>11. SameTables(g, e) /\ e.package = i /\ e.machine = Null /\ e.ok
      BY <1>2, <3>10 DEF SameTables, IsDb
    <3>12. Going(doc, e, Live(Db)) /\ Coherent(e)
      BY <3>7, <3>8, <3>9, <3>11, SameSound, SameGrown, SameCoherent DEF Going, Coherent
    <3>13. /\ Live(e) = Live(g) /\ \A t : OfTable(e, t) = OfTable(g, t)
           /\ e.rows = g.rows /\ \A j : EvidenceOf(e, j) = EvidenceOf(g, j)
      BY <3>11, SameLive
    <3>14. Grows(Db, e)
      BY <3>9, <3>13 DEF Grows
    <3>15. /\ Live(g) = Live(Db) \cup {i} /\ g.rows[i] = row
           /\ \A j \in Ids : j # i => g.rows[j] = Db.rows[j]
      BY <3>6 DEF RowAdded
    <3>16. For(doc, e, e.package)
      BY <1>4, <3>11, <3>13, <3>15 DEF For, OfTable
    <3>17. Only(doc, e)
      <4>1. ASSUME NEW q, For(doc, e, q), q # i PROVE FALSE
        <5>1. q \in Live(Db) /\ g.rows[q] = Db.rows[q]
          BY <4>1, <3>13, <3>15 DEF For, OfTable, Live
        <5>. QED BY <2>1, <4>1, <5>1, <3>13 DEF For, OfTable
      <4>2. ASSUME NEW q \in OfTable(e, "machine_packages"), q # i PROVE q \in Live(Db) /\ e.rows[q] = rows[q]
        BY <1>0, <4>2, <3>13, <3>15 DEF OfTable, Live
      <4>. QED BY <3>11, <4>1, <4>2 DEF Only
    <3>18. Worked(e)
      <4>1. \A j \in Live(e) \ Live(Db) : j = i /\ e.rows[j] = row
        BY <3>13, <3>15
      <4>. QED BY <1>4, <4>1 DEF Worked
    <3>19. Lists(doc, e, Live(Db))
      <4>1. e.new = Append(<< >>, i) /\ e.found = << >> /\ i \in Ids
        BY <1>0, <1>2, <3>1, <3>6, <3>10 DEF InsertsAt, RowAdded, IsDb
      <4>2. Range(e.found) = {}
        BY <4>1 DEF Range
      <4>. QED BY <4>1, <4>2 DEF Lists
    <3>. QED BY <3>11, <3>12, <3>14, <3>16, <3>17, <3>18, <3>19
  <2>. QED BY <1>0, <2>2, <2>3, <2>4
<1>. QED BY <1>5, <1>6, <1>7

----------------------------------------------------------------------------
(* From one statement of an attempt to the next. *)

\* The machine of the attempt is one that it made in its package.
Machined(d) ==
  d.machine = Null \/
    (/\ d.machine \in OfTable(d, "machines") /\ Made(d, d.machine) /\ Package(d, d.machine) = d.package)

Stage(doc, d, Old) ==
  /\ Going(doc, d, Old) /\ Coherent(d)
  /\ For(doc, d, d.package) /\ Only(doc, d) /\ Machined(d) /\ Lists(doc, d, Old)

\* What the worker wrote stays, and no package is added.
Steady(d, e) ==
  /\ \A j \in Live(d) : d.rows[j].table \in WorkerTables => j \in Live(e) /\ e.rows[j] = d.rows[j]
  /\ \A j \in Live(e) : e.rows[j].table = "machine_packages" => j \in Live(d) /\ d.rows[j] = e.rows[j]
  /\ e.package = d.package /\ e.machine = d.machine

\* The package, its machine and its member are still there.
LEMMA SteadyKeeps ==
  ASSUME NEW doc, NEW d, NEW e, Steady(d, e), For(doc, d, d.package), Only(doc, d), Machined(d)
  PROVE  /\ For(doc, e, e.package) /\ Only(doc, e) /\ Machined(e)
         /\ doc \in MembersOf(d, d.package) => doc \in MembersOf(e, e.package)
<1>1. \A j \in Live(d) : d.rows[j].table \in {"machine_packages", "machines", "package_documents"} =>
        j \in Live(e) /\ e.rows[j] = d.rows[j]
  BY DEF Steady, WorkerTables
<1>2. e.package = d.package /\ e.machine = d.machine
  BY DEF Steady
<1>3. For(doc, e, e.package)
  BY <1>1, <1>2 DEF For, OfTable
<1>4. Only(doc, e)
  BY <1>2 DEF Only, For, OfTable, Steady
<1>5. Machined(e)
  BY <1>1, <1>2 DEF Machined, OfTable, Made, Package
<1>6. ASSUME doc \in MembersOf(d, d.package) PROVE doc \in MembersOf(e, e.package)
  <2>1. PICK i \in InPackageOf(d, "package_documents", d.package) : d.rows[i].doc = doc
    BY <1>6 DEF MembersOf
  <2>2. i \in InPackageOf(e, "package_documents", e.package) /\ e.rows[i].doc = doc
    BY <1>1, <1>2, <2>1 DEF InPackageOf, OfTable
  <2>. QED BY <2>2 DEF MembersOf
<1>. QED BY <1>3, <1>4, <1>5, <1>6

\* e is d with one row more.
Added(d, row, evs, i, e) == InsertsAt(d, row, evs, e, i) /\ RowAdded(d, row, evs, i, e)

\* What an INSERT changes, and what it leaves.
LEMMA AddedIs ==
  ASSUME NEW d, NEW row, NEW evs, NEW i, NEW e, Added(d, row, evs, i, e), row.table # "machine_packages"
  PROVE  /\ Steady(d, e) /\ Grows(d, e)
         /\ e.new = Append(d.new, i) /\ e.found = d.found /\ e.id = i /\ i \in Live(e) /\ i \notin Live(d)
         /\ e.rows[i] = row /\ EvidenceOf(e, i) = evs /\ Live(e) = Live(d) \cup {i}
<1>1. /\ i \in Ids /\ i \notin Live(d)
      /\ e.rows[i] = row /\ \A j \in Ids : j # i => e.rows[j] = d.rows[j]
      /\ Live(e) = Live(d) \cup {i} /\ EvidenceOf(e, i) = evs
      /\ \A j : j # i => EvidenceOf(e, j) = EvidenceOf(d, j)
  BY DEF Added, RowAdded
<1>2. e.new = Append(d.new, i) /\ e.found = d.found /\ e.id = i /\ e.package = d.package /\ e.machine = d.machine
  BY DEF Added, InsertsAt
<1>3. \A j \in Live(d) : j \in Ids /\ j # i /\ e.rows[j] = d.rows[j] /\ j \in Live(e) /\ EvidenceOf(e, j) = EvidenceOf(d, j)
  BY <1>1 DEF Live
<1>4. Steady(d, e)
  BY <1>1, <1>2, <1>3 DEF Steady
<1>5. Grows(d, e)
  BY <1>3 DEF Grows
<1>. QED BY <1>1, <1>2, <1>4, <1>5

\* INSERT of anything but an entity.
LEMMA StageInsert ==
  ASSUME NEW doc \in Docs, NEW d, NEW Old, Stage(doc, d, Old), NEW row, NEW evs, May(doc, d, row, evs, d.package),
         row.table # "engineering_entities",
         row.table = "engineering_conflicts" =>
           \A s \in Range(row.sides) :
             /\ s \in Live(d) /\ d.rows[s].method = Resolver /\ Package(d, s) = row.refs["package_id"]
             /\ d.rows[s].table # "engineering_conflicts",
         NEW e, e = insert(d, row, evs)
  PROVE  \/ Broken(e)
         \/ Stage(doc, e, Old) /\ Steady(d, e) /\ \E i : Added(d, row, evs, i, e)
<1>1. /\ Going(doc, d, Old) /\ Coherent(d) /\ For(doc, d, d.package) /\ Only(doc, d) /\ Machined(d) /\ Lists(doc, d, Old)
      /\ Sound(d)
  BY DEF Stage, Going
<1>2. \/ Broken(e)
      \/ /\ Going(doc, e, Old) /\ Lists(doc, e, Old)
         /\ \E i \in FreshIds(d) : InsertsAt(d, row, evs, e, i) /\ RowAdded(d, row, evs, i, e)
  BY <1>1, AttemptInsert
<1>3. ASSUME Going(doc, e, Old), Lists(doc, e, Old), NEW i \in FreshIds(d), InsertsAt(d, row, evs, e, i), RowAdded(d, row, evs, i, e)
      PROVE  Stage(doc, e, Old) /\ Steady(d, e) /\ Added(d, row, evs, i, e)
  <2>1. Added(d, row, evs, i, e)
    BY <1>3 DEF Added
  <2>2. row.table # "machine_packages"
    BY DEF May
  <2>3. Steady(d, e)
    BY <2>1, <2>2, AddedIs
  <2>4. row.table = "engineering_entity_candidates" => row.refs["canonical_entity_id"] = Null
    BY DEF May, MadeRefs
  <2>5. Coherent(e)
    BY <1>1, <1>3, <2>4, CoherentInsert
  <2>6. For(doc, e, e.package) /\ Only(doc, e) /\ Machined(e)
    BY <1>1, <2>3, SteadyKeeps
  <2>. QED BY <1>3, <2>1, <2>3, <2>5, <2>6 DEF Stage
<1>. QED BY <1>2, <1>3

\* A change of the attempt's own variables.
LEMMA StageSame ==
  ASSUME NEW doc, NEW d, NEW Old, Stage(doc, d, Old), NEW e, SameTables(d, e),
         e.package = d.package, e.machine = d.machine, Lists(doc, e, Old)
  PROVE  Stage(doc, e, Old) /\ Steady(d, e) /\ Grows(d, e)
<1>1. Going(doc, e, Old)
  BY SameSound, SameGrown DEF Stage, Going, SameTables
<1>2. Coherent(e)
  BY SameCoherent DEF Stage, Coherent
<1>3. Live(e) = Live(d) /\ e.rows = d.rows /\ \A i : EvidenceOf(e, i) = EvidenceOf(d, i)
  BY SameLive
<1>4. Steady(d, e) /\ Grows(d, e)
  BY <1>3 DEF Steady, Grows
<1>5. For(doc, e, e.package) /\ Only(doc, e) /\ Machined(e)
  BY <1>4, SteadyKeeps DEF Stage
<1>. QED BY <1>1, <1>2, <1>4, <1>5 DEF Stage

\* record_evidence on the archive.
LEMMA StageRecord ==
  ASSUME NEW doc \in Docs, NEW d, NEW Old, Stage(doc, d, Old), NEW method, NEW e, e = record(d, doc, method)
  PROVE  \/ Broken(e)
         \/ /\ Stage(doc, e, Old) /\ Steady(d, e) /\ Grows(d, e)
            /\ \E x \in EvidenceIds : RecordsAt(d, doc, e, x) /\ e.found = Append(d.found, x) /\ e.evidence[x] = doc
<1>1. Sound(d) /\ Shape(d) /\ Grown(doc, d, Old) /\ d.ok /\ Coherent(d) /\ Lists(doc, d, Old)
  BY DEF Stage, Going, Sound
<1>2. \/ d.ok /\ Records(d, doc, e)
      \/ ~d.ok /\ e = d
      \/ d.ok /\ IsDb(e) /\ ~e.ok /\ e.full
  BY <1>1, RecordDoes
<1>3. ASSUME NEW x \in FreshEvidence(d), RecordsAt(d, doc, e, x)
      PROVE  /\ Stage(doc, e, Old) /\ Steady(d, e) /\ Grows(d, e)
             /\ x \in EvidenceIds /\ RecordsAt(d, doc, e, x) /\ e.found = Append(d.found, x) /\ e.evidence[x] = doc
  <2>1. /\ Sound(e) /\ x \in EvidenceIds /\ e.evidence[x] = doc
        /\ Live(e) = Live(d) /\ \A i : EvidenceOf(e, i) = EvidenceOf(d, i)
    BY <1>1, <1>3, RecordSound
  <2>2. Grown(doc, e, Old)
    BY <1>1, <1>3, GrownRecord
  <2>3. /\ e.rows = d.rows /\ e.ok /\ e.new = d.new /\ e.found = Append(d.found, x)
        /\ e.package = d.package /\ e.machine = d.machine
    BY <1>3 DEF RecordsAt
  <2>4. Steady(d, e) /\ Grows(d, e)
    BY <2>1, <2>3 DEF Steady, Grows
  <2>5. For(doc, e, e.package) /\ Only(doc, e) /\ Machined(e)
    BY <2>4, SteadyKeeps DEF Stage
  <2>6. Lists(doc, e, Old)
    <3>1. NewOnly(e, Old, x)
      <4>1. e.bindings = d.bindings /\ d.evidence[x] = Null
        BY <1>1, <1>3, RecordSound DEF RecordsAt
      <4>. QED BY <1>1, <4>1 DEF NewOnly, Sound, Bound
    <3>2. \A y \in Range(d.found) : y # x /\ e.evidence[y] = d.evidence[y] /\ NewOnly(e, Old, y)
      <4>0. e.bindings = d.bindings
        BY <1>3 DEF RecordsAt
      <4>3. d.evidence[x] = Null /\ \A y \in EvidenceIds : y # x => e.evidence[y] = d.evidence[y]
        BY <1>1, <1>3, RecordSound
      <4>1. e.bindings = d.bindings /\ d.evidence[x] = Null /\ \A y \in EvidenceIds : y # x => e.evidence[y] = d.evidence[y]
        BY <4>0, <4>3
      <4>2. Range(d.found) \subseteq EvidenceIds /\ doc # Null
        BY <1>1, EvidenceAssumption DEF Lists, Range
      <4>. QED BY <1>1, <2>1, <4>1, <4>2 DEF NewOnly, Lists
    <3>3. Range(e.found) = Range(d.found) \cup {x}
      <4>1. d.found \in Seq(EvidenceIds)
        BY <1>1 DEF Lists
      <4>2. /\ DOMAIN e.found = 1..(Len(d.found) + 1) /\ DOMAIN d.found = 1..Len(d.found) /\ Len(d.found) \in Nat
            /\ e.found[Len(d.found) + 1] = x /\ \A k \in 1..Len(d.found) : e.found[k] = d.found[k]
        BY <2>1, <2>3, <4>1
      <4>3. ASSUME NEW y \in Range(e.found) PROVE y \in Range(d.found) \cup {x}
        BY <4>2, <4>3 DEF Range
      <4>4. ASSUME NEW y \in Range(d.found) PROVE y \in Range(e.found)
        BY <4>2, <4>4 DEF Range
      <4>5. x \in Range(e.found)
        BY <4>2 DEF Range
      <4>. QED BY <4>3, <4>4, <4>5
    <3>4. e.found \in Seq(EvidenceIds)
      BY <1>1, <2>1, <2>3 DEF Lists
    <3>. QED BY <1>1, <2>1, <2>3, <3>1, <3>2, <3>3, <3>4 DEF Lists
  <2>7. \A t : OfTable(e, t) = OfTable(d, t)
    BY <2>1, <2>3 DEF OfTable
  <2>8. Sides(e)
    BY <1>1, <2>1, <2>3, <2>7 DEF Coherent, Sides, Package
  <2>9. Standing(e)
    <3>1. \A i : Merged(e, i) = Merged(d, i)
      BY <2>3, <2>7 DEF Merged
    <3>. QED BY <1>1, <2>1, <2>3, <2>7, <3>1 DEF Coherent, Standing, Stands
  <2>. QED BY <1>3, <2>1, <2>2, <2>3, <2>4, <2>5, <2>6, <2>8, <2>9 DEF Stage, Going, Coherent
<1>. QED BY <1>1, <1>2, <1>3 DEF Records, Broken

\* And so are those that a statement adds.
Written(d, e) == Grows(d, e) /\ \A j \in Live(e) \ Live(d) : e.rows[j].method = Worker

\* One statement after the other.
LEMMA WorkedKept ==
  ASSUME NEW d, Worked(d), NEW e, Written(d, e)
  PROVE  Worked(e)
<1>1. ASSUME NEW j \in Live(e) \ Live(Db) PROVE e.rows[j].method = Worker
  <2>1. CASE j \in Live(d)
    BY <1>1, <2>1 DEF Worked, Written, Grows
  <2>2. CASE j \notin Live(d)
    BY <1>1, <2>2 DEF Written
  <2>. QED BY <2>1, <2>2
<1>. QED BY <1>1 DEF Worked

\* What was there, or a new row of the worker.
Ensures(doc, d, Old, have, row, e) ==
  /\ Stage(doc, e, Old) /\ Steady(d, e) /\ Grows(d, e) /\ Written(d, e) /\ e.found = d.found
  /\ \/ e.id \in have /\ e.new = d.new
     \/ have = {} /\ e.id \in Live(e) /\ e.rows[e.id] = row /\ e.new = Append(d.new, e.id)

\* Finding the row or making it keeps the stage of the attempt.
LEMMA StageEnsure ==
  ASSUME NEW doc \in Docs, NEW d, NEW Old, Stage(doc, d, Old), NEW have \in SUBSET Live(d),
         NEW row, May(doc, d, row, {}, d.package), row.method = Worker,
         NEW e, e = Ensured(d, have, row)
  PROVE  Broken(e) \/ Ensures(doc, d, Old, have, row, e)
<1>1. Shape(d) /\ d.ok /\ have \in SUBSET Ids /\ Lists(doc, d, Old)
  BY DEF Stage, Going, Sound, Live
<1>2. \/ SameTables(d, e) /\ e.id \in have
           /\ e.new = d.new /\ e.found = d.found /\ e.package = d.package /\ e.machine = d.machine
      \/ have = {} /\ e = insert(d, row, {})
  BY <1>1, EnsuredDoes
<1>3. CASE SameTables(d, e) /\ e.id \in have
           /\ e.new = d.new /\ e.found = d.found /\ e.package = d.package /\ e.machine = d.machine
  <2>1. Lists(doc, e, Old)
    BY <1>1, <1>3, SameLists
  <2>2. Stage(doc, e, Old) /\ Steady(d, e) /\ Grows(d, e)
    BY <1>3, <2>1, StageSame
  <2>3. Live(e) = Live(d)
    BY <1>3, SameLive
  <2>. QED BY <1>3, <2>2, <2>3 DEF Ensures, Written
<1>4. CASE have = {} /\ e = insert(d, row, {})
  <2>1. row.table \notin {"engineering_entities", "engineering_conflicts"}
    BY GroundsIs DEF May
  <2>2. \/ Broken(e)
        \/ Stage(doc, e, Old) /\ Steady(d, e) /\ \E i : Added(d, row, {}, i, e)
    BY <1>4, <2>1, StageInsert
  <2>3. ASSUME NEW i, Added(d, row, {}, i, e)
        PROVE  /\ Grows(d, e) /\ e.found = d.found /\ Written(d, e)
               /\ e.id \in Live(e) /\ e.rows[e.id] = row /\ e.new = Append(d.new, e.id)
    <3>1. row.table # "machine_packages"
      BY DEF May
    <3>2. /\ Grows(d, e) /\ e.found = d.found /\ e.rows[i] = row /\ Live(e) = Live(d) \cup {i}
          /\ e.id \in Live(e) /\ e.rows[e.id] = row /\ e.new = Append(d.new, e.id)
      BY <1>1, <2>3, <3>1, AddedIs
    <3>. QED BY <3>2 DEF Written
  <2>. QED BY <1>4, <2>2, <2>3 DEF Ensures
<1>. QED BY <1>2, <1>3, <1>4

\* A row that refers to its package only, before its caller fills it in.
LEMMA OfPackage ==
  ASSUME NEW t \in EngineeringTables, NEW p \in Ids, NEW refs, refs = [package_id |-> p]
  PROVE  /\ DOMAIN refs = {"package_id"} /\ refs["package_id"] = p
         /\ Blank(WorkerRow(t, refs), t, refs) /\ WorkerRow(t, refs).method = Worker
         /\ Blank(ResolverRow(t, refs), t, refs) /\ ResolverRow(t, refs).method = Resolver
<1>1. DOMAIN refs = {"package_id"} /\ refs["package_id"] = p
  OBVIOUS
<1>2. \A c \in DOMAIN refs : refs[c] \in Ids \cup {Null}
  BY <1>1
<1>. QED BY <1>1, <1>2, RowFields

\* A row of the worker that refers to the package only.
LEMMA WorkerMay ==
  ASSUME NEW doc \in Docs, NEW d, NEW Old, Stage(doc, d, Old), NEW t \in {"package_documents", "machines"},
         NEW r, r = WorkerRow(t, [package_id |-> d.package]), NEW row, IsFields(row),
         row.table = r.table, row.refs = r.refs, row.method = r.method, row.sides = r.sides, row.raced = r.raced,
         row.doc \in Docs \cup {Null}, row.code \in Codes
  PROVE  May(doc, d, row, {}, d.package) /\ row.method = Worker /\ row.refs["package_id"] = d.package /\ row.table = t
<1>1. t \in EngineeringTables /\ t \in (WorkerTables \cup ResolverTables) \ {"machine_packages"}
      /\ t \notin Unpackaged /\ "package_id" \in Columns(t)
  BY MadeColumns DEF WorkerTables, Unpackaged
<1>2. d.package \in Ids
  BY DEF Stage, For, OfTable, Live
<1>. DEFINE refs == [package_id |-> d.package]
<1>3. DOMAIN refs = {"package_id"} /\ refs["package_id"] = d.package
  OBVIOUS
<1>. HIDE DEF refs
<1>4. Blank(r, t, refs) /\ r.method = Worker
  BY <1>1, <1>2, <1>3, RowFields DEF refs
<1>5. r.method \in {Manual, Worker, Resolver} /\ row.raced \in BOOLEAN /\ row.sides = << >>
  BY <1>4 DEF Blank
<1>6. /\ IsRow(row) /\ row.table = t
      /\ \A c \in Columns(t) : row.refs[c] = IF c \in DOMAIN refs THEN refs[c] ELSE Null
  BY <1>1, <1>4, <1>5, FilledIs
<1>7. row.refs["package_id"] = d.package
  BY <1>1, <1>3, <1>6
<1>8. MadeBy(row)
  BY <1>4, <1>6 DEF MadeBy, Manual, Worker, Resolver, WorkerTables
<1>9. MadeRefs(d, row, d.package)
  BY <1>6, <1>7 DEF MadeRefs
<1>10. ~Grounds(row.table) /\ ~row.raced
  BY <1>4, <1>6, GroundsIs DEF Blank
<1>. QED BY <1>1, <1>4, <1>5, <1>6, <1>7, <1>8, <1>9, <1>10 DEF May, Manual, Worker

\* add_member.
LEMMA MemberStep ==
  ASSUME NEW doc \in Docs, NEW d, NEW Old, Stage(doc, d, Old), NEW e, e = add_member(d, doc)
  PROVE  \/ Broken(e)
         \/ Stage(doc, e, Old) /\ Steady(d, e) /\ Written(d, e) /\ doc \in MembersOf(e, e.package)
<1>. DEFINE have == {i \in InPackageOf(d, "package_documents", d.package) : d.rows[i].doc = doc}
            row == [WorkerRow("package_documents", [package_id |-> d.package]) EXCEPT !.doc = doc]
<1>1. e = Ensured(d, have, row) /\ have \in SUBSET Live(d)
  BY DEF add_member, InPackageOf, OfTable
<1>2. May(doc, d, row, {}, d.package) /\ row.method = Worker /\ row.refs["package_id"] = d.package
      /\ row.table = "package_documents" /\ row.doc = doc
  <2>1. PICK r : r = WorkerRow("package_documents", [package_id |-> d.package])
    OBVIOUS
  <2>2. d.package \in Ids /\ "package_documents" \in EngineeringTables
    BY MadeColumns DEF Stage, For, OfTable, Live, WorkerTables
  <2>3. IsFields(r) /\ r.code = Null
    <3>1. Blank(r, "package_documents", [package_id |-> d.package])
      BY <2>1, <2>2, OfPackage
    <3>. QED BY <3>1 DEF Blank
  <2>4. row = [r EXCEPT !.doc = doc]
    BY <2>1
  <2>5. /\ IsFields(row) /\ row.table = r.table /\ row.refs = r.refs /\ row.doc = doc /\ row.method = r.method
        /\ row.sides = r.sides /\ row.code = r.code /\ row.raced = r.raced
    BY <2>3, <2>4 DEF IsFields
  <2>6. row.doc \in Docs \cup {Null} /\ row.code \in Codes
    BY <2>3, <2>5, CodesAre
  <2>. HIDE DEF row
  <2>. QED BY <2>1, <2>5, <2>6, WorkerMay
<1>. HIDE DEF row
<1>3. Broken(e) \/ Ensures(doc, d, Old, have, row, e)
  <2>. HIDE DEF have
  <2>. QED BY <1>1, <1>2, StageEnsure
<1>4. ASSUME Steady(d, e), Grows(d, e), e.id \in have \/ (e.id \in Live(e) /\ e.rows[e.id] = row)
      PROVE  doc \in MembersOf(e, e.package)
  <2>1. e.id \in Live(e) /\ e.rows[e.id].table = "package_documents" /\ Package(e, e.id) = d.package
        /\ e.rows[e.id].doc = doc
    BY <1>2, <1>4 DEF Grows, InPackageOf, OfTable, Package
  <2>2. e.package = d.package
    BY <1>4 DEF Steady
  <2>3. e.id \in InPackageOf(e, "package_documents", e.package)
    BY <2>1, <2>2 DEF InPackageOf, OfTable, Package
  <2>. QED BY <2>1, <2>3 DEF MembersOf
<1>. QED BY <1>3, <1>4 DEF Ensures

Member(doc, d) == doc \in MembersOf(d, d.package)

\* ensure_machine.
LEMMA MachineStep ==
  ASSUME NEW doc \in Docs, NEW d, NEW Old, Stage(doc, d, Old), Member(doc, d), Worked(d),
         NEW e, e = ensure_machine(d, doc)
  PROVE  Broken(e) \/ (Stage(doc, e, Old) /\ Member(doc, e) /\ Worked(e))
<1>. DEFINE have == {i \in InPackageOf(d, "machines", d.package) : d.rows[i].code = doc}
            row == [WorkerRow("machines", [package_id |-> d.package]) EXCEPT !.code = doc]
<1>1. PICK g : g = Ensured(d, have, row)
  OBVIOUS
<1>2. have \in SUBSET Live(d) /\ e = IF doc \in Coded THEN [g EXCEPT !.machine = g.id] ELSE d
  BY <1>1 DEF ensure_machine, InPackageOf, OfTable
<1>3. May(doc, d, row, {}, d.package) /\ row.method = Worker /\ row.refs["package_id"] = d.package
      /\ row.table = "machines"
  <2>1. PICK r : r = WorkerRow("machines", [package_id |-> d.package])
    OBVIOUS
  <2>2. d.package \in Ids /\ "machines" \in EngineeringTables
    BY MadeColumns DEF Stage, For, OfTable, Live, WorkerTables
  <2>3. IsFields(r) /\ r.doc = Null
    <3>1. Blank(r, "machines", [package_id |-> d.package])
      BY <2>1, <2>2, OfPackage
    <3>. QED BY <3>1 DEF Blank
  <2>4. row = [r EXCEPT !.code = doc]
    BY <2>1
  <2>5. /\ IsFields(row) /\ row.table = r.table /\ row.refs = r.refs /\ row.doc = r.doc /\ row.method = r.method
        /\ row.sides = r.sides /\ row.code = doc /\ row.raced = r.raced
    BY <2>3, <2>4 DEF IsFields
  <2>6. row.doc \in Docs \cup {Null} /\ row.code \in Codes
    BY <2>3, <2>5, CodesAre
  <2>. HIDE DEF row
  <2>. QED BY <2>1, <2>5, <2>6, WorkerMay
<1>. HIDE DEF row
<1>4. Broken(g) \/ Ensures(doc, d, Old, have, row, g)
  <2>. HIDE DEF have
  <2>. QED BY <1>1, <1>2, <1>3, StageEnsure
<1>5. CASE doc \notin Coded
  BY <1>2, <1>5
<1>6. CASE doc \in Coded /\ Broken(g)
  <2>1. e = [g EXCEPT !.machine = g.id]
    BY <1>2, <1>6
  <2>2. IsDb(e) /\ e.ok = g.ok /\ e.full = g.full
    BY <1>6, <2>1 DEF Broken, IsDb
  <2>. QED BY <1>6, <2>2 DEF Broken
<1>7. CASE doc \in Coded /\ Ensures(doc, d, Old, have, row, g)
  <2>1. e = [g EXCEPT !.machine = g.id]
    BY <1>2, <1>7
  <2>2. Stage(doc, g, Old) /\ Steady(d, g) /\ Grows(d, g)
        /\ (g.id \in have \/ (g.id \in Live(g) /\ g.rows[g.id] = row)) /\ Written(d, g)
    BY <1>7 DEF Ensures
  <2>3. IsDb(g) /\ Makers(d) /\ Lists(doc, g, Old)
    BY <2>2 DEF Stage, Going, Sound, Shape
  <2>4. SameTables(g, e) /\ e.machine = g.id /\ e.package = g.package /\ Lists(doc, e, Old)
    <3>1. SameTables(g, e) /\ e.machine = g.id /\ e.package = g.package /\ e.new = g.new /\ e.found = g.found
      BY <2>1, <2>3 DEF IsDb, SameTables
    <3>. QED BY <2>3, <3>1, SameLists
  <2>5. g.id \in OfTable(g, "machines") /\ Package(g, g.id) = d.package
    BY <1>3, <2>2 DEF Grows, OfTable, InPackageOf, Package
  <2>6. Made(g, g.id)
    <3>1. CASE g.id \in have
      <4>1. g.id \in Live(d) /\ d.rows[g.id].code = doc /\ doc # Null
        BY <3>1, EvidenceAssumption DEF InPackageOf, OfTable
      <4>2. d.rows[g.id].method # Manual
        BY <2>3, <4>1 DEF Makers, MadeBy
      <4>. QED BY <2>2, <4>1, <4>2 DEF Grows, Made
    <3>2. CASE g.rows[g.id] = row
      BY <1>3, <3>2 DEF Made, May
    <3>. QED BY <2>2, <3>1, <3>2
  <2>7. g.package = d.package
    BY <2>2 DEF Steady
  <2>8. Live(e) = Live(g) /\ e.rows = g.rows /\ \A t : OfTable(e, t) = OfTable(g, t)
    BY <2>4, SameLive
  <2>9. Machined(e)
    BY <2>4, <2>5, <2>6, <2>7, <2>8 DEF Machined, Made, Package
  <2>10. For(doc, e, e.package) /\ Only(doc, e)
    BY <2>2, <2>4, <2>8 DEF Stage, For, Only
  <2>11. Going(doc, e, Old)
    BY <2>2, <2>4, SameSound, SameGrown DEF Stage, Going, SameTables
  <2>12. Coherent(e)
    BY <2>2, <2>4, SameCoherent DEF Stage, Coherent
  <2>13. Member(doc, e)
    <3>1. Member(doc, g)
      BY <2>2, SteadyKeeps DEF Member, Stage
    <3>. QED BY <2>4, <2>8, <3>1 DEF Member, MembersOf, InPackageOf
  <2>14. Worked(e)
    <3>1. Worked(g)
      BY <2>2, WorkedKept
    <3>. QED BY <2>8, <3>1 DEF Worked
  <2>. QED BY <2>4, <2>9, <2>10, <2>11, <2>12, <2>13, <2>14 DEF Stage
<1>. QED BY <1>4, <1>5, <1>6, <1>7

\* A row that refers to its package and a machine, before its caller fills it in.
LEMMA OfMachine ==
  ASSUME NEW t \in EngineeringTables, NEW p \in Ids, NEW m \in Ids \cup {Null}, NEW refs,
         refs = [package_id |-> p, machine_id |-> m]
  PROVE  /\ DOMAIN refs = {"package_id", "machine_id"} /\ refs["package_id"] = p /\ refs["machine_id"] = m
         /\ Blank(WorkerRow(t, refs), t, refs) /\ WorkerRow(t, refs).method = Worker
<1>1. DOMAIN refs = {"package_id", "machine_id"} /\ refs["package_id"] = p /\ refs["machine_id"] = m
  OBVIOUS
<1>2. \A c \in DOMAIN refs : refs[c] \in Ids \cup {Null}
  BY <1>1
<1>. QED BY <1>1, <1>2, RowFields

\* assign.
LEMMA AssignStep ==
  ASSUME NEW doc \in Docs, NEW d, NEW Old, Stage(doc, d, Old), Member(doc, d), Worked(d), NEW e, e = assign(d, doc)
  PROVE  Broken(e) \/ (Stage(doc, e, Old) /\ Member(doc, e) /\ Worked(e))
<1>1. CASE \E i \in InPackageOf(d, "package_assignments", d.package) : d.rows[i].doc = doc
  BY <1>1 DEF assign
<1>2. CASE ~\E i \in InPackageOf(d, "package_assignments", d.package) : d.rows[i].doc = doc
  <2>1. PICK g : g = record(d, doc, Worker)
    OBVIOUS
  <2>2. PICK r : r = WorkerRow("package_assignments", [package_id |-> d.package, machine_id |-> d.machine])
    OBVIOUS
  <2>3. PICK row : row = [r EXCEPT !.doc = doc]
    OBVIOUS
  <2>4. e = insert(g, row, {Last(g.found)})
    BY <1>2, <2>1, <2>2, <2>3 DEF assign, OnLast
  <2>5. \/ Broken(g)
        \/ /\ Stage(doc, g, Old) /\ Steady(d, g) /\ Grows(d, g)
           /\ \E x \in EvidenceIds : RecordsAt(d, doc, g, x) /\ g.found = Append(d.found, x) /\ g.evidence[x] = doc
    BY <2>1, StageRecord
  <2>6. CASE Broken(g)
    BY <2>4, <2>6 DEF insert, Broken
  <2>7. ASSUME Stage(doc, g, Old), Steady(d, g), NEW x \in EvidenceIds, g.found = Append(d.found, x),
               g.evidence[x] = doc, g.rows = d.rows
        PROVE  Broken(e) \/ (Stage(doc, e, Old) /\ Member(doc, e) /\ Worked(e))
    <3>1. Last(g.found) = x
      BY <2>7 DEF Last, Stage, Lists
    <3>2. d.package \in Ids /\ d.machine \in Ids \cup {Null}
      BY DEF Stage, For, OfTable, Live, Machined
    <3>3. "package_assignments" \in EngineeringTables /\ "package_assignments" \notin Unpackaged
          /\ {"package_id", "machine_id", "assembly_id"} \subseteq Columns("package_assignments")
      BY MadeColumns DEF WorkerTables, Unpackaged
    <3>. DEFINE refs == [package_id |-> d.package, machine_id |-> d.machine]
    <3>4. /\ DOMAIN refs = {"package_id", "machine_id"} /\ refs["package_id"] = d.package
          /\ refs["machine_id"] = d.machine
          /\ Blank(r, "package_assignments", refs) /\ r.method = Worker
      BY <2>2, <3>2, <3>3, OfMachine
    <3>. HIDE DEF refs
    <3>5. IsFields(r) /\ r.doc = Null /\ r.sides = << >> /\ r.code = Null /\ r.raced = FALSE
          /\ r.table = "package_assignments"
      BY <3>4 DEF Blank
    <3>6. /\ IsFields(row) /\ row.table = r.table /\ row.refs = r.refs /\ row.doc = doc /\ row.method = r.method
          /\ row.sides = r.sides /\ row.code = r.code /\ row.raced = r.raced
      BY <2>3, <3>5 DEF IsFields
    <3>7. r.method \in {Manual, Worker, Resolver} /\ row.raced \in BOOLEAN /\ row.code \in Codes
          /\ row.doc \in Docs \cup {Null} /\ row.sides = << >>
      BY <3>4, <3>5, <3>6, CodesAre
    <3>8. /\ IsRow(row) /\ row.table = "package_assignments"
          /\ \A c \in Columns("package_assignments") : row.refs[c] = IF c \in DOMAIN refs THEN refs[c] ELSE Null
      BY <3>3, <3>4, <3>6, <3>7, FilledIs
    <3>9. row.refs["package_id"] = d.package /\ row.refs["machine_id"] = d.machine /\ row.refs["assembly_id"] = Null
      BY <3>3, <3>4, <3>8
    <3>10. g.package = d.package /\ g.machine = d.machine /\ Machined(g)
      BY <2>7 DEF Steady, Stage
    <3>11. MadeRefs(g, row, g.package)
      BY <3>8, <3>9, <3>10 DEF MadeRefs, Machined
    <3>12. MadeBy(row) /\ row.method = Worker
      BY <3>4, <3>6, <3>8 DEF MadeBy, Manual, Worker, Resolver, WorkerTables
    <3>13. Grounds(row.table) /\ ~row.raced
      BY <3>5, <3>6, <3>8, GroundsIs
    <3>14. May(doc, g, row, {x}, g.package)
      <4>1. {x} \subseteq Range(g.found)
        BY <2>7 DEF Range, Stage, Lists
      <4>. QED BY <3>8, <3>11, <3>12, <3>13, <4>1 DEF May, WorkerTables, Manual, Worker
    <3>15. \/ Broken(e)
           \/ Stage(doc, e, Old) /\ Steady(g, e) /\ \E i : Added(g, row, {x}, i, e)
      <4>1. row.table \notin {"engineering_entities", "engineering_conflicts"} /\ e = insert(g, row, {x})
        BY <2>4, <3>1, <3>8
      <4>. QED BY <2>7, <3>14, <4>1, StageInsert
    <3>16. ASSUME Steady(g, e) PROVE Member(doc, e)
      <4>1. Member(doc, g)
        BY <2>7, SteadyKeeps DEF Member, Stage
      <4>. QED BY <2>7, <3>16, <4>1, SteadyKeeps DEF Member, Stage
    <3>17. ASSUME NEW i, Added(g, row, {x}, i, e) PROVE Worked(e)
      <4>1. row.table # "machine_packages"
        BY <3>8
      <4>2. Grows(g, e) /\ e.rows[i] = row /\ Live(e) = Live(g) \cup {i}
        BY <3>17, <4>1, AddedIs
      <4>3. Written(g, e)
        BY <3>12, <4>2 DEF Written
      <4>4. Live(g) = Live(d)
        BY <2>7 DEF Live
      <4>5. Worked(g)
        BY <2>7, <4>4 DEF Worked
      <4>. QED BY <4>3, <4>5, WorkedKept
    <3>. QED BY <3>15, <3>16, <3>17
  <2>8. ASSUME NEW x, RecordsAt(d, doc, g, x) PROVE g.rows = d.rows
    BY <2>8 DEF RecordsAt
  <2>. QED BY <2>5, <2>6, <2>7, <2>8
<1>. QED BY <1>1, <1>2

\* After a statement that failed nothing happens.
LEMMA BrokenStays ==
  ASSUME NEW doc, NEW d, Broken(d)
  PROVE  /\ Broken(add_member(d, doc)) /\ Broken(ensure_machine(d, doc)) /\ Broken(assign(d, doc))
<1>1. \A have, row : Ensured(d, have, row) = d
  BY DEF Ensured, Broken
<1>2. Broken(add_member(d, doc))
  BY <1>1 DEF add_member
<1>3. Broken([d EXCEPT !.machine = d.id])
  <2>1. PICK e : e = [d EXCEPT !.machine = d.id]
    OBVIOUS
  <2>2. IsDb(e) /\ e.ok = d.ok /\ e.full = d.full
    BY <2>1 DEF Broken, IsDb
  <2>. QED BY <2>1, <2>2 DEF Broken
<1>4. Broken(ensure_machine(d, doc))
  BY <1>1, <1>3 DEF ensure_machine
<1>5. \A row : OnLast(record(d, doc, Worker), row) = d
  BY DEF Broken, record, insert, OnLast
<1>6. Broken(assign(d, doc))
  BY <1>5 DEF assign
<1>. QED BY <1>2, <1>4, <1>6

\* intake: whatever the resolution finds, the package is ready for it.
LEMMA IntakeStep ==
  ASSUME NEW doc \in Docs, Sound(Db), Coherent(Db), Recorded(doc), NEW e, e = intake(Db, doc)
  PROVE  Broken(e) \/ (Stage(doc, e, Live(Db)) /\ Member(doc, e) /\ Worked(e))
<1>1. PICK a : a = package_for_archive(Db, doc)
  OBVIOUS
<1>2. PICK b : b = add_member(a, doc)
  OBVIOUS
<1>3. PICK c : c = ensure_machine(b, doc)
  OBVIOUS
<1>4. e = assign(c, doc)
  BY <1>1, <1>2, <1>3 DEF intake
<1>5. Broken(a) \/ (Stage(doc, a, Live(Db)) /\ Worked(a))
  BY <1>1, PackageStep DEF Stage, Machined
<1>6. Broken(b) \/ (Stage(doc, b, Live(Db)) /\ Member(doc, b) /\ Worked(b))
  <2>1. Broken(a) => Broken(b)
    BY <1>2, BrokenStays
  <2>2. Stage(doc, a, Live(Db)) =>
          Broken(b) \/ (Stage(doc, b, Live(Db)) /\ Written(a, b) /\ doc \in MembersOf(b, b.package))
    BY <1>2, MemberStep
  <2>. QED BY <1>5, <2>1, <2>2, WorkedKept DEF Member
<1>7. Broken(c) \/ (Stage(doc, c, Live(Db)) /\ Member(doc, c) /\ Worked(c))
  BY <1>3, <1>6, BrokenStays, MachineStep
<1>. QED BY <1>4, <1>7, BrokenStays, AssignStep

----------------------------------------------------------------------------
(* Candidates are merged into an entity, or detached from it. *)

\* r is q with another reference to an entity.
Relinked(q, r, v) ==
  /\ r.table = q.table /\ r.method = q.method /\ r.raced = q.raced /\ r.sides = q.sides
  /\ r.code = q.code /\ r.doc = q.doc
  /\ r.refs["canonical_entity_id"] = v
  /\ \A c \in Columns(q.table) : c # "canonical_entity_id" => r.refs[c] = q.refs[c]

\* A candidate may refer to any row as its entity.
LEMMA RelinkRow ==
  ASSUME NEW q, IsRow(q), q.table = "engineering_entity_candidates", NEW v \in Ids \cup {Null},
         NEW r, r = [q EXCEPT !.refs["canonical_entity_id"] = v]
  PROVE  IsRow(r) /\ Relinked(q, r, v)
<1>1. IsFields(q)
  BY DEF IsRow, AnyRow, IsFields
<1>2. "canonical_entity_id" \in Columns(q.table)
  BY MadeColumns
<1>3. q.refs \in [Columns(q.table) -> Ids \cup {Null}]
  BY DEF IsRow
<1>4. /\ IsFields(r) /\ r.table = q.table /\ r.method = q.method /\ r.raced = q.raced /\ r.sides = q.sides
      /\ r.code = q.code /\ r.doc = q.doc /\ r.refs = [q.refs EXCEPT !["canonical_entity_id"] = v]
  BY <1>1 DEF IsFields
<1>5. r.refs \in [Columns(q.table) -> Ids \cup {Null}]
  <2>1. ASSUME NEW g \in [Columns(q.table) -> Ids \cup {Null}]
        PROVE  [g EXCEPT !["canonical_entity_id"] = v] \in [Columns(q.table) -> Ids \cup {Null}]
    OBVIOUS
  <2>. QED BY <1>3, <1>4, <2>1
<1>6. Relinked(q, r, v)
  BY <1>2, <1>3, <1>4 DEF Relinked
<1>7. q.table \in EngineeringTables /\ q.doc \in Docs \cup {Null} /\ q.method \in {Manual, Worker, Resolver}
      /\ q.sides \in Seq(Ids) /\ q.code \in Codes /\ q.raced \in BOOLEAN
  BY DEF IsRow, AnyRow
<1>8. IsRow(r)
  BY <1>4, <1>5, <1>7, RowIs
<1>. QED BY <1>6, <1>8

\* e is d with the candidates M merged into v, or into nothing.
Relinks(d, e, M, v) ==
  /\ IsDb(e)
  /\ e.rows = [i \in Ids |-> IF i \in M THEN [d.rows[i] EXCEPT !.refs["canonical_entity_id"] = v]
                             ELSE d.rows[i]]
  /\ e.evidence = d.evidence /\ e.bindings = d.bindings /\ e.swept = d.swept
  /\ e.ok = d.ok /\ e.full = d.full /\ e.new = d.new /\ e.found = d.found
  /\ e.package = d.package /\ e.machine = d.machine /\ e.id = d.id

\* What that leaves alone.
Alike(d, e, M, v) ==
  /\ Live(e) = Live(d) /\ \A t : OfTable(e, t) = OfTable(d, t)
  /\ \A i \in Live(d) : Relinked(d.rows[i], e.rows[i], e.rows[i].refs["canonical_entity_id"])
  /\ \A i \in Ids : i \notin M => e.rows[i] = d.rows[i]
  /\ \A i \in M : e.rows[i].refs["canonical_entity_id"] = v
  /\ \A i : EvidenceOf(e, i) = EvidenceOf(d, i)
  /\ \A i \in Live(d) : d.rows[i].table \notin Unpackaged => Package(e, i) = Package(d, i)
  /\ Shape(e)

\* Merging and detaching leave everything else.
LEMMA RelinkAlike ==
  ASSUME NEW d, Shape(d), NEW M \in SUBSET OfTable(d, "engineering_entity_candidates"),
         NEW v \in Ids \cup {Null}, NEW e, Relinks(d, e, M, v)
  PROVE  Alike(d, e, M, v)
<1>1. \A i \in Ids : i \notin M => e.rows[i] = d.rows[i]
  BY DEF Relinks
<1>2. ASSUME NEW i \in M
      PROVE  i \in Live(d) /\ i \in Ids /\ IsRow(e.rows[i]) /\ Relinked(d.rows[i], e.rows[i], v)
  <2>1. i \in Live(d) /\ i \in Ids /\ d.rows[i].table = "engineering_entity_candidates"
    BY DEF OfTable, Live
  <2>2. IsRow(d.rows[i])
    BY <2>1 DEF Shape
  <2>3. e.rows[i] = [d.rows[i] EXCEPT !.refs["canonical_entity_id"] = v]
    BY <2>1 DEF Relinks
  <2>. QED BY <2>1, <2>2, <2>3, RelinkRow
<1>3. \A i \in M : e.rows[i] # NoRow /\ e.rows[i].table = d.rows[i].table
  BY <1>2, NoRowIsNoRow DEF IsRow, Relinked
<1>4. Live(e) = Live(d)
  BY <1>1, <1>2, <1>3 DEF Live
<1>5. \A t : OfTable(e, t) = OfTable(d, t)
  <2>1. \A i \in Live(d) : e.rows[i].table = d.rows[i].table
    BY <1>1, <1>3 DEF Live
  <2>. QED BY <1>4, <2>1 DEF OfTable
<1>6. \A i \in M : e.rows[i].refs["canonical_entity_id"] = v
  BY <1>2 DEF Relinked
<1>7. \A i \in Live(d) : Relinked(d.rows[i], e.rows[i], e.rows[i].refs["canonical_entity_id"])
  <2>1. ASSUME NEW i \in Live(d), i \notin M
        PROVE  Relinked(d.rows[i], e.rows[i], e.rows[i].refs["canonical_entity_id"])
    BY <1>1, <2>1 DEF Live, Relinked
  <2>. QED BY <1>2, <1>6, <2>1
<1>8. \A i : EvidenceOf(e, i) = EvidenceOf(d, i)
  BY DEF Relinks, EvidenceOf
<1>9. ASSUME NEW i \in Live(d), d.rows[i].table \notin Unpackaged PROVE Package(e, i) = Package(d, i)
  <2>1. "package_id" \in Columns(d.rows[i].table)
    BY <1>9, MadeColumns DEF Shape, IsRow, AnyRow
  <2>. QED BY <1>7, <2>1 DEF Relinked, Package
<1>10. Shape(e)
  <2>1. \A i \in Live(e) : IsRow(e.rows[i])
    BY <1>1, <1>2, <1>4 DEF Shape, Live
  <2>2. \A i \in Ids : e.rows[i] \in AnyRow \cup {NoRow}
    BY <2>1 DEF Live, IsRow
  <2>3. e.rows \in [Ids -> AnyRow \cup {NoRow}]
    BY <2>2 DEF Relinks
  <2>. QED BY <2>1, <2>3 DEF Shape, Relinks
<1>. QED BY <1>1, <1>4, <1>5, <1>6, <1>7, <1>8, <1>9, <1>10 DEF Alike

\* An entity of the resolver's for the same package is a good reference, and so is none.
LEMMA RelinkSound ==
  ASSUME NEW d, Sound(d), NEW M \in SUBSET OfTable(d, "engineering_entity_candidates"),
         \A i \in M : d.rows[i].method = Resolver,
         NEW v \in Ids \cup {Null},
         v # Null => v \in OfTable(d, "engineering_entities") /\ Made(d, v) /\ \A i \in M : Package(d, v) = Package(d, i),
         NEW e, Relinks(d, e, M, v)
  PROVE  Sound(e)
<1>0. Shape(d) /\ KeysOk(d) /\ Bound(d) /\ Makers(d) /\ OwnEvidence(d) /\ Alike(d, e, M, v)
  BY RelinkAlike DEF Sound
<1>1. /\ Live(e) = Live(d) /\ \A t : OfTable(e, t) = OfTable(d, t)
      /\ \A i \in Ids : i \notin M => e.rows[i] = d.rows[i]
      /\ \A i : EvidenceOf(e, i) = EvidenceOf(d, i)
      /\ Shape(e)
  BY <1>0 DEF Alike
<1>2. \A i \in M : i \in Live(d) /\ i \in Ids /\ d.rows[i].table = "engineering_entity_candidates"
  BY DEF OfTable, Live
<1>3. \A i \in Live(d) : /\ e.rows[i].table = d.rows[i].table /\ e.rows[i].method = d.rows[i].method
                         /\ e.rows[i].raced = d.rows[i].raced /\ e.rows[i].sides = d.rows[i].sides
                         /\ e.rows[i].code = d.rows[i].code /\ i \in Ids
                         /\ \A c \in Columns(d.rows[i].table) : c # "canonical_entity_id" => e.rows[i].refs[c] = d.rows[i].refs[c]
  BY <1>0 DEF Alike, Relinked, Live
<1>4. \A i \in Live(d) : d.rows[i].table \notin Unpackaged => Package(e, i) = Package(d, i)
  BY <1>0 DEF Alike
<1>5. \A i \in M : e.rows[i].refs["canonical_entity_id"] = v
  BY <1>0 DEF Alike
<1>6. \A i \in Live(d) : d.rows[i].table \in EngineeringTables
  BY <1>0 DEF Shape, IsRow, AnyRow
<1>7. ASSUME NEW i \in Live(d), NEW f \in ForeignKeys[d.rows[i].table], f.col = "canonical_entity_id"
      PROVE  d.rows[i].table = "engineering_entity_candidates" /\ f.parent = "engineering_entities" /\ ~f.required /\ ~f.packaged
  BY <1>6, <1>7, KeyCases, KeyFields, SetsNull DEF KeyCase, Owned
<1>8. KeysOk(e)
  <2>1. ASSUME NEW j \in Live(d), NEW f \in ForeignKeys[d.rows[j].table], NEW r, r = e.rows[j].refs[f.col]
        PROVE  \/ /\ r \in OfTable(e, f.parent)
                  /\ f.packaged => e.rows[r].refs["package_id"] = e.rows[j].refs["package_id"]
               \/ r = Null /\ ~f.required
    <3>1. CASE j \in M /\ f.col = "canonical_entity_id"
      BY <1>1, <1>2, <1>5, <1>7, <2>1, <3>1
    <3>2. CASE ~(j \in M /\ f.col = "canonical_entity_id")
      <4>1. f.col \in Columns(d.rows[j].table)
        BY DEF Columns
      <4>2. r = d.rows[j].refs[f.col]
        BY <1>1, <1>3, <2>1, <3>2, <4>1
      <4>3. \/ /\ r \in OfTable(d, f.parent)
               /\ f.packaged => d.rows[r].refs["package_id"] = d.rows[j].refs["package_id"]
            \/ r = Null /\ ~f.required
        BY <1>0, <4>2 DEF KeysOk
      <4>4. ASSUME r \in OfTable(d, f.parent), f.packaged
            PROVE  e.rows[r].refs["package_id"] = e.rows[j].refs["package_id"]
        <5>1. f.parent = "engineering_entities" /\ d.rows[j].table \in {"engineering_relations", "engineering_relation_candidates"}
          BY <1>6, <4>4, KeyShapes DEF KeyShape
        <5>2. r \in Live(d) /\ d.rows[r].table \notin Unpackaged /\ d.rows[j].table \notin Unpackaged
          BY <4>4, <5>1 DEF OfTable, Unpackaged
        <5>3. Package(e, r) = Package(d, r) /\ Package(e, j) = Package(d, j)
          BY <1>4, <5>2
        <5>4. d.rows[r].refs["package_id"] = d.rows[j].refs["package_id"]
          <6>1. r # Null
            BY <5>2, EvidenceAssumption DEF Live, Ids
          <6>. QED BY <4>3, <4>4, <6>1
        <5>. QED BY <5>3, <5>4 DEF Package
      <4>. QED BY <1>1, <4>3, <4>4
    <3>. QED BY <3>1, <3>2
  <2>. QED BY <1>1, <1>3, <2>1 DEF KeysOk
<1>9. Bound(e)
  <2>1. ASSUME NEW b \in d.bindings
        PROVE  /\ d.evidence[b[1]] # Null
               /\ e.rows[b[2]] # NoRow => Grounds(e.rows[b[2]].table)
               /\ e.rows[b[2]] = NoRow => b[2] \in d.swept
    <3>1. b[2] \in Ids
      BY <1>0 DEF Shape
    <3>2. e.rows[b[2]] = NoRow <=> d.rows[b[2]] = NoRow
      BY <1>1, <3>1 DEF Live
    <3>3. d.rows[b[2]] # NoRow => e.rows[b[2]].table = d.rows[b[2]].table
      BY <1>3, <3>1 DEF Live
    <3>. QED BY <1>0, <3>2, <3>3 DEF Bound
  <2>. QED BY <2>1 DEF Bound, Relinks
<1>10. Makers(e)
  <2>1. ASSUME NEW j \in Live(d) PROVE MadeBy(e.rows[j])
    <3>1. MadeBy(d.rows[j])
      BY <1>0 DEF Makers
    <3>2. CASE j \in M
      BY <1>2, <1>3, <3>1, <3>2 DEF MadeBy, Manual, Worker, Resolver
    <3>3. CASE j \notin M
      BY <1>1, <1>3, <3>1, <3>3
    <3>. QED BY <3>2, <3>3
  <2>2. ASSUME NEW j \in Live(d), d.rows[j].method # Manual, NEW f \in ForeignKeys[d.rows[j].table],
               NEW r, r = e.rows[j].refs[f.col], r # Null
        PROVE  /\ Made(e, r)
               /\ f.col # "package_id" => Package(e, r) = e.rows[j].refs["package_id"]
    <3>1. d.rows[j].table \notin Unpackaged
      <4>1. d.rows[j].table \in WorkerTables \cup ResolverTables
        BY <1>0, <2>2 DEF Makers, MadeBy, Shape, IsRow, AnyRow
      <4>2. d.rows[j].table # "machine_packages"
        BY <1>6, KeyPlaces, <2>2
      <4>. QED BY <4>1, <4>2, MadeColumns
    <3>2. Package(e, j) = Package(d, j)
      BY <1>4, <3>1
    <3>3. CASE j \in M /\ f.col = "canonical_entity_id"
      <4>1. r = v /\ v \in Live(d) /\ Made(d, v) /\ Package(d, v) = Package(d, j) /\ d.rows[v].table = "engineering_entities"
        BY <1>5, <2>2, <3>3 DEF OfTable
      <4>2. Made(e, v) /\ Package(e, v) = Package(d, v)
        BY <1>3, <1>4, <4>1 DEF Made, Unpackaged
      <4>. QED BY <3>2, <4>1, <4>2 DEF Package
    <3>4. CASE ~(j \in M /\ f.col = "canonical_entity_id")
      <4>1. f.col \in Columns(d.rows[j].table)
        BY DEF Columns
      <4>2. r = d.rows[j].refs[f.col]
        BY <1>1, <1>3, <2>2, <3>4, <4>1
      <4>3. r \in Live(d) /\ d.rows[r].table = f.parent
        <5>1. d.rows[j].refs[f.col] # Null
          BY <2>2, <4>2
        <5>2. d.rows[j].refs[f.col] \in Live(d) /\ d.rows[d.rows[j].refs[f.col]].table = f.parent
          BY <1>0, <5>1, RefsLive
        <5>. QED BY <4>2, <5>2
      <4>4. Made(d, r) /\ (f.col # "package_id" => Package(d, r) = d.rows[j].refs["package_id"])
        BY <1>0, <2>2, <4>2 DEF Makers, OwnRefs
      <4>5. Made(e, r)
        BY <1>3, <4>3, <4>4 DEF Made
      <4>6. ASSUME f.col # "package_id" PROVE Package(e, r) = Package(d, r)
        <5>1. f.parent \notin Unpackaged
          <6>1. d.rows[j].table \in WorkerTables \cup ResolverTables
            BY <1>0, <2>2 DEF Makers, MadeBy, Shape, IsRow, AnyRow
          <6>2. f.parent \in {"machine_packages", "machines", "assemblies", "engineering_entities"}
            BY <1>6, <6>1, KeyCases, KeyFields, SetsNull DEF KeyCase, Owned, WorkerTables, ResolverTables
          <6>3. f.parent # "machine_packages"
            BY <1>6, <4>6, KeyShapes DEF KeyShape
          <6>. QED BY <6>2, <6>3 DEF Unpackaged
        <5>. QED BY <1>4, <4>3, <5>1
      <4>. QED BY <3>2, <4>4, <4>5, <4>6 DEF Package
    <3>. QED BY <3>3, <3>4
  <2>3. \A j \in Live(d) : OwnRefs(e, e.rows[j])
    BY <1>3, <2>2 DEF OwnRefs
  <2>. QED BY <1>1, <2>1, <2>3 DEF Makers
<1>11. OwnEvidence(e)
  <2>1. ASSUME NEW j \in Live(d), d.rows[j].method = Resolver, NEW x \in EvidenceOf(d, j)
        PROVE  d.evidence[x] = e.rows[Package(e, j)].code
    <3>1. d.rows[j].table \notin Unpackaged
      BY <1>0, <2>1 DEF Makers, MadeBy, ResolverTables, Unpackaged, Resolver, Manual, Worker
    <3>2. Package(d, j) \in Live(d)
      BY <1>0, <3>1, PackageLive
    <3>. QED BY <1>0, <1>3, <1>4, <2>1, <3>1, <3>2 DEF OwnEvidence
  <2>2. e.evidence = d.evidence
    BY DEF Relinks
  <2>. QED BY <1>1, <1>3, <2>1, <2>2 DEF OwnEvidence
<1>. QED BY <1>1, <1>8, <1>9, <1>10, <1>11 DEF Sound

----------------------------------------------------------------------------
(* clear_package_identities. *)

\* The delete is refused, whatever it has taken by then.
Blocked(x, S) ==
  \E some \in SUBSET Ids : \E j \in Live(x) :
    /\ Takes(x, S, some) /\ j \notin some /\ Refers(x, j, some, SetNull)

\* The rows S are out of x with their bindings, and so are those that go with them.
OutOf(x, S, gone, z) ==
  /\ z.ok /\ IsDb(z) /\ Shrinks(x, z) /\ Takes(x, S, gone)
  /\ Live(z) = Live(x) \ gone
  /\ z.bindings = {b \in x.bindings : b[2] \notin S} /\ z.evidence = x.evidence
  /\ z.package = x.package /\ z.machine = x.machine /\ z.full = x.full

\* A delete that is not done has failed, and nothing else.
LEMMA DeleteIsDb ==
  ASSUME NEW d, IsDb(d), NEW S
  PROVE  IsDb(delete(d, S)) /\ delete(d, S).full = d.full /\ (~d.ok => delete(d, S) = d)
<1>1. ASSUME NEW w PROVE IsDb(Deleted(d, S, w)) /\ Deleted(d, S, w).full = d.full
  <2>1. CASE w.refused
    <3>1. PICK e : e = [d EXCEPT !.ok = FALSE]
      OBVIOUS
    <3>2. IsDb(e) /\ e.full = d.full
      BY <3>1 DEF IsDb
    <3>. QED BY <2>1, <3>1, <3>2 DEF Deleted
  <2>2. CASE ~w.refused
    <3>1. PICK r, m : r = [i \in Ids |-> IF i \in w.gone THEN NoRow ELSE d.rows[i]]
                      /\ m = d.swept \cup ((w.gone \ S) \cap {b[2] : b \in d.bindings})
      OBVIOUS
    <3>2. PICK e : e = [d EXCEPT !.rows = r, !.swept = m]
      OBVIOUS
    <3>3. IsDb(e) /\ e.full = d.full
      BY <3>2 DEF IsDb
    <3>. QED BY <2>2, <3>1, <3>2, <3>3 DEF Deleted
  <2>. QED BY <2>1, <2>2
<1>. QED BY <1>1 DEF delete

\* DELETE of bindings and then of their rows.
LEMMA TakeOut ==
  ASSUME NEW x, Sound(x), x.ok, NEW S \in SUBSET Live(x),
         NEW y, y = [x EXCEPT !.bindings = {b \in @ : b[2] \notin S}], NEW z, z = delete(y, S)
  PROVE  \/ IsDb(z) /\ ~z.ok /\ z.full = x.full /\ Blocked(x, S)
         \/ \E gone \in SUBSET Ids : OutOf(x, S, gone, z)
<1>0. Shape(x) /\ KeysOk(x) /\ Bound(x) /\ S \in SUBSET Ids
  BY DEF Sound, Live
<1>1. /\ IsDb(y) /\ y.rows = x.rows /\ y.evidence = x.evidence /\ y.swept = x.swept /\ y.ok /\ y.full = x.full
      /\ y.package = x.package /\ y.machine = x.machine /\ y.bindings = {b \in x.bindings : b[2] \notin S}
  BY <1>0 DEF Shape, IsDb
<1>2. Live(y) = Live(x)
  BY <1>1 DEF Live
<1>3. Shrinks(x, y)
  <2>1. y.rows \in [Ids -> AnyRow \cup {NoRow}] /\ \A j \in Ids : y.rows[j] \in {x.rows[j], NoRow}
    BY <1>0, <1>1 DEF Shape
  <2>2. \A b \in y.bindings : y.evidence[b[1]] # Null /\ (y.rows[b[2]] = NoRow => b[2] \in y.swept)
    BY <1>0, <1>1 DEF Bound
  <2>. QED BY <1>0, <1>1, <1>2, <2>1, <2>2 DEF Shrinks, Shape
<1>4. Sound(y)
  BY <1>3, ShrinkSound
<1>5. \A j, T, a : Refers(y, j, T, a) <=> Refers(x, j, T, a)
  BY <1>1 DEF Refers
<1>6. \A T : Takes(y, S, T) <=> Takes(x, S, T)
  BY <1>2, <1>5 DEF Takes, Closed
<1>7. IsDb(z) /\ z.full = x.full
  BY <1>1, DeleteIsDb
<1>8. Erases(y, S, z) \/ Refuses(y, S, z)
  BY <1>0, <1>1, <1>2, <1>4, DeleteDoes DEF Sound
<1>9. CASE Refuses(y, S, z)
  <2>1. ~z.ok
    BY <1>9 DEF Refuses
  <2>2. Blocked(x, S)
    BY <1>2, <1>5, <1>6, <1>9 DEF Refuses, Blocked
  <2>. QED BY <1>7, <2>1, <2>2
<1>10. CASE Erases(y, S, z)
  <2>1. Shrinks(y, z)
    BY <1>0, <1>1, <1>4, <1>10, EraseShrinks
  <2>2. Shrinks(x, z)
    BY <1>3, <2>1, ShrinkTwice
  <2>3. PICK gone \in SUBSET Ids : Takes(y, S, gone) /\ Erase(y, S, gone, z)
    BY <1>10 DEF Erases
  <2>4. /\ z.ok /\ z.bindings = y.bindings /\ z.evidence = y.evidence
        /\ z.package = y.package /\ z.machine = y.machine
        /\ z.rows = [i \in Ids |-> IF i \in gone THEN NoRow ELSE y.rows[i]]
    BY <2>3 DEF Erase
  <2>5. \A i \in Ids : z.rows[i] = IF i \in gone THEN NoRow ELSE y.rows[i]
    BY <2>4
  <2>6. Live(z) = Live(x) \ gone
    BY <1>1, <2>5 DEF Live
  <2>7. Takes(x, S, gone)
    BY <1>6, <2>3
  <2>8. OutOf(x, S, gone, z)
    BY <1>1, <1>7, <2>2, <2>4, <2>6, <2>7 DEF OutOf
  <2>. QED BY <2>8
<1>. QED BY <1>8, <1>9, <1>10

\* The tables to which a key goes that may have a value; the rows of the others go alone.
Parents ==
  {"machine_packages", "machines", "assemblies", "engineering_entities", "plc_programs", "plc_blocks",
   "plc_variables"}

\* No row refers to a row of the other tables: a key goes only to relations, and no
\* writer gives it a value.
LEMMA GoAlone ==
  ASSUME NEW x, Sound(x), NEW t, t \notin Parents, NEW S \in SUBSET OfTable(x, t)
  PROVE  ~Blocked(x, S) /\ \A gone \in SUBSET Ids : Takes(x, S, gone) => gone = S
<1>0. Shape(x) /\ KeysOk(x) /\ S \in SUBSET Ids
  BY DEF Sound, OfTable, Live
<1>1. ASSUME NEW j \in Live(x), NEW f \in ForeignKeys[x.rows[j].table], x.rows[j].refs[f.col] \in S PROVE FALSE
  <2>1. x.rows[j].table \in EngineeringTables /\ MadeBy(x.rows[j]) /\ x.rows[j].method \in {Manual, Worker, Resolver}
    BY <1>0 DEF Shape, IsRow, AnyRow, Sound, Makers
  <2>0. \A i \in S : x.rows[i].table = t /\ i \in Nat
    BY <1>0 DEF OfTable, Ids
  <2>2. x.rows[j].refs[f.col] # Null /\ x.rows[x.rows[j].refs[f.col]].table = t
    BY <1>1, <2>0, EvidenceAssumption
  <2>3. x.rows[x.rows[j].refs[f.col]].table = f.parent
    BY <1>0, <2>2, RefsLive
  <2>4. x.rows[j].table = "engineering_relation_candidates" /\ f.col = "canonical_relation_id"
    BY <2>1, <2>2, <2>3, KeyPlaces DEF Parents
  <2>5. x.rows[j].method = Manual
    BY <2>1, <2>4 DEF MadeBy, WorkerTables, ResolverTables
  <2>. QED BY <2>1, <2>2, <2>4, <2>5 DEF MadeBy
<1>2. \A j \in Live(x) : \A a : ~Refers(x, j, S, a)
  BY <1>1 DEF Refers
<1>3. Closed(x, S)
  BY <1>2 DEF Closed
<1>4. \A gone \in SUBSET Ids : Takes(x, S, gone) => gone = S
  BY <1>0, <1>3 DEF Takes
<1>5. ~Blocked(x, S)
  BY <1>2, <1>4 DEF Blocked
<1>. QED BY <1>4, <1>5

\* The relations with an end in S.
Ends(x, S) ==
  {j \in OfTable(x, "engineering_relations") :
     \E c \in {"source_entity_id", "target_entity_id"} : x.rows[j].refs[c] \in S}

\* Entities take the relations on them along, and nothing else. Only an optional
\* reference of a caller's refuses that.
LEMMA GoWithRelations ==
  ASSUME NEW x, Sound(x), NEW S \in SUBSET OfTable(x, "engineering_entities"),
         \A j \in OfTable(x, "engineering_entity_candidates") : x.rows[j].refs["canonical_entity_id"] \notin S
  PROVE  /\ \A gone \in SUBSET Ids : Takes(x, S, gone) => gone \subseteq S \cup Ends(x, S)
         /\ Blocked(x, S) => ManualReference(x)
<1>0. Shape(x) /\ KeysOk(x) /\ Makers(x) /\ S \in SUBSET Ids
  BY DEF Sound, OfTable, Live
<1>. DEFINE X == S \cup Ends(x, S)
<1>1. X \in SUBSET Ids /\ \A i \in X : i # Null /\ (i \in S => x.rows[i].table = "engineering_entities")
                                      /\ (i \notin S => x.rows[i].table = "engineering_relations")
  <2>1. \A i \in S : x.rows[i].table = "engineering_entities" /\ i \in Nat /\ i \in Ids
    BY <1>0 DEF OfTable, Ids
  <2>2. \A i \in Ends(x, S) : x.rows[i].table = "engineering_relations" /\ i \in Nat /\ i \in Ids
    BY <1>0 DEF OfTable, Live, Ends, Ids
  <2>. QED BY <2>1, <2>2, EvidenceAssumption
<1>2. ASSUME NEW j \in Live(x), NEW f \in ForeignKeys[x.rows[j].table], x.rows[j].refs[f.col] \in X
      PROVE  \/ j \in Ends(x, S) /\ f.ondelete # SetNull
             \/ f.ondelete = SetNull /\ x.rows[j].method = Manual
  <2>1. x.rows[j].table \in EngineeringTables /\ MadeBy(x.rows[j]) /\ x.rows[j].method \in {Manual, Worker, Resolver}
    BY <1>0 DEF Shape, IsRow, AnyRow, Makers
  <2>2. x.rows[j].refs[f.col] # Null
    BY <1>1, <1>2
  <2>3. x.rows[x.rows[j].refs[f.col]].table = f.parent
    BY <1>0, <2>2, RefsLive
  <2>4. CASE x.rows[j].refs[f.col] \notin S
    <3>1. x.rows[j].table = "engineering_relation_candidates" /\ f.col = "canonical_relation_id"
      BY <1>1, <1>2, <2>1, <2>3, <2>4, KeyPlaces
    <3>2. x.rows[j].method = Manual
      BY <2>1, <3>1 DEF MadeBy, WorkerTables, ResolverTables
    <3>. QED BY <2>1, <2>2, <3>1, <3>2 DEF MadeBy
  <2>5. CASE x.rows[j].refs[f.col] \in S
    <3>1. f.parent = "engineering_entities"
      BY <1>1, <2>3, <2>5
    <3>2. \/ x.rows[j].table = "engineering_relations" /\ f.ondelete = "CASCADE"
               /\ f.col \in {"source_entity_id", "target_entity_id"}
          \/ x.rows[j].table = "engineering_relation_candidates" /\ f.ondelete = SetNull
          \/ x.rows[j].table = "engineering_entity_candidates" /\ f.col = "canonical_entity_id"
          \/ x.rows[j].table = "plc_variables" /\ f.ondelete = SetNull
      BY <2>1, <3>1, KeyPlaces
    <3>3. CASE x.rows[j].table = "engineering_relations" /\ f.ondelete = "CASCADE"
               /\ f.col \in {"source_entity_id", "target_entity_id"}
      BY <2>5, <3>3, SetsNull DEF Ends, OfTable
    <3>4. CASE x.rows[j].table \in {"engineering_relation_candidates", "plc_variables"} /\ f.ondelete = SetNull
      BY <2>1, <3>4 DEF MadeBy, WorkerTables, ResolverTables
    <3>5. CASE x.rows[j].table = "engineering_entity_candidates" /\ f.col = "canonical_entity_id"
      BY <2>5, <3>5 DEF OfTable
    <3>. QED BY <3>2, <3>3, <3>4, <3>5
  <2>. QED BY <2>4, <2>5
<1>. HIDE DEF X
<1>3. Closed(x, X)
  <2>1. ASSUME NEW j \in Live(x), Refers(x, j, X, "CASCADE") PROVE j \in X
    <3>1. PICK f \in ForeignKeys[x.rows[j].table] : f.ondelete = "CASCADE" /\ x.rows[j].refs[f.col] \in X
      BY <2>1 DEF Refers
    <3>. QED BY <1>2, <3>1, SetsNull DEF X
  <2>. QED BY <2>1 DEF Closed
<1>4. ASSUME NEW gone \in SUBSET Ids, Takes(x, S, gone) PROVE gone \subseteq X
  BY <1>1, <1>3, <1>4 DEF Takes, X
<1>5. ASSUME Blocked(x, S) PROVE ManualReference(x)
  <2>1. PICK some \in SUBSET Ids, j \in Live(x) : Takes(x, S, some) /\ Refers(x, j, some, SetNull)
    BY <1>5 DEF Blocked
  <2>2. PICK f \in ForeignKeys[x.rows[j].table] : f.ondelete = SetNull /\ x.rows[j].refs[f.col] \in some
    BY <2>1 DEF Refers
  <2>3. x.rows[j].refs[f.col] \in X
    BY <1>4, <2>1, <2>2
  <2>4. x.rows[j].method = Manual /\ x.rows[j].refs[f.col] # Null
    BY <1>1, <1>2, <2>2, <2>3
  <2>. QED BY <2>2, <2>4 DEF ManualReference
<1>. QED BY <1>4, <1>5 DEF X

\* The step of the fold over the tables: q is the database at the start and the package.
ClearOp(q, x, t) ==
  delete([x EXCEPT !.bindings = {b \in @ : b[2] \notin MadeByResolver(q[1], t, q[2])}],
         MadeByResolver(q[1], t, q[2]))

Clears == INSTANCE PrefixFold WITH Op <- ClearOp

ClearsOf(q, s, b, g) ==
  /\ g[0] = b /\ \A k \in 1..Len(s) : g[k] = ClearOp(q, g[k-1], s[k])
  /\ Clears!Folded(q, s, b) = g[Len(s)]

\* The intermediate results of that fold.
LEMMA ClearsByPrefix ==
  ASSUME NEW q, NEW S, NEW s \in Seq(S), NEW b
  PROVE  \E g : ClearsOf(q, s, b, g)
BY Clears!ByPrefix DEF ClearsOf

\* Over three tables.
LEMMA ThreeSteps ==
  ASSUME NEW q, NEW b, NEW S, NEW s \in Seq(S), Len(s) = 3
  PROVE  Clears!Folded(q, s, b) = ClearOp(q, ClearOp(q, ClearOp(q, b, s[1]), s[2]), s[3])
<1>0. PICK g : ClearsOf(q, s, b, g)
  BY ClearsByPrefix
<1>1. /\ g[0] = b
      /\ Clears!Folded(q, s, b) = g[3]
  BY <1>0 DEF ClearsOf
<1>2. \A k \in 1..3 : g[k] = ClearOp(q, g[k-1], s[k])
  BY <1>0 DEF ClearsOf
<1>3. /\ g[1] = ClearOp(q, g[1-1], s[1]) /\ g[2] = ClearOp(q, g[2-1], s[2]) /\ g[3] = ClearOp(q, g[3-1], s[3])
  BY <1>2
<1>4. /\ g[1] = ClearOp(q, g[0], s[1]) /\ g[2] = ClearOp(q, g[1], s[2]) /\ g[3] = ClearOp(q, g[2], s[3])
  BY <1>3
<1>. QED BY <1>1, <1>4

\* The database with the resolver's candidates of package p detached.
Detached(d, p) ==
  [d EXCEPT !.rows = [i \in Ids |->
     IF i \in MadeByResolver(d, "engineering_entity_candidates", p)
       THEN [@[i] EXCEPT !.refs["canonical_entity_id"] = Null] ELSE @[i]]]

\* The order of the tables.
LEMMA TablesCleared ==
  /\ ClearedTables \in Seq(EngineeringTables) /\ Len(ClearedTables) = 3
  /\ ClearedTables[1] = "engineering_conflicts"
  /\ ClearedTables[2] = "engineering_entity_candidates" /\ ClearedTables[3] = "engineering_entities"
<1>1. {"engineering_conflicts", "engineering_entity_candidates", "engineering_entities"} \subseteq EngineeringTables
  BY MadeColumns DEF ResolverTables
<1>. QED BY <1>1 DEF ClearedTables

\* clear_package_identities as three deletes.
LEMMA ClearIs ==
  ASSUME NEW d, NEW p, NEW seen, NEW q, q = <<d, p>>
  PROVE  clear_package_identities(d, p, seen) =
           remove_evidence(ClearOp(q, ClearOp(q, ClearOp(q, Detached(d, p), "engineering_conflicts"),
                                              "engineering_entity_candidates"), "engineering_entities"),
                           Unused(d, p, seen))
<1>1. \A a, s : FoldLeft(LAMBDA x, t :
                   delete([x EXCEPT !.bindings = {b \in @ : b[2] \notin MadeByResolver(d, t, p)}],
                          MadeByResolver(d, t, p)),
                 a, s) = Clears!Folded(<<d, p>>, s, a)
  BY DEF FoldLeft, MapThenFoldSet, Max, Clears!Folded, Clears!Largest, ClearOp
<1>2. ClearedTables \in Seq(EngineeringTables) /\ Len(ClearedTables) = 3 /\ ClearedTables[1] = "engineering_conflicts"
      /\ ClearedTables[2] = "engineering_entity_candidates" /\ ClearedTables[3] = "engineering_entities"
  BY TablesCleared
<1>3. Clears!Folded(q, ClearedTables, Detached(d, p)) =
        ClearOp(q, ClearOp(q, ClearOp(q, Detached(d, p), "engineering_conflicts"),
                           "engineering_entity_candidates"), "engineering_entities")
  BY <1>2, ThreeSteps
<1>. QED BY <1>1, <1>3 DEF clear_package_identities, Detached

\* The resolver's rows of package p are out, with the relations on them.
Cleared(d, p, c) ==
  /\ Sound(c) /\ c.ok /\ c.full = d.full
  /\ Live(c) \subseteq Live(d) /\ Live(c) \cap Resolved(d, p) = {}
  /\ Live(d) \ Live(c) \subseteq Resolved(d, p) \cup Ends(d, MadeByResolver(d, "engineering_entities", p))
  /\ \A j \in Live(c) : c.rows[j] = d.rows[j]
  /\ c.evidence = d.evidence /\ c.bindings = {b \in d.bindings : b[2] \notin Resolved(d, p)}
  /\ c.package = d.package /\ c.machine = d.machine

\* The resolver's rows of a package, table by table.
LEMMA ResolvedIs ==
  ASSUME NEW d, NEW p
  PROVE  /\ Resolved(d, p) = MadeByResolver(d, "engineering_conflicts", p)
              \cup MadeByResolver(d, "engineering_entity_candidates", p) \cup MadeByResolver(d, "engineering_entities", p)
         /\ \A t : \A i : i \in MadeByResolver(d, t, p) <=>
              i \in OfTable(d, t) /\ Package(d, i) = p /\ d.rows[i].method = Resolver
<1>1. Range(ClearedTables) = {"engineering_conflicts", "engineering_entity_candidates", "engineering_entities"}
  <2>0. ClearedTables \in Seq(EngineeringTables) /\ Len(ClearedTables) = 3 /\ ClearedTables[1] = "engineering_conflicts"
        /\ ClearedTables[2] = "engineering_entity_candidates" /\ ClearedTables[3] = "engineering_entities"
    BY TablesCleared
  <2>1. /\ DOMAIN ClearedTables = 1..3 /\ ClearedTables[1] = "engineering_conflicts"
        /\ ClearedTables[2] = "engineering_entity_candidates" /\ ClearedTables[3] = "engineering_entities"
    BY <2>0
  <2>2. Range(ClearedTables) = {ClearedTables[1], ClearedTables[2], ClearedTables[3]}
    BY <2>1 DEF Range
  <2>. QED BY <2>1, <2>2
<1>. QED BY <1>1 DEF Resolved, MadeByResolver, InPackageOf, Package

\* Clearing is done, or refused on account of an optional reference of a caller's.
LEMMA ClearTables ==
  ASSUME NEW d, Sound(d), d.ok, NEW p, NEW q, q = <<d, p>>,
         NEW a, a = Detached(d, p), NEW b, b = ClearOp(q, a, "engineering_conflicts"),
         NEW c, c = ClearOp(q, b, "engineering_entity_candidates"), NEW e, e = ClearOp(q, c, "engineering_entities")
  PROVE  \/ IsDb(e) /\ ~e.ok /\ e.full = d.full /\ ManualReference(d)
         \/ Cleared(d, p, e)
<1>. DEFINE R1 == MadeByResolver(d, "engineering_conflicts", p)
            R2 == MadeByResolver(d, "engineering_entity_candidates", p)
            R3 == MadeByResolver(d, "engineering_entities", p)
<1>0. Shape(d) /\ KeysOk(d) /\ Makers(d) /\ IsDb(d)
  BY DEF Sound, Shape
<1>1. /\ \A i : i \in R1 <=> i \in OfTable(d, "engineering_conflicts") /\ Package(d, i) = p /\ d.rows[i].method = Resolver
      /\ \A i : i \in R2 <=> i \in OfTable(d, "engineering_entity_candidates") /\ Package(d, i) = p /\ d.rows[i].method = Resolver
      /\ \A i : i \in R3 <=> i \in OfTable(d, "engineering_entities") /\ Package(d, i) = p /\ d.rows[i].method = Resolver
      /\ Resolved(d, p) = R1 \cup R2 \cup R3
  BY ResolvedIs
<1>2. Relinks(d, a, R2, Null)
  <2>1. PICK r : r = [i \in Ids |-> IF i \in R2 THEN [d.rows[i] EXCEPT !.refs["canonical_entity_id"] = Null]
                                    ELSE d.rows[i]]
    OBVIOUS
  <2>2. a = [d EXCEPT !.rows = r]
    BY <2>1 DEF Detached
  <2>3. /\ IsDb(a) /\ a.rows = r
        /\ a.evidence = d.evidence /\ a.bindings = d.bindings /\ a.swept = d.swept
        /\ a.ok = d.ok /\ a.full = d.full /\ a.new = d.new /\ a.found = d.found
        /\ a.package = d.package /\ a.machine = d.machine /\ a.id = d.id
    BY <1>0, <2>2 DEF IsDb
  <2>. QED BY <2>1, <2>3 DEF Relinks
<1>20. b = delete([a EXCEPT !.bindings = {x \in @ : x[2] \notin R1}], R1)
  BY DEF ClearOp
<1>21. c = delete([b EXCEPT !.bindings = {x \in @ : x[2] \notin R2}], R2)
  BY DEF ClearOp
<1>22. e = delete([c EXCEPT !.bindings = {x \in @ : x[2] \notin R3}], R3)
  BY DEF ClearOp
<1>. HIDE DEF R1, R2, R3
<1>3. R2 \in SUBSET OfTable(d, "engineering_entity_candidates")
  BY <1>1
<1>4. Sound(a) /\ Alike(d, a, R2, Null)
  <2>1. \A i \in R2 : d.rows[i].method = Resolver
    BY <1>1
  <2>. QED BY <1>0, <1>2, <1>3, <2>1, RelinkSound, RelinkAlike
<1>5. /\ Live(a) = Live(d) /\ \A t : OfTable(a, t) = OfTable(d, t)
      /\ \A i \in Ids : i \notin R2 => a.rows[i] = d.rows[i]
      /\ a.ok /\ a.full = d.full /\ a.evidence = d.evidence /\ a.bindings = d.bindings
      /\ a.package = d.package /\ a.machine = d.machine
  BY <1>2, <1>4 DEF Alike, Relinks
<1>6. OutOf(a, R1, R1, b)
  <2>1. R1 \in SUBSET Live(a) /\ R1 \in SUBSET OfTable(a, "engineering_conflicts")
    BY <1>1, <1>5 DEF OfTable
  <2>2. \/ IsDb(b) /\ ~b.ok /\ b.full = a.full /\ Blocked(a, R1)
        \/ \E gone \in SUBSET Ids : OutOf(a, R1, gone, b)
    BY <1>4, <1>5, <1>20, <2>1, TakeOut
  <2>3. ~Blocked(a, R1) /\ \A gone \in SUBSET Ids : Takes(a, R1, gone) => gone = R1
    BY <1>4, <2>1, GoAlone DEF Parents
  <2>. QED BY <2>2, <2>3 DEF OutOf
<1>7. Sound(b) /\ Live(b) = Live(a) \ R1 /\ \A j \in Live(b) : b.rows[j] = a.rows[j]
  BY <1>4, <1>6, ShrinkSound DEF OutOf
<1>8. /\ b.ok /\ b.full = a.full /\ b.evidence = a.evidence /\ b.bindings = {x \in a.bindings : x[2] \notin R1}
      /\ b.package = a.package /\ b.machine = a.machine
  BY <1>6 DEF OutOf
<1>9. OutOf(b, R2, R2, c)
  <2>1. R2 \in SUBSET Live(b) /\ R2 \in SUBSET OfTable(b, "engineering_entity_candidates")
    <3>1. ASSUME NEW i \in R2 PROVE i \in Live(b) /\ b.rows[i].table = "engineering_entity_candidates"
      <4>1. i \in OfTable(a, "engineering_entity_candidates")
        BY <1>1, <1>5
      <4>2. i \notin R1
        BY <1>1 DEF OfTable
      <4>. QED BY <1>7, <4>1, <4>2 DEF OfTable
    <3>. QED BY <3>1 DEF OfTable
  <2>2. \/ IsDb(c) /\ ~c.ok /\ c.full = b.full /\ Blocked(b, R2)
        \/ \E gone \in SUBSET Ids : OutOf(b, R2, gone, c)
    <3>1. Sound(b) /\ b.ok /\ R2 \in SUBSET Live(b)
      BY <1>7, <1>8, <2>1
    <3>. QED BY <1>21, <3>1, TakeOut
  <2>3. ~Blocked(b, R2) /\ \A gone \in SUBSET Ids : Takes(b, R2, gone) => gone = R2
    BY <1>7, <2>1, GoAlone DEF Parents
  <2>. QED BY <2>2, <2>3 DEF OutOf
<1>10. Sound(c) /\ Live(c) = Live(b) \ R2 /\ \A j \in Live(c) : c.rows[j] = b.rows[j]
  BY <1>7, <1>9, ShrinkSound DEF OutOf
<1>11. /\ c.ok /\ c.full = b.full /\ c.evidence = b.evidence /\ c.bindings = {x \in b.bindings : x[2] \notin R2}
       /\ c.package = b.package /\ c.machine = b.machine
  BY <1>9 DEF OutOf
<1>12. Live(c) = Live(d) \ (R1 \cup R2) /\ \A j \in Live(c) : c.rows[j] = d.rows[j]
  BY <1>5, <1>7, <1>10 DEF Live
<1>13. R3 \in SUBSET Live(c) /\ R3 \in SUBSET OfTable(c, "engineering_entities")
  <2>1. ASSUME NEW i \in R3 PROVE i \in Live(c) /\ c.rows[i].table = "engineering_entities"
    <3>1. i \in Live(d) /\ d.rows[i].table = "engineering_entities"
      BY <1>1 DEF OfTable
    <3>2. i \notin R1 /\ i \notin R2
      BY <1>1, <3>1 DEF OfTable
    <3>. QED BY <1>12, <3>1, <3>2
  <2>. QED BY <2>1 DEF OfTable
<1>14. \A j \in OfTable(c, "engineering_entity_candidates") : c.rows[j].refs["canonical_entity_id"] \notin R3
  <2>1. SUFFICES ASSUME NEW j \in Live(d), j \notin R2, d.rows[j].table = "engineering_entity_candidates",
                        d.rows[j].refs["canonical_entity_id"] \in R3
                 PROVE  FALSE
    BY <1>12 DEF OfTable
  <2>2. d.rows[j].refs["canonical_entity_id"] # Null
    BY <1>1, <2>1, EvidenceAssumption DEF OfTable, Live, Ids
  <2>3. MadeBy(d.rows[j]) /\ OwnRefs(d, d.rows[j]) /\ d.rows[j].method \in {Manual, Worker, Resolver}
    BY <1>0 DEF Makers, Shape, IsRow, AnyRow
  <2>4. d.rows[j].method = Resolver
    BY <2>1, <2>2, <2>3 DEF MadeBy, WorkerTables
  <2>5. PICK f \in ForeignKeys["engineering_entity_candidates"] : f.col = "canonical_entity_id"
    BY MadeColumns DEF Columns
  <2>8. d.rows[j].method # Manual /\ d.rows[j].table = "engineering_entity_candidates"
    BY <2>1, <2>4 DEF Manual, Resolver
  <2>9. f.col # "package_id" /\ d.rows[j].refs[f.col] # Null
    BY <2>2, <2>5
  <2>6. Package(d, d.rows[j].refs[f.col]) = d.rows[j].refs["package_id"]
    BY <2>3, <2>5, <2>8, <2>9 DEF OwnRefs
  <2>7. Package(d, j) = p
    BY <1>1, <2>1, <2>5, <2>6 DEF Package
  <2>. QED BY <1>1, <2>1, <2>4, <2>7 DEF OfTable
<1>15. /\ \A gone \in SUBSET Ids : Takes(c, R3, gone) => gone \subseteq R3 \cup Ends(c, R3)
       /\ Blocked(c, R3) => ManualReference(c)
  BY <1>10, <1>13, <1>14, GoWithRelations
<1>16. \/ IsDb(e) /\ ~e.ok /\ e.full = c.full /\ Blocked(c, R3)
       \/ \E gone \in SUBSET Ids : OutOf(c, R3, gone, e)
  <2>1. Sound(c) /\ c.ok /\ R3 \in SUBSET Live(c)
    BY <1>10, <1>11, <1>13
  <2>. QED BY <1>22, <2>1, TakeOut
<1>17. ManualReference(c) => ManualReference(d)
  BY <1>12 DEF ManualReference
<1>18. ASSUME NEW gone \in SUBSET Ids, OutOf(c, R3, gone, e) PROVE Cleared(d, p, e)
  <2>1. gone \subseteq R3 \cup Ends(c, R3) /\ R3 \subseteq gone
    BY <1>15, <1>18 DEF OutOf, Takes
  <2>2. Sound(e) /\ Live(e) = Live(c) \ gone /\ \A j \in Live(e) : e.rows[j] = c.rows[j]
    BY <1>10, <1>18, ShrinkSound DEF OutOf
  <2>3. /\ e.ok /\ e.full = d.full /\ e.evidence = d.evidence /\ e.bindings = {x \in c.bindings : x[2] \notin R3}
        /\ e.package = d.package /\ e.machine = d.machine
    BY <1>5, <1>8, <1>11, <1>18 DEF OutOf
  <2>4. e.bindings = {x \in d.bindings : x[2] \notin Resolved(d, p)}
    BY <1>1, <1>5, <1>8, <1>11, <2>3
  <2>5. Ends(c, R3) \subseteq Ends(d, R3)
    BY <1>12 DEF Ends, OfTable
  <2>6. Live(e) \cap Resolved(d, p) = {} /\ Live(e) \subseteq Live(d) /\ \A j \in Live(e) : e.rows[j] = d.rows[j]
    BY <1>1, <1>12, <2>1, <2>2
  <2>7. Live(d) \ Live(e) \subseteq Resolved(d, p) \cup Ends(d, R3)
    BY <1>1, <1>12, <2>1, <2>2, <2>5
  <2>. QED BY <2>2, <2>3, <2>4, <2>6, <2>7 DEF Cleared, R3
<1>. QED BY <1>5, <1>8, <1>11, <1>15, <1>16, <1>17, <1>18

\* e is d without the evidence U and what it binds.
Without(d, U, e) ==
  /\ IsDb(e) /\ e.rows = d.rows /\ e.swept = d.swept /\ e.ok = d.ok /\ e.full = d.full
  /\ e.package = d.package /\ e.machine = d.machine
  /\ e.evidence = [x \in EvidenceIds |-> IF x \in U THEN Null ELSE d.evidence[x]]
  /\ e.bindings = {b \in d.bindings : b[1] \notin U}

\* What remove_evidence removes.
LEMMA RemovesEvidence ==
  ASSUME NEW d, IsDb(d), NEW U, NEW c, c = remove_evidence(d, U),
         NEW e, e = [c EXCEPT !.new = << >>, !.found = << >>]
  PROVE  Without(d, U, c) /\ Without(d, U, e) /\ e.new = << >> /\ e.found = << >>
<1>1. PICK v, w : v = [x \in EvidenceIds |-> IF x \in U THEN Null ELSE d.evidence[x]]
                  /\ w = {b \in d.bindings : b[1] \notin U}
  OBVIOUS
<1>2. c = [d EXCEPT !.evidence = v, !.bindings = w]
  BY <1>1 DEF remove_evidence
<1>3. /\ IsDb(c) /\ c.rows = d.rows /\ c.swept = d.swept /\ c.ok = d.ok /\ c.full = d.full
      /\ c.package = d.package /\ c.machine = d.machine /\ c.evidence = v /\ c.bindings = w
  BY <1>2 DEF IsDb
<1>4. /\ IsDb(e) /\ e.rows = c.rows /\ e.swept = c.swept /\ e.ok = c.ok /\ e.full = c.full
      /\ e.package = c.package /\ e.machine = c.machine /\ e.evidence = c.evidence /\ e.bindings = c.bindings
      /\ e.new = << >> /\ e.found = << >>
  BY <1>3 DEF IsDb
<1>. QED BY <1>1, <1>3, <1>4 DEF Without

\* That takes away, when no row goes with it.
LEMMA RemoveShrinks ==
  ASSUME NEW d, Sound(d), NEW U, NEW e, Without(d, U, e)
  PROVE  Shrinks(d, e)
<1>00. /\ IsDb(e) /\ e.rows = d.rows /\ e.swept = d.swept
       /\ e.evidence = [x \in EvidenceIds |-> IF x \in U THEN Null ELSE d.evidence[x]]
       /\ e.bindings = {b \in d.bindings : b[1] \notin U}
  BY DEF Without
<1>0. Shape(d) /\ Bound(d)
  BY DEF Sound
<1>1. e.rows \in [Ids -> AnyRow \cup {NoRow}] /\ \A j \in Ids : e.rows[j] \in {d.rows[j], NoRow}
  BY <1>00, <1>0 DEF Shape
<1>2. \A x \in EvidenceIds : e.evidence[x] \in {d.evidence[x], Null} /\ d.evidence[x] \in Docs \cup {Null}
  BY <1>00, <1>0 DEF Shape
<1>3. e.evidence \in [EvidenceIds -> Docs \cup {Null}]
  BY <1>00, <1>2
<1>4. ASSUME NEW b \in e.bindings PROVE e.evidence[b[1]] # Null /\ (e.rows[b[2]] = NoRow => b[2] \in e.swept)
  <2>1. b \in d.bindings /\ b[1] \notin U /\ b[1] \in EvidenceIds
    BY <1>00, <1>0 DEF Shape
  <2>2. e.evidence[b[1]] = d.evidence[b[1]]
    BY <1>00, <2>1
  <2>. QED BY <1>00, <1>0, <2>1, <2>2 DEF Bound
<1>5. Live(e) = Live(d)
  BY <1>00 DEF Live
<1>6. e.bindings \subseteq d.bindings /\ e.swept \subseteq Ids
  BY <1>00, <1>0 DEF Shape
<1>. QED BY <1>00, <1>1, <1>2, <1>3, <1>4, <1>5, <1>6 DEF Shrinks

\* The DELETE of unused evidence saw every binding that an archive's rows rely on.
Sees(doc, seen) ==
  \A b \in bindings : evidence[b[1]] = doc /\ rows[b[2]] # NoRow /\ ~rows[b[2]].raced => b \in seen

\* clear_package_identities is refused or leaves what the resolver did not make for
\* the package, on all its evidence.
LEMMA ClearStep ==
  ASSUME NEW doc \in Docs, NEW d, Stage(doc, d, Live(Db)), Worked(d), NEW seen, Sees(doc, seen),
         NEW c, c = clear_package_identities(d, d.package, seen),
         NEW e, e = [c EXCEPT !.new = << >>, !.found = << >>]
  PROVE  \/ Broken(e)
         \/ /\ Stage(doc, e, Live(Db) \cap Live(e)) /\ Steady(d, e) /\ e.new = << >> /\ e.found = << >>
<1>. DEFINE p == d.package
            q == <<d, p>>
            U == Unused(d, p, seen)
            R == Resolved(d, p)
            R3 == MadeByResolver(d, "engineering_entities", p)
            Old == Live(Db)
            New == Live(Db) \cap Live(e)
<1>0. /\ Sound(d) /\ Grown(doc, d, Old) /\ d.ok /\ Coherent(d) /\ For(doc, d, p) /\ Only(doc, d) /\ Machined(d)
      /\ Shape(d) /\ KeysOk(d) /\ Bound(d) /\ Makers(d) /\ OwnEvidence(d)
  BY DEF Stage, Going, Sound
<1>1. PICK a : a = Detached(d, p)
  OBVIOUS
<1>2. PICK b : b = ClearOp(q, a, "engineering_conflicts")
  OBVIOUS
<1>3. PICK z : z = ClearOp(q, b, "engineering_entity_candidates")
  OBVIOUS
<1>4. PICK x : x = ClearOp(q, z, "engineering_entities")
  OBVIOUS
<1>5. c = remove_evidence(x, U)
  BY <1>1, <1>2, <1>3, <1>4, ClearIs
<1>6. \/ IsDb(x) /\ ~x.ok /\ x.full = d.full /\ ManualReference(d)
      \/ Cleared(d, p, x)
  BY <1>0, <1>1, <1>2, <1>3, <1>4, ClearTables
<1>. HIDE DEF p, q, U, R, R3, Old, New
<1>7. IsDb(x)
  BY <1>6 DEF Cleared, Sound, Shape
<1>8. /\ IsDb(e) /\ e.rows = x.rows /\ e.swept = x.swept /\ e.ok = x.ok /\ e.full = x.full
      /\ e.package = x.package /\ e.machine = x.machine
      /\ e.evidence = [y \in EvidenceIds |-> IF y \in U THEN Null ELSE x.evidence[y]]
      /\ e.bindings = {y \in x.bindings : y[1] \notin U} /\ e.new = << >> /\ e.found = << >>
  <2>1. Without(x, U, e) /\ e.new = << >> /\ e.found = << >>
    BY <1>5, <1>7, RemovesEvidence
  <2>. QED BY <2>1 DEF Without
<1>9. ASSUME ManualReference(d) PROVE ManualReference(Db)
  <2>1. PICK i \in Live(d) : d.rows[i].method = Manual /\
          \E f \in ForeignKeys[d.rows[i].table] : f.ondelete = SetNull /\ d.rows[i].refs[f.col] # Null
    BY <1>9 DEF ManualReference
  <2>2. i \in Live(Db) /\ Db.rows[i] = d.rows[i]
    BY <1>0, <2>1 DEF Grown, Old, Db
  <2>. QED BY <2>1, <2>2 DEF ManualReference
<1>10. CASE IsDb(x) /\ ~x.ok /\ ManualReference(d)
  BY <1>8, <1>9, <1>10 DEF Broken
<1>11. CASE Cleared(d, p, x)
  <2>0. /\ Sound(x) /\ x.ok
        /\ Live(x) \subseteq Live(d) /\ Live(x) \cap R = {}
        /\ Live(d) \ Live(x) \subseteq R \cup Ends(d, R3)
        /\ \A j \in Live(x) : x.rows[j] = d.rows[j]
        /\ x.evidence = d.evidence /\ x.bindings = {y \in d.bindings : y[2] \notin R}
        /\ x.package = d.package /\ x.machine = d.machine
    BY <1>11 DEF Cleared, R, R3
  <2>1. Live(e) = Live(x) /\ e.rows = x.rows
    BY <1>8 DEF Live
  <2>2. Sound(e)
    <3>1. Without(x, U, e)
      BY <1>5, <1>7, RemovesEvidence
    <3>2. Sound(x)
      BY <2>0
    <3>3. Shrinks(x, e)
      BY <3>1, <3>2, RemoveShrinks
    <3>. QED BY <3>2, <3>3, ShrinkSound
  <2>3. \A y : y \in e.bindings <=> y \in d.bindings /\ y[2] \notin R /\ y[1] \notin U
    BY <1>8, <2>0
  <2>4. \A i : \A y : y \in EvidenceOf(e, i) <=> y \in EvidenceOf(d, i) /\ i \notin R /\ y \notin U
    <3>1. ASSUME NEW i, NEW y, y \in EvidenceOf(e, i) PROVE y \in EvidenceOf(d, i) /\ i \notin R /\ y \notin U
      BY <2>3, <3>1 DEF EvidenceOf
    <3>2. ASSUME NEW i, NEW y, y \in EvidenceOf(d, i), i \notin R, y \notin U PROVE y \in EvidenceOf(e, i)
      BY <2>3, <3>2 DEF EvidenceOf
    <3>. QED BY <3>1, <3>2
  <2>5. \A i : i \in R => /\ i \in Live(d) /\ d.rows[i].method = Resolver /\ Package(d, i) = p
                          /\ d.rows[i].table \in ResolverTables
    BY ResolvedIs DEF R, OfTable, ResolverTables
  <2>6. \A i \in R3 : i \in R
    BY ResolvedIs DEF R, R3
  <2>7. \A i \in Ends(d, R3) : i \in Live(d) /\ d.rows[i].table = "engineering_relations" /\ d.rows[i].method = Manual
    <3>1. ASSUME NEW i \in Live(d), d.rows[i].table = "engineering_relations" PROVE d.rows[i].method = Manual
      BY <1>0, <3>1 DEF Makers, MadeBy, Shape, IsRow, AnyRow, WorkerTables, ResolverTables
    <3>. QED BY <3>1 DEF Ends, OfTable
  <2>8. \A i \in Live(d) \ Old : d.rows[i].method = Worker
    BY DEF Worked, Old
  <2>9. \A i \in Live(d) \ Old : i \in Live(e) /\ i \notin R
    BY <2>0, <2>1, <2>5, <2>7, <2>8 DEF Manual, Worker, Resolver
  <2>10. \A i \in R : i \in Old /\ d.rows[i] = rows[i]
    BY <1>0, <2>5, <2>8 DEF Grown, Worker, Resolver
  <2>11. \A y \in U : d.evidence[y] = doc /\ y \in EvidenceIds /\ (\A t \in seen : t[1] = y => t[2] \in R)
                      /\ \E i \in R : y \in EvidenceOf(d, i)
    <3>1. ASSUME NEW y \in U
          PROVE  y \in UNION {EvidenceOf(d, i) : i \in R} /\ \A t \in seen : t[1] = y => t[2] \in R
      BY DEF U, Unused, R
    <3>2. ASSUME NEW i \in R, NEW y \in EvidenceOf(d, i) PROVE d.evidence[y] = doc /\ y \in EvidenceIds
      <4>1. d.evidence[y] = d.rows[Package(d, i)].code
        BY <1>0, <2>5 DEF OwnEvidence
      <4>2. d.rows[p].code = doc
        BY <1>0 DEF For
      <4>3. y \in EvidenceIds
        BY <1>0 DEF EvidenceOf, Shape
      <4>. QED BY <2>5, <4>1, <4>2, <4>3
    <3>. QED BY <3>1, <3>2
  <2>12. \A j \in Live(e) : j \in Live(d) /\ j \in Ids /\ e.rows[j] = d.rows[j] /\ j \notin R
    BY <2>0, <2>1 DEF Live
  <2>13. Live(e) \ New = Live(d) \ Old
    BY <2>9, <2>12 DEF New, Old
  <2>14. Grown(doc, e, New)
    <3>1. New \subseteq Live(Db) \cap Live(e)
      BY DEF New
    <3>2. ASSUME NEW i \in New
          PROVE  e.rows[i] = rows[i] /\ (~rows[i].raced => EvidenceOf(e, i) = EvidenceOf(Db, i))
      <4>1. i \in Old /\ e.rows[i] = rows[i] /\ i \notin R /\ i \in Live(Db)
        BY <1>0, <2>12 DEF New, Old, Grown
      <4>2. ASSUME ~rows[i].raced PROVE EvidenceOf(e, i) = EvidenceOf(Db, i)
        <5>1. EvidenceOf(d, i) = EvidenceOf(Db, i)
          BY <1>0, <4>1, <4>2 DEF Grown
        <5>2. ASSUME NEW y \in EvidenceOf(Db, i), y \in U PROVE FALSE
          <6>1. <<y, i>> \in d.bindings
            <7>1. PICK t \in d.bindings : t[1] = y /\ t[2] = i
              BY <5>1, <5>2 DEF EvidenceOf
            <7>2. t = <<y, i>>
              BY <1>0, <7>1 DEF Shape
            <7>. QED BY <7>1, <7>2
          <6>2. <<y, i>> \in bindings /\ d.evidence[y] = evidence[y]
            <7>1. LET t == <<y, i>> IN t[1] = y /\ t[2] = i /\ t[2] \notin Live(d) \ Old
              BY <4>1
            <7>. QED BY <1>0, <6>1, <7>1 DEF Grown
          <6>3. evidence[y] = doc /\ rows[i] # NoRow
            BY <2>11, <4>1, <5>2, <6>2 DEF Live, Db
          <6>4. <<y, i>> \in seen
            <7>1. LET t == <<y, i>> IN t[1] = y /\ t[2] = i
              OBVIOUS
            <7>. QED BY <4>2, <6>2, <6>3, <7>1 DEF Sees
          <6>5. LET t == <<y, i>> IN t[1] = y /\ t[2] = i
            OBVIOUS
          <6>. QED BY <2>11, <4>1, <5>2, <6>4, <6>5
        <5>. QED BY <2>4, <4>1, <5>1, <5>2
      <4>. QED BY <4>1, <4>2
    <3>3. ASSUME NEW i \in Live(Db) \ New PROVE Clearable(i)
      <4>1. CASE i \notin Live(d)
        BY <1>0, <4>1, <3>3 DEF Grown, Old
      <4>2. CASE i \in Live(d)
        <5>1. i \in R \/ i \in Ends(d, R3)
          BY <2>0, <2>1, <3>3, <4>2 DEF New
        <5>2. CASE i \in R
          BY <2>5, <2>10, <5>2 DEF Clearable
        <5>3. CASE i \in Ends(d, R3)
          <6>1. i \in Old /\ d.rows[i] = rows[i] /\ Db.rows = rows
            BY <1>0, <3>3 DEF Grown, Old, Db
          <6>2. PICK k \in {"source_entity_id", "target_entity_id"} : d.rows[i].refs[k] \in R3
            BY <5>3 DEF Ends
          <6>3. d.rows[i].refs[k] \in R /\ Db.rows[rows[i].refs[k]].method = Resolver
            BY <2>5, <2>6, <2>10, <6>1, <6>2
          <6>4. rows[i].table = "engineering_relations"
            BY <2>7, <5>3, <6>1
          <6>. QED BY <6>3, <6>4 DEF Clearable, OnResolved
        <5>. QED BY <5>1, <5>2, <5>3
      <4>. QED BY <4>1, <4>2
    <3>4. ASSUME NEW y, NewOnly(d, Old, y) PROVE y \notin U /\ NewOnly(e, New, y)
      <4>1. ASSUME y \in U PROVE FALSE
        <5>1. PICK i \in R : y \in EvidenceOf(d, i)
          BY <2>11, <4>1
        <5>2. PICK t \in d.bindings : t[1] = y /\ t[2] = i
          BY <5>1 DEF EvidenceOf
        <5>3. i \in Live(d) \ Old
          BY <3>4, <5>2 DEF NewOnly
        <5>. QED BY <2>9, <5>3
      <4>2. NewOnly(e, New, y)
        BY <2>3, <2>13, <3>4 DEF NewOnly
      <4>. QED BY <4>1, <4>2
    <3>5. ASSUME NEW i \in Live(e) \ New
          PROVE  /\ i \notin Noted /\ e.rows[i].method # Manual /\ ~e.rows[i].raced
                 /\ Grounds(e.rows[i].table) => \E y \in EvidenceOf(e, i) : NewOnly(e, New, y)
      <4>1. i \in Live(d) \ Old /\ e.rows[i] = d.rows[i] /\ i \notin R
        BY <2>12, <2>13
      <4>2. /\ i \notin Noted /\ d.rows[i].method # Manual /\ ~d.rows[i].raced
            /\ Grounds(d.rows[i].table) => \E y \in EvidenceOf(d, i) : NewOnly(d, Old, y)
        BY <1>0, <4>1 DEF Grown
      <4>. QED BY <2>4, <3>4, <4>1, <4>2
    <3>6. ASSUME NEW t \in e.bindings
          PROVE  IF t[2] \in Live(e) \ New THEN e.evidence[t[1]] = doc
                 ELSE t \in bindings /\ e.evidence[t[1]] = evidence[t[1]]
      <4>1. t \in d.bindings /\ t[1] \notin U /\ t[1] \in EvidenceIds
        BY <1>0, <2>3 DEF Shape
      <4>2. e.evidence[t[1]] = d.evidence[t[1]]
        BY <1>8, <2>0, <4>1
      <4>. QED BY <1>0, <2>13, <4>1, <4>2 DEF Grown
    <3>. QED BY <3>1, <3>2, <3>3, <3>5, <3>6 DEF Grown
  <2>15. Sides(e)
    <3>1. SUFFICES ASSUME NEW i \in OfTable(e, "engineering_conflicts"), e.rows[i].method = Resolver,
                          NEW s \in Range(e.rows[i].sides)
                   PROVE  /\ s \in Live(e) /\ e.rows[s].method = Resolver /\ Package(e, s) = Package(e, i)
                          /\ e.rows[s].table # "engineering_conflicts"
      BY DEF Sides
    <3>2. i \in OfTable(d, "engineering_conflicts") /\ e.rows[i] = d.rows[i] /\ i \notin R
      BY <2>12 DEF OfTable
    <3>3. /\ s \in Live(d) /\ d.rows[s].method = Resolver /\ Package(d, s) = Package(d, i)
          /\ d.rows[s].table # "engineering_conflicts"
      BY <1>0, <3>1, <3>2 DEF Coherent, Sides
    <3>4. Package(d, i) # p
      BY <3>1, <3>2, ResolvedIs DEF R
    <3>5. s \in Live(e)
      BY <2>0, <2>1, <2>5, <2>7, <3>3, <3>4 DEF Resolver, Manual
    <3>. QED BY <2>12, <3>2, <3>3, <3>5 DEF Package
  <2>16. Standing(e)
    <3>1. SUFFICES ASSUME NEW i \in OfTable(e, "engineering_entities"), e.rows[i].method = Resolver
                   PROVE  Stands(e, i)
      BY DEF Standing
    <3>2. i \in OfTable(d, "engineering_entities") /\ e.rows[i] = d.rows[i] /\ i \notin R /\ i # Null
      BY <2>12, EvidenceAssumption DEF OfTable, Ids
    <3>3. Package(d, i) # p
      BY <3>1, <3>2, ResolvedIs DEF R
    <3>4. ASSUME NEW y \in Merged(d, i) PROVE y \in Live(e) /\ e.rows[y] = d.rows[y] /\ y \notin R
      <4>1. y \in Live(d) /\ d.rows[y].table = "engineering_entity_candidates"
            /\ d.rows[y].refs["canonical_entity_id"] = i
        BY DEF Merged, OfTable
      <4>2. MadeBy(d.rows[y]) /\ OwnRefs(d, d.rows[y]) /\ d.rows[y].method \in {Manual, Worker, Resolver}
        BY <1>0, <4>1 DEF Makers, Shape, IsRow, AnyRow
      <4>3. d.rows[y].method = Resolver
        BY <3>2, <4>1, <4>2 DEF MadeBy, WorkerTables
      <4>4. PICK f \in ForeignKeys["engineering_entity_candidates"] : f.col = "canonical_entity_id"
        BY MadeColumns DEF Columns
      <4>5. Package(d, i) = d.rows[y].refs["package_id"]
        BY <3>2, <4>1, <4>2, <4>3, <4>4 DEF OwnRefs, Manual, Resolver
      <4>6. y \notin R
        BY <2>5, <3>3, <4>5 DEF Package
      <4>7. y \in Live(e)
        BY <2>0, <2>1, <2>7, <4>1, <4>6
      <4>. QED BY <2>12, <4>6, <4>7
    <3>5. \A y : y \in Merged(e, i) <=> y \in Merged(d, i)
      BY <2>12, <3>4 DEF Merged, OfTable
    <3>6. Stands(d, i)
      BY <1>0, <3>1, <3>2 DEF Coherent, Standing
    <3>7. ASSUME NEW y PROVE y \in EvidenceOf(e, i) <=> \E m \in Merged(e, i) : y \in EvidenceOf(e, m)
      BY <2>4, <3>2, <3>4, <3>5, <3>6 DEF Stands
    <3>. QED BY <3>7 DEF Stands
  <2>17. Steady(d, e)
    <3>1. ASSUME NEW j \in Live(d), d.rows[j].table \in WorkerTables PROVE j \in Live(e)
      BY <2>0, <2>1, <2>5, <2>7, <3>1 DEF WorkerTables, ResolverTables
    <3>. QED BY <1>8, <2>0, <2>12, <3>1 DEF Steady
  <2>18. For(doc, e, e.package) /\ Only(doc, e) /\ Machined(e)
    BY <1>0, <2>17, SteadyKeeps DEF p
  <2>19. Lists(doc, e, New)
    <3>1. << >> \in Seq(Ids) /\ << >> \in Seq(EvidenceIds) /\ Range(<< >>) = {}
      BY DEF Range
    <3>. QED BY <1>8, <3>1 DEF Lists
  <2>20. e.ok
    BY <1>8, <2>0
  <2>. QED BY <1>8, <2>2, <2>14, <2>15, <2>16, <2>17, <2>18, <2>19, <2>20 DEF Stage, Going, Coherent, New
<1>. QED BY <1>6, <1>10, <1>11
=============================================================================
