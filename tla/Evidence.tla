------------------------------ MODULE Evidence ------------------------------
(****************************************************************************)
(* The engineering rows of one tenant and the evidence they stand on:       *)
(* app/services/engineering.py and app/services/identity_resolution.py.     *)
(*                                                                          *)
(* A row refers to other rows through the foreign keys that the ORM         *)
(* declares (OrmSchema), and a delete does what those foreign keys say.     *)
(* A binding ties a piece of evidence to a row by the row's id; no foreign  *)
(* key goes from a binding to the row, so what removes a row whose last     *)
(* evidence goes is code: drop_document_evidence.                           *)
(*                                                                          *)
(* Each operation runs in a transaction of its caller. The worker's attempt *)
(* and the delete of a document hold FOR UPDATE on the document, which      *)
(* stops whoever inserts a row with a foreign key to it, and nobody else.   *)
(* They are split where another transaction can come between: a delete      *)
(* reads the rows that the document's evidence supports, removes the        *)
(* evidence and decides which of them go, and commits; an attempt decides   *)
(* which evidence of its last resolution nothing else uses, and commits.    *)
(****************************************************************************)
EXTENDS Naturals, FiniteSets, Sequences, SequencesExt

CONSTANTS
  Docs,           \* documents of the tenant
  Coded,          \* archives whose member names carry a machine code
  Readings,       \* what extract_mentions may find in the members of each
                  \* archive; empty for a document that is not an archive
  MaxId,          \* bound: rows at once
  MaxEvidence,    \* bound: evidence references at once
  MaxManual,      \* bound: rows at once that callers wrote, those with stray bindings too
  MaxSpare,       \* bound: evidence at once that supports nothing yet
  Null,           \* SQL NULL
  NoRow,          \* the id is not in use
  Lost            \* adapter.json went with a delete that did not commit

ASSUME EvidenceAssumption ==
  /\ Coded \subseteq Docs
  /\ Readings \in [Docs -> SUBSET Seq([name : STRING, role : {"current", "mention", "superseded"},
                                      comment : STRING \cup {Null}, value : STRING,
                                      zone : STRING \cup {Null}])]
  /\ MaxId \in Nat /\ MaxEvidence \in Nat /\ MaxManual \in Nat /\ MaxSpare \in Nat
  /\ Null \notin Nat \cup Docs /\ Lost \notin Nat \cup {Null}

VARIABLES
  rows,           \* id -> row, NoRow when the id is free
  evidence,       \* evidence id -> the document it locates, Null when free
  bindings,       \* pairs <<evidence id, row id>>
  recorded,       \* document -> the package id in its adapter.json
  deleted,        \* documents with deleted_at
  held,           \* document -> what the transaction that holds it has read
  swept,          \* history: bound rows that a foreign key took along
  refusal         \* the operation that a foreign key refused last, if the last did

vars == <<rows, evidence, bindings, recorded, deleted, held, swept, refusal>>

Orm == INSTANCE OrmSchema

Ids == 1..MaxId
EvidenceIds == 1..MaxEvidence

----------------------------------------------------------------------------
(* The tables and the foreign keys between them. *)

\* Outside: rows that are never deleted while this tenant exists (a document is
\* marked deleted, its row stays) and the evidence itself.
Outside == {"tenants", "documents", "chunks", "evidence_references"}

EngineeringTables ==
  {t \in DOMAIN Orm!OrmTables : t \notin Outside \cup
     {"document_profiles", "document_relations", "ingestion_jobs", "evidence_bindings"}}

\* The foreign keys of table t inside the engineering tables. A composite key
\* that is set to null loses tenant_id with it, which is NOT NULL.
ForeignKeys ==
  [t \in EngineeringTables |->
    {[col |-> Last(fk.cols),
      parent |-> fk.parent,
      packaged |-> "package_id" \in Range(fk.cols) /\ Last(fk.cols) # "package_id",
      required |-> Last(fk.cols) \in Orm!OrmTables[t].required,
      ondelete |-> fk.ondelete,
      nullable |-> Range(fk.cols) \subseteq Orm!OrmTables[t].optional]
     : fk \in {g \in Range(Orm!OrmTables[t].foreign) : g.parent \notin Outside}}]

Columns(t) == {f.col : f \in ForeignKeys[t]}

SetNull == "SET NULL"

\* _GROUNDED_SUBJECTS, in the order in which they are dropped.
GROUNDED_SUBJECTS ==
  <<"engineering_relations", "engineering_relation_candidates", "derived_behavior_claims",
    "engineering_conflicts", "unsupported_constructs", "engineering_entity_candidates",
    "package_assignments", "engineering_entities">>

Grounds(t) == t \in Range(GROUNDED_SUBJECTS)

Manual == "manual"
Resolver == "resolver"                 \* RESOLVER_METHOD and EXTRACTOR_METHOD
Worker == "worker"                     \* made by the attempt around the resolution

\* refs: the row's foreign keys; doc: its document, if it names one; sides: the
\* two subjects a conflict names, which are plain ids and no foreign keys; code:
\* what the rows of a package are looked up by.
\* raced (history): its evidence was being removed when it was written.
Row(t, refs) ==
  [table |-> t, refs |-> [c \in Columns(t) |-> IF c \in DOMAIN refs THEN refs[c] ELSE Null],
   doc |-> Null, method |-> Manual, sides |-> << >>, code |-> Null, raced |-> FALSE]

ResolverRow(t, refs) == [Row(t, refs) EXCEPT !.method = Resolver]
WorkerRow(t, refs) == [Row(t, refs) EXCEPT !.method = Worker]

Codes == Docs \cup STRING \cup {Null}

\* What a row can be: none is the absence of a row.
AnyRow ==
  [table : EngineeringTables,
   refs : UNION {[Columns(t) -> Ids \cup {Null}] : t \in EngineeringTables},
   doc : Docs \cup {Null}, method : {Manual, Resolver, Worker}, sides : Seq(Ids),
   code : Codes, raced : BOOLEAN]

ASSUME NoRowIsNoRow == NoRow \notin AnyRow

----------------------------------------------------------------------------
(* Statements over a database d: the tables, ok (no statement failed), full  *)
(* (a bound was reached), the rows and evidence this transaction made, the   *)
(* row its last statement found or made, and the package and machine it      *)
(* works on. A statement after a failed one does nothing.                    *)

Db == [rows |-> rows, evidence |-> evidence, bindings |-> bindings, swept |-> swept,
       ok |-> TRUE, full |-> FALSE, new |-> << >>, found |-> << >>,
       id |-> Null, package |-> Null, machine |-> Null]

Live(d) == {i \in Ids : d.rows[i] # NoRow}
OfTable(d, t) == {i \in Live(d) : d.rows[i].table = t}
InPackageOf(d, t, p) == {i \in OfTable(d, t) : d.rows[i].refs["package_id"] = p}
EvidenceOf(d, s) == {b[1] : b \in {c \in d.bindings : c[2] = s}}

\* The rows that refer to a row of S through a foreign key with this action.
Referring(d, S, action) ==
  {i \in Live(d) : \E f \in ForeignKeys[d.rows[i].table] :
     f.ondelete = action /\ d.rows[i].refs[f.col] \in S}

Cascade(d, S) == S \cup Referring(d, S, "CASCADE")

\* Referential actions fire in waves: the rows a wave deletes queue the actions
\* of the next. Setting a composite key to null is refused by NOT NULL, unless
\* the row has gone by the end of its wave. Restrict refuses at once.
Refused(d, S, gone) ==
  (Referring(d, S, SetNull) \cup Referring(d, S, "RESTRICT")) \ gone # {}

\* The wave that follows w, in a delete from database d.
Wave(d, w) ==
  [gone |-> Cascade(d, w.gone), refused |-> w.refused \/ Refused(d, w.gone, Cascade(d, w.gone))]

Deleted(d, S, w) ==
  IF w.refused THEN [d EXCEPT !.ok = FALSE]
  ELSE [d EXCEPT !.rows = [i \in Ids |-> IF i \in w.gone THEN NoRow ELSE @[i]],
                 !.swept = @ \cup ((w.gone \ S) \cap {b[2] : b \in d.bindings})]

\* DELETE of the rows S, with everything the foreign keys take along: no chain of
\* cascades is longer than the four tables from a package to a PLC reference.
delete(d, S) ==
  IF ~d.ok \/ S = {} THEN d
  ELSE Deleted(d, S, FoldLeft(LAMBDA w, k : Wave(d, w), [gone |-> S, refused |-> FALSE], <<1, 2, 3, 4>>))

\* Ids nothing remembers: a row's id is a fresh UUID.
Mentioned(d) ==
  Live(d) \cup {b[2] : b \in d.bindings} \cup Range(recorded)
  \cup (UNION {Range(d.rows[i].sides) : i \in Live(d)}) \cup (UNION {held[x].rows : x \in Docs})
FreshIds(d) == Ids \ Mentioned(d)
FreshEvidence(d) == {e \in EvidenceIds : d.evidence[e] = Null}

\* INSERT, flush, _bind, flush. Running out of ids is running out of the bound.
\* Ids are arbitrary: callers take theirs from the top, the worker from below.
insert(d, row, evs) ==
  IF ~d.ok THEN d
  ELSE IF FreshIds(d) = {} THEN [d EXCEPT !.ok = FALSE, !.full = TRUE]
  ELSE LET i == IF row.method = Manual THEN Max(FreshIds(d)) ELSE Min(FreshIds(d))
       IN  [d EXCEPT !.rows[i] = row, !.bindings = @ \cup (evs \X {i}), !.new = Append(@, i), !.id = i]

\* The row of these that is there, or else a new one.
Ensured(d, have, row) ==
  IF ~d.ok THEN d ELSE IF have # {} THEN [d EXCEPT !.id = Min(have)] ELSE insert(d, row, {})

\* record_evidence for a complete locator (see LocatorsAgree) on a document.
record(d, doc, method) ==
  IF ~d.ok THEN d
  ELSE IF FreshEvidence(d) = {} THEN [d EXCEPT !.ok = FALSE, !.full = TRUE]
  ELSE LET e == IF method = Manual THEN Max(FreshEvidence(d)) ELSE Min(FreshEvidence(d))
       IN  [d EXCEPT !.evidence[e] = doc, !.found = Append(@, e)]

\* A row on the evidence that was recorded last.
OnLast(d, row) == insert(d, row, {Last(d.found)})

----------------------------------------------------------------------------
(* drop_document_evidence and clear_package_identities. *)

\* Rows that the evidence of a document supports, as read at the start.
affected(d, doc) == {b[2] : b \in {c \in d.bindings : d.evidence[c[1]] = doc}}

\* Evidence goes, and its bindings by their foreign key.
remove_evidence(d, gone) ==
  [d EXCEPT !.evidence = [e \in EvidenceIds |-> IF e \in gone THEN Null ELSE @[e]],
            !.bindings = {b \in @ : b[1] \notin gone}]

EvidenceAt(d, doc) == {e \in EvidenceIds : d.evidence[e] = doc}

\* Mutant: a subject goes with the first piece of evidence it loses.
unbound_FirstLoss(d, doc, ids) == ids

\* Mutant: what another document supports is looked for before this one's goes.
unbound_TooEarly(d, doc, ids) == {i \in ids : EvidenceOf(d, i) = {}}

\* Of the rows that were read, those that no other evidence supports.
unbound(d, doc, ids) == {i \in ids : EvidenceOf(d, i) \subseteq EvidenceAt(d, doc)}

\* Mutant: entities go before the candidates that refer to them.
drop_document_evidence_EntitiesFirst(d, doc, goes) ==
  FoldLeft(LAMBDA x, t : delete(x, goes \cap OfTable(x, t)),
           remove_evidence(d, EvidenceAt(d, doc)), Reverse(GROUNDED_SUBJECTS))

drop_document_evidence(d, doc, goes) ==
  FoldLeft(LAMBDA x, t : delete(x, goes \cap OfTable(x, t)),
           remove_evidence(d, EvidenceAt(d, doc)), GROUNDED_SUBJECTS)

ClearedTables ==
  <<"engineering_conflicts", "engineering_entity_candidates", "engineering_entities">>

\* Mutant: what a human wrote is cleared as well.
MadeByResolver_OrNot(d, t, p) == InPackageOf(d, t, p)

MadeByResolver(d, t, p) == {i \in InPackageOf(d, t, p) : d.rows[i].method = Resolver}

Resolved(d, p) == UNION {MadeByResolver(d, t, p) : t \in Range(ClearedTables)}

\* The evidence of those rows, and what of it the bindings seen by the DELETE
\* leave unused once the rows' own bindings are gone.
Unused(d, p, seen) ==
  {e \in UNION {EvidenceOf(d, i) : i \in Resolved(d, p)} :
     \A b \in seen : b[1] = e => b[2] \in Resolved(d, p)}

\* Mutant: conflicts outlive the rows they name.
clear_package_identities_ConflictsStay(d, p, seen) ==
  LET detached ==
        [d EXCEPT !.rows = [i \in Ids |->
           IF i \in MadeByResolver(d, "engineering_entity_candidates", p)
             THEN [@[i] EXCEPT !.refs["canonical_entity_id"] = Null] ELSE @[i]]]
      cleared ==
        FoldLeft(LAMBDA x, t : delete(x, MadeByResolver(d, t, p)),
                 [detached EXCEPT !.bindings = {b \in @ : b[2] \notin Resolved(d, p)}],
                 Tail(ClearedTables))
  IN  remove_evidence(cleared, Unused(d, p, seen))

clear_package_identities(d, p, seen) ==
  LET detached ==
        [d EXCEPT !.rows = [i \in Ids |->
           IF i \in MadeByResolver(d, "engineering_entity_candidates", p)
             THEN [@[i] EXCEPT !.refs["canonical_entity_id"] = Null] ELSE @[i]]]
      cleared ==
        FoldLeft(LAMBDA x, t :
                   delete([x EXCEPT !.bindings = {b \in @ : b[2] \notin MadeByResolver(d, t, p)}],
                          MadeByResolver(d, t, p)),
                 detached, ClearedTables)
  IN  remove_evidence(cleared, Unused(d, p, seen))

----------------------------------------------------------------------------
(* Resolution. A mention is [name, role, comment, value, zone]: the          *)
(* identifier it names, "current", "mention" or "superseded", the comment    *)
(* (or address) by which signals are compared, Null for none, its other      *)
(* attributes, and the assembly that assembly_code_for reads off the name.   *)

Names(ms) == {ms[k].name : k \in DOMAIN ms}
Group(ms, name) == {k \in DOMAIN ms : ms[k].name = name}

\* _persist_resolution, first pass: evidence and a candidate for every mention.
AddCandidate(d, doc) ==
  OnLast(record(d, doc, Resolver),
         ResolverRow("engineering_entity_candidates", [package_id |-> d.package]))

\* _ensure_assembly: the package's assembly with this code, made when missing.
ensure_assembly(d, code) ==
  IF d.machine = Null \/ code = Null THEN [d EXCEPT !.id = Null]
  ELSE Ensured(d, {i \in InPackageOf(d, "assemblies", d.package) : d.rows[i].code = code},
               [WorkerRow("assemblies", [package_id |-> d.package, machine_id |-> d.machine])
                  EXCEPT !.code = code])

\* _mention_rank and the choice of the mention that an entity is named after:
\* a superseded one only when there is no other, then the role, then the first.
Rank(m) == CASE m.role = "current" -> 2 [] m.role = "mention" -> 1 [] OTHER -> 0
Primary(ms, group) ==
  Min({k \in group : \A j \in group : Rank(ms[j]) <= Rank(ms[k])})

Support(d, ms, group) == {d.found[k] : k \in group}

\* _promote_group: one entity for all mentions of a name, on all their evidence,
\* and the candidates merged into it. d.new and d.found start with what the first
\* pass stored, mention by mention.
AddEntity(d, ms, group) ==
  insert(d, ResolverRow("engineering_entities",
              [package_id |-> d.package, machine_id |-> d.machine, assembly_id |-> d.id]),
         Support(d, ms, group))

Merge(d, group) ==
  IF ~d.ok THEN d
  ELSE [d EXCEPT !.rows = [i \in Ids |->
          IF i \in {d.new[k] : k \in group}
            THEN [@[i] EXCEPT !.refs["canonical_entity_id"] = d.id] ELSE @[i]]]

Promote(d, ms, group) ==
  Merge(AddEntity(ensure_assembly(d, ms[Primary(ms, group)].zone), ms, group), group)

\* The entity the candidate of mention k was promoted to.
EntityOf(d, k) == d.rows[d.new[k]].refs["canonical_entity_id"]

\* _merged_attributes: the comment that the best ranked mentions with one give.
CommentOf(ms, name) ==
  LET told == {k \in Group(ms, name) : ms[k].comment # Null}
  IN  IF told = {} THEN Null ELSE ms[Primary(ms, told)].comment

\* _record_identity_conflicts. Names that share a comment, each against the
\* first; then, for a name, its first current against its first superseded
\* mention when _same_domain_attrs tells them apart. Pairs of mentions.
SharedComments(ms) ==
  LET first(n) == Min(Group(ms, n))
      sharing(n) == {o \in Names(ms) : CommentOf(ms, o) = CommentOf(ms, n)}
  IN  {<<Min({first(o) : o \in sharing(n)}), first(n)>> :
         n \in {o \in Names(ms) : CommentOf(ms, o) # Null
                                  /\ \E q \in sharing(o) : first(q) < first(o)}}

Revisions(ms) ==
  LET having(n, role) == {k \in Group(ms, n) : ms[k].role = role}
      pair(n) == <<Min(having(n, "current")), Min(having(n, "superseded"))>>
  IN  {pair(n) : n \in {o \in Names(ms) :
         /\ having(o, "current") # {} /\ having(o, "superseded") # {}
         /\ LET jk == pair(o)
            IN  <<ms[jk[1]].value, ms[jk[1]].comment>> # <<ms[jk[2]].value, ms[jk[2]].comment>>}}

AddConflict(d, left, right, evs) ==
  insert(d, [ResolverRow("engineering_conflicts", [package_id |-> d.package]) EXCEPT
              !.sides = <<left, right>>], evs)

RecordConflicts(d, ms) ==
  LET evs(jk) == {d.found[jk[1]], d.found[jk[2]]}
      shared == FoldLeft(LAMBDA x, jk :
                  AddConflict(x, EntityOf(d, jk[1]), EntityOf(d, jk[2]), evs(jk)),
                d, SetToSeq(SharedComments(ms)))
  IN  FoldLeft(LAMBDA x, jk : AddConflict(x, d.new[jk[1]], d.new[jk[2]], evs(jk)),
               shared, SetToSeq(Revisions(ms)))

\* _persist_resolution, in its three passes.
AddCandidates(d, doc, ms) == FoldLeft(LAMBDA x, m : AddCandidate(x, doc), d, ms)
PromoteAll(d, ms) == FoldLeft(LAMBDA x, n : Promote(x, ms, Group(ms, n)), d, SetToSeq(Names(ms)))

\* resolve_package_identities: no mention, or a member's bytes missing
\* (ms = << >>), leaves the last resolution in place.
resolve_package_identities(d, doc, ms, seen) ==
  IF ms = << >> \/ ~d.ok THEN d
  ELSE RecordConflicts(PromoteAll(AddCandidates(
         [clear_package_identities(d, d.package, seen) EXCEPT !.new = << >>, !.found = << >>],
         doc, ms), ms), ms)

----------------------------------------------------------------------------
(* What a worker's attempt stores for an archive around the resolution, in   *)
(* one transaction: the package, the membership, the machine, one assignment *)
(* (package_intake and package_assignment, see the Packages module).         *)

MembersOf(d, p) == {d.rows[i].doc : i \in InPackageOf(d, "package_documents", p)}

\* The package of the archive: the recorded one, the one with its slug if the
\* archive is a member, or a new one.
PackagesFor(d, doc) ==
  {p \in OfTable(d, "machine_packages") :
     p = recorded[doc] \/ (d.rows[p].code = doc /\ doc \in MembersOf(d, p))}

package_for_archive(d, doc) ==
  LET e == Ensured(d, PackagesFor(d, doc), [WorkerRow("machine_packages", << >>) EXCEPT !.code = doc])
  IN  [e EXCEPT !.package = e.id]

add_member(d, doc) ==
  Ensured(d, {i \in InPackageOf(d, "package_documents", d.package) : d.rows[i].doc = doc},
          [WorkerRow("package_documents", [package_id |-> d.package]) EXCEPT !.doc = doc])

ensure_machine(d, doc) ==
  LET e == Ensured(d, {i \in InPackageOf(d, "machines", d.package) : d.rows[i].code = doc},
                   [WorkerRow("machines", [package_id |-> d.package]) EXCEPT !.code = doc])
  IN  IF doc \in Coded THEN [e EXCEPT !.machine = e.id] ELSE d

\* The assignment, with its evidence, unless it is there.
assign(d, doc) ==
  IF \E i \in InPackageOf(d, "package_assignments", d.package) : d.rows[i].doc = doc THEN d
  ELSE OnLast(record(d, doc, Worker),
              [WorkerRow("package_assignments", [package_id |-> d.package, machine_id |-> d.machine])
                 EXCEPT !.doc = doc])

\* Everything but the identities.
intake(d, doc) == assign(ensure_machine(add_member(package_for_archive(d, doc), doc), doc), doc)

----------------------------------------------------------------------------
(* The transactions. *)

Free == [phase |-> "none", rows |-> {}, seen |-> {}, package |-> Null]

Init ==
  /\ rows = [i \in Ids |-> NoRow]
  /\ evidence = [e \in EvidenceIds |-> Null]
  /\ bindings = {}
  /\ recorded = [doc \in Docs |-> Null]
  /\ deleted = {}
  /\ held = [doc \in Docs |-> Free]
  /\ swept = {}
  /\ refusal = Null

Commit(d) ==
  /\ d.ok
  /\ rows' = d.rows
  /\ evidence' = d.evidence
  /\ bindings' = d.bindings
  /\ swept' = d.swept \cap {b[2] : b \in d.bindings}
  /\ refusal' = Null

Rollback(d, why) ==
  /\ ~d.ok /\ ~d.full
  /\ refusal' = why
  /\ UNCHANGED <<rows, evidence, bindings, swept>>

\* The worker has the document and its DELETE of unused evidence has read the
\* bindings. A deleted document is skipped, one without its bytes fails.
AttemptBegin(doc) ==
  /\ held[doc] = Free
  /\ Readings[doc] # {}
  /\ doc \notin deleted /\ recorded[doc] # Lost
  /\ held' = [held EXCEPT ![doc].phase = "resolving", ![doc].seen = bindings]
  /\ refusal' = Null
  /\ UNCHANGED <<rows, evidence, bindings, recorded, deleted, swept>>

\* The attempt ends. adapter.json is written before the commit and stays if
\* that fails; a package id that was never committed counts for nothing.
AttemptEnd(doc) ==
  /\ held[doc].phase = "resolving"
  /\ \E ms \in Readings[doc] :
       \E d \in {resolve_package_identities(intake(Db, doc), doc, ms, held[doc].seen)} :
         \/ Commit(d) /\ recorded' = [recorded EXCEPT ![doc] = d.package]
         \/ Rollback(d, <<"resolve", doc>>) /\ UNCHANGED recorded
  /\ held' = [held EXCEPT ![doc] = Free]
  /\ UNCHANGED deleted

\* delete_document: the row is locked, the objects are removed, and
\* drop_document_evidence reads what the evidence supports.
DeleteBegin(doc) ==
  /\ held[doc] = Free
  /\ held' = [held EXCEPT ![doc] = [phase |-> "read", rows |-> affected(Db, doc), seen |-> {},
                                    package |-> recorded[doc]]]
  /\ refusal' = Null
  /\ UNCHANGED <<rows, evidence, bindings, recorded, deleted, swept>>

\* The evidence goes, and the rows that nothing visible supports are chosen. A
\* second delete in this phase does not see that the first removes its evidence.
DeleteDrop(doc) ==
  /\ held[doc].phase = "read"
  /\ held' = [held EXCEPT ![doc].phase = "dropped", ![doc].rows = unbound(Db, doc, @)]
  /\ rows' = [i \in Ids |->
       IF /\ i \in held[doc].rows \cap Live(Db)
          /\ \E e \in EvidenceOf(Db, i) : evidence[e] # doc /\ held[evidence[e]].phase = "dropped"
         THEN [rows[i] EXCEPT !.raced = TRUE] ELSE rows[i]]
  /\ refusal' = Null
  /\ UNCHANGED <<evidence, bindings, recorded, deleted, swept>>

DocRows(d, t, doc) == {i \in OfTable(d, t) : d.rows[i].doc = doc}

\* Bindings of an assignment to other documents' evidence stay.
delete_assignments(d, doc) ==
  delete([d EXCEPT !.swept = @ \cup DocRows(d, "package_assignments", doc)],
         DocRows(d, "package_assignments", doc))

delete_memberships(d, doc) == delete(d, DocRows(d, "package_documents", doc))

delete_generated_package(d, p) ==
  IF p \in OfTable(d, "machine_packages") /\ MembersOf(d, p) = {} THEN delete(d, {p}) ELSE d

\* Mutant: the package is looked at before the membership is gone.
delete_document_PackageFirst(doc) ==
  delete_memberships(delete_generated_package(delete_assignments(
    drop_document_evidence(Db, doc, held[doc].rows), doc), held[doc].package), doc)

\* The rest of delete_document: the document's assignments, its memberships, and
\* the recorded package when no member is left.
delete_document(doc) ==
  delete_generated_package(delete_memberships(delete_assignments(
    drop_document_evidence(Db, doc, held[doc].rows), doc), doc), held[doc].package)

\* What is left of adapter.json when a delete removed it and did not commit.
LostRecord(record_) == IF record_ = Null THEN Null ELSE Lost

DeleteEnd(doc) ==
  /\ held[doc].phase = "dropped"
  /\ \E d \in {delete_document(doc)} :
       \/ /\ Commit(d)
          /\ deleted' = deleted \cup {doc}
          /\ recorded' = [recorded EXCEPT ![doc] = IF @ = Lost THEN Lost ELSE Null]
       \/ /\ Rollback(d, <<"delete", doc>>)
          /\ recorded' = [recorded EXCEPT ![doc] = LostRecord(@)]
          /\ UNCHANGED deleted
  /\ held' = [held EXCEPT ![doc] = Free]

\* The process or the connection is lost. What a delete removed from storage
\* stays removed.
Abort(doc) ==
  /\ held[doc] # Free
  /\ recorded' = [recorded EXCEPT ![doc] = IF held[doc].phase = "resolving" THEN @ ELSE LostRecord(@)]
  /\ held' = [held EXCEPT ![doc] = Free]
  /\ refusal' = Null
  /\ UNCHANGED <<rows, evidence, bindings, deleted, swept>>

----------------------------------------------------------------------------
(* The rows that a caller of engineering.py may add: everything the checks   *)
(* of the functions and the foreign keys accept.                             *)

Packages == OfTable(Db, "machine_packages")
Rows(t) == OfTable(Db, t)
OrNull(t) == Rows(t) \cup {Null}
InSame(t, p) == InPackageOf(Db, t, p)

\* A row with a foreign key to a document waits while the document is held.
Unlocked == {doc \in Docs : held[doc] = Free}

create_package == {Row("machine_packages", << >>)}
add_package_document ==
  {[Row("package_documents", [package_id |-> p]) EXCEPT !.doc = doc] :
     p \in Packages, doc \in Unlocked}
create_machine == {Row("machines", [package_id |-> p]) : p \in Packages}
create_assembly ==
  {Row("assemblies", [package_id |-> p, machine_id |-> m, parent_assembly_id |-> a]) :
     p \in Packages, m \in Rows("machines"), a \in OrNull("assemblies")}
create_assignment ==
  {[Row("package_assignments", [package_id |-> p, machine_id |-> m, assembly_id |-> a]) EXCEPT !.doc = doc] :
     p \in Packages, m \in OrNull("machines"), a \in OrNull("assemblies"), doc \in Unlocked}
create_entity_candidate == {Row("engineering_entity_candidates", [package_id |-> p]) : p \in Packages}
create_canonical_entity ==
  {Row("engineering_entities", [package_id |-> p, machine_id |-> m, assembly_id |-> a]) :
     p \in Packages, m \in OrNull("machines"), a \in OrNull("assemblies")}
create_canonical_relation ==
  UNION {{Row("engineering_relations",
              [package_id |-> p, source_entity_id |-> e[1], target_entity_id |-> e[2]]) :
            e \in {f \in InSame("engineering_entities", p) \X InSame("engineering_entities", p) :
                     f[1] # f[2]}} : p \in Packages}
create_relation_candidate ==
  UNION {{Row("engineering_relation_candidates",
              [package_id |-> p, source_entity_id |-> e[1], target_entity_id |-> e[2]]) :
            e \in (InSame("engineering_entities", p) \cup {Null})
                  \X (InSame("engineering_entities", p) \cup {Null})} : p \in Packages}
create_plc_program ==
  {Row("plc_programs", [package_id |-> p, machine_id |-> m]) :
     p \in Packages, m \in OrNull("machines")}
create_plc_block == {Row("plc_blocks", [program_id |-> g]) : g \in Rows("plc_programs")}
create_plc_variable ==
  {Row("plc_variables", [program_id |-> g, block_id |-> b, entity_id |-> e]) :
     g \in Rows("plc_programs"), b \in OrNull("plc_blocks"),
     e \in OrNull("engineering_entities")}
create_plc_reference ==
  {Row("plc_references", [block_id |-> b, variable_id |-> v]) :
     b \in Rows("plc_blocks"), v \in OrNull("plc_variables")}
record_conflict == {Row("engineering_conflicts", [package_id |-> p]) : p \in Packages}  \* its sides are unchecked
record_unsupported_construct ==
  {[Row("unsupported_constructs", [package_id |-> p]) EXCEPT !.doc = doc] :
     p \in Packages, doc \in Unlocked \cup {Null}}
record_override == {Row("human_overrides", [package_id |-> p]) : p \in Packages}
record_behavior_claim == {Row("derived_behavior_claims", [package_id |-> p]) : p \in Packages}

Additions ==
  create_package \cup add_package_document \cup create_machine \cup create_assembly
  \cup create_assignment \cup create_entity_candidate \cup create_canonical_entity
  \cup create_canonical_relation \cup create_relation_candidate \cup create_plc_program
  \cup create_plc_block \cup create_plc_variable \cup create_plc_reference \cup record_conflict
  \cup record_unsupported_construct \cup record_override \cup record_behavior_claim

ManualRows == {i \in Live(Db) : rows[i].method = Manual}

Duplicate(row) ==
  /\ row.table \in {"package_documents", "engineering_relations"}
  /\ \E i \in Live(Db) : rows[i].table = row.table /\ rows[i].refs = row.refs /\ rows[i].doc = row.doc

\* _evidence_in_tenant: a grounded row needs evidence, all of it stored. The row
\* and the evidence a delete has already removed are waited for, and then missing.
Add(row, evs) ==
  /\ Cardinality(ManualRows \cup swept) < MaxManual
  /\ ~Duplicate(row)
  /\ Grounds(row.table) = (evs # {})
  /\ \A doc \in Docs : held[doc].phase = "dropped" =>
       Range(row.refs) \cap held[doc].rows = {} /\ \A e \in evs : evidence[e] # doc
  /\ Commit(insert(Db, [row EXCEPT !.raced = \E e \in evs : held[evidence[e]] # Free], evs))
  /\ UNCHANGED <<recorded, deleted, held>>

\* Bound: at most one piece of evidence from each document.
EvidenceSets ==
  {evs \in SUBSET {e \in EvidenceIds : evidence[e] # Null} :
     \A e, f \in evs : evidence[e] = evidence[f] => e = f}

\* record_evidence by a caller, on any document of the tenant, deleted or not.
RecordEvidence(doc) ==
  /\ held[doc] = Free
  /\ Cardinality({e \in EvidenceIds : evidence[e] # Null /\ e \notin {b[1] : b \in bindings}}) < MaxSpare
  /\ Commit(record(Db, doc, Manual))
  /\ UNCHANGED <<recorded, deleted, held>>

Next ==
  \/ \E doc \in Docs : \/ AttemptBegin(doc) \/ AttemptEnd(doc)
                       \/ DeleteBegin(doc) \/ DeleteDrop(doc) \/ DeleteEnd(doc)
                       \/ Abort(doc) \/ RecordEvidence(doc)
  \/ \E row \in Additions, evs \in EvidenceSets : Add(row, evs)

Spec == Init /\ [][Next]_vars

----------------------------------------------------------------------------
(* Locators. record_evidence takes a kind and the fields that are given      *)
(* (region counts when it is not empty); the database has a check of its own.*)

LocatorFields ==
  {"document_id", "source_id", "page_number", "sheet_name", "cell_range", "xml_path",
   "line_start", "native_object_id", "region"}

\* Mutant: a sheet cell is complete without its sheet.
LOCATOR_REQUIREMENTS_NoSheet ==
  [chunk |-> {"document_id", "source_id"}, page |-> {"document_id", "page_number"},
   sheet_cell |-> {"document_id", "cell_range"}, image_region |-> {"document_id", "region"},
   xml_path |-> {"document_id", "xml_path"}, line_range |-> {"document_id", "line_start"},
   native_id |-> {"document_id", "native_object_id"}]

LOCATOR_REQUIREMENTS ==
  [chunk |-> {"document_id", "source_id"}, page |-> {"document_id", "page_number"},
   sheet_cell |-> {"document_id", "sheet_name", "cell_range"},
   image_region |-> {"document_id", "region"}, xml_path |-> {"document_id", "xml_path"},
   line_range |-> {"document_id", "line_start"}, native_id |-> {"document_id", "native_object_id"}]

locator_is_complete(kind, given) == LOCATOR_REQUIREMENTS[kind] \subseteq given

\* ck_evidence_references_locator, disjunct by disjunct.
LOCATOR_SQL(kind, given) ==
  \/ kind = "chunk" /\ {"document_id", "source_id"} \subseteq given
  \/ kind = "page" /\ {"document_id", "page_number"} \subseteq given
  \/ kind = "sheet_cell" /\ {"document_id", "sheet_name", "cell_range"} \subseteq given
  \/ kind = "image_region" /\ {"document_id", "region"} \subseteq given
  \/ kind = "xml_path" /\ {"document_id", "xml_path"} \subseteq given
  \/ kind = "line_range" /\ {"document_id", "line_start"} \subseteq given
  \/ kind = "native_id" /\ {"document_id", "native_object_id"} \subseteq given

\* _locator_kwargs: what the resolver passes for the evidence of a mention. given
\* are the fields that the mention's evidence has with a true value (a line 0
\* counts as given). Every kind but three becomes a native id.
locator_kwargs(kind, given) ==
  CASE kind = "page" -> <<"page", {"document_id", "page_number"}>>
    [] kind = "sheet_cell" -> <<"sheet_cell", {"document_id", "sheet_name", "cell_range"}>>
    [] kind = "line_range" -> <<"line_range", {"document_id", "line_start"}>>
    [] OTHER -> <<"native_id", {"document_id", "native_object_id"}>>

----------------------------------------------------------------------------
(* Properties. *)

\* "Canonical entities and relations require at least one evidence locator"
\* (engineering.py, module docstring): a grounded row keeps evidence whatever is
\* deleted or resolved later, unless its evidence was on its way out while the
\* row was written, or two deletes each relied on the evidence of the other.
Grounded ==
  \A i \in Live(Db) : Grounds(rows[i].table) /\ ~rows[i].raced => EvidenceOf(Db, i) # {}

\* Whatever evidence is stored, it passed two checks that agree: what
\* record_evidence lets through, the database's check accepts, and the other way
\* round, for every kind and every set of fields; and what the resolver passes
\* for a mention is complete whatever the extractor left out. (Evidence that only
\* the database refuses would fail an attempt after its objects are written.)
LocatorChecksAgree ==
  \A kind \in Orm!EvidenceLocatorKind, given \in SUBSET LocatorFields :
    /\ locator_is_complete(kind, given) = LOCATOR_SQL(kind, given)
    /\ locator_is_complete(locator_kwargs(kind, given)[1], locator_kwargs(kind, given)[2])

LocatorsAgree == (\E e \in EvidenceIds : evidence[e] # Null) => LocatorChecksAgree

\* Foreign keys: a row refers to a live row, of its own package where the key says so.
KeysHold ==
  \A i \in Live(Db) : \A f \in ForeignKeys[rows[i].table] :
    LET r == rows[i].refs[f.col]
    IN  \/ r \in Rows(f.parent) /\ (f.packaged => rows[r].refs["package_id"] = rows[i].refs["package_id"])
        \/ r = Null /\ ~f.required

\* engineering_models.py, engineering.py: whatever is cleared, dropped and cascaded,
\* every foreign key names a live row of its package; and a binding, which has no
\* foreign key to its row, outlives the row only if another row's key took the row
\* along or it was an assignment that went with its document. So neither
\* clear_package_identities nor drop_document_evidence ever removes a row that
\* something still supports.
ReferencesHold ==
  /\ KeysHold
  /\ \A b \in bindings : rows[b[2]] = NoRow => b[2] \in swept

ConflictsNameLiveRows ==
  \A i \in Rows("engineering_conflicts") :
    rows[i].method = Resolver => \A s \in Range(rows[i].sides) : rows[s] # NoRow

EntitiesStandOnCandidates ==
  \A i \in Rows("engineering_entities") :
    rows[i].method = Resolver =>
      EvidenceOf(Db, i) =
        UNION {EvidenceOf(Db, c) : c \in {x \in Rows("engineering_entity_candidates") :
                                            rows[x].refs["canonical_entity_id"] = i}}

\* identity_resolution.py: through every later resolution and delete, what a
\* resolution wrote stays coherent. A conflict names rows that exist, although no
\* foreign key makes it: they are cleared together and dropped together. An entity
\* stands on exactly the evidence of the candidates merged into it (_promote_group).
ResolutionCoherent == ConflictsNameLiveRows /\ EntitiesStandOnCandidates

\* A foreign key refuses a resolution or a delete only on account of a row that
\* a caller wrote with an optional reference (a relation candidate or a PLC
\* variable on an entity, say): setting the composite key to null would clear
\* tenant_id too. The order in which drop_document_evidence and
\* clear_package_identities work avoids every other refusal.
OnlyManualReferencesRefuse ==
  refusal # Null =>
    \E i \in ManualRows : \E f \in ForeignKeys[rows[i].table] :
      f.ondelete = SetNull /\ rows[i].refs[f.col] # Null

\* The attempt that resolved doc is over.
AttemptOver(doc) == held[doc].phase = "resolving" /\ held'[doc] = Free

\* "Drop prior resolver output for this package. Manual rows are left intact."
\* (clear_package_identities): what a caller wrote is there after a resolution.
\* Not so: the DELETE of the resolver's entities cascades to a caller's relations.
ManualRowsIntact ==
  [][\A doc \in Docs, i \in ManualRows : AttemptOver(doc) => rows'[i] # NoRow]_vars

\* What is true of it (clear_package_identities): through every clearing and every
\* cascade of it, a resolution takes of what callers wrote nothing but relations
\* with an end that the resolver made; entities, candidates, conflicts, PLC rows and
\* relations between a caller's own entities stay.
OnlyRelationsGoWithEntities ==
  [][\A doc \in Docs, i \in ManualRows :
       AttemptOver(doc) /\ rows'[i] = NoRow =>
         /\ rows[i].table = "engineering_relations"
         /\ \E c \in {"source_entity_id", "target_entity_id"} :
              rows[rows[i].refs[c]].method = Resolver]_vars

\* "Remove the archive's recorded package when no other members remain"
\* (delete_generated_package): the delete of an archive that commits leaves its
\* package only to other members, or when an earlier delete of the archive had
\* removed adapter.json and then failed: nothing names the package any more.
PackageGoesWithArchive ==
  [][\A doc \in deleted' \ deleted :
       recorded[doc] # Lost =>
         \A p \in Packages : rows[p].code = doc /\ rows'[p] # NoRow =>
           \E i \in Ids : /\ rows'[i] # NoRow /\ rows'[i].table = "package_documents"
                          /\ rows'[i].refs["package_id"] = p]_vars
=============================================================================
