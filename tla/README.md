# TLA+ specifications of document-intelligence-mvp

A multi-tenant service takes documents, parses them in background workers,
stores chunks in PostgreSQL, vectors in Qdrant and files in object storage, and
answers searches and questions over them. PostgreSQL is transactional, the other
two stores are not, several API replicas and several workers run at once, and a
client may delete a document at any moment. The specifications here are about
that: what the three stores say of a document while transactions interleave,
calls fail half way and processes die, and what the constraints of the database
schema, as the migrations leave it, hold together meanwhile.

Paths below are relative to the repository (`app/...`, `docs/...`).

## 1. Inventory

| Component | State | Operations | Interacts with | What is hard |
|---|---|---|---|---|
| Job queue, `app/services/jobs.py` | rows of `ingestion_jobs` | enqueue, claim, finish, fail | upload (enqueue), worker (the rest), delete (removes rows) | racing claims, retries, stale completions, the live unique index |
| Upload, `app/api/documents.py`, `app/services/ingestion.py` | document row, original object, advisory lock | ingest_upload | storage, queue | duplicate uploads, object before row, failed commit |
| Worker, `app/worker.py` | the claimed batch in memory | process_one_batch, run | queue, processing | death between two transactions, stale copies merged back |
| Processing, `app/services/processing.py` | status, content hash, normalized_key, chunks | process_job, mark_failed | storage, package intake, index, profiling, relations | writes to three stores in one transaction, of which only the rows roll back |
| Chunk index, `app/services/indexing.py`, `vector_store.py` | points of a document, embedding identity | index_document, upsert, delete, search | processing, reindex, search, delete | clear-then-write, identity recorded elsewhere |
| Document vectors, `document_vectors.py`, `vector_store.py` | one vector per document | upsert, delete, similar | processing, relations | stale vector after a failed attempt |
| Deletion, `app/services/deletion.py` | deleted_at | delete_document | everything above | order of erasures, races with a worker, partial failure |
| Reindexing, `app/services/reindexing.py` | points, embedding identity | reindex_document, reindex_tenant | index, search | failure between clear and write, search in between |
| Retrieval, `retrieval.py`, `lexical.py` | none | search, rerank | index, rows | two reads of two stores |
| Question answering, `qa.py` | none | ask | retrieval, LLM | citations must be among the passages |
| Profiling and relations, `profiling.py`, `relations.py` | profile row, relation edges | profile_document, detect_relations | processing, document vectors | symmetric edges, locks on two documents, replacement |
| Package intake, `package_intake.py`, `adapters/zip_unpack.py` | stored members, `adapter.json`, package rows | safe_unpack, ingest_artifact, delete_adapter_artifacts | processing, deletion | limits at their boundary, members found only through the list, package reuse on retry |
| Package assignment, `package_assignment.py`, `classification.py` | assignments with superseded states | classify_and_assign_package, override_assignment | package intake, evidence | a correction against an attempt or another correction, order by start and not by commit |
| Identity resolution, `identity_resolution.py`, `entity_extract.py` | candidates, entities, conflicts | resolve_package_identities | package intake, evidence | reruns over rows that others refer to |
| Engineering evidence, `engineering.py` | seventeen tables of rows, evidence, bindings | create, record, clear, drop | the three above, deletion | bindings without a foreign key, composite keys that refuse a delete |
| Pipeline view, `pipeline.py`, `cockpit.py` | none | build_pipeline, classify_failure | rows | stages must follow the rows |
| Schema, `app/models.py`, `app/engineering_models.py`, `migrations/` | tables, keys, checks, enum types, revision | upgrade, downgrade | all | replicas that migrate at once, downgrades that leave something behind, rows a new constraint refuses |
| Request boundary, `app/api/dependencies.py` | session per request | commit, rollback | all endpoints | commit after the answer is built |
| Providers, `app/providers/` | none | storage, parser, embeddings, LLM, tracing | all | any call may fail |
| Settings, health, metadata, dev endpoints | none | reads | - | - |
| Evaluation harness, `app/evaluation/` | reports | score, compare | offline | regression gate |
| Web cockpit, `web/` | none | - | API | - |

Properties that make the main components correct:

* queue: one live job per document; an attempt is handed to one worker; never
  more than `max_attempts` attempts; finished and failed jobs are final; only
  the holder of an attempt completes it; every job ends;
* documents: `ready` means searchable, `deleted` means erased, document and job
  agree at every commit, a live row never points at a missing object, the same
  bytes are held once, every upload settles, every delete is answered;
* index: a search never mixes two embedding spaces, a reindex leaves the
  document searchable, operations that lock several documents do so in one order;
* relations: two processed documents with the same text are related, a deleted
  document is not, and every relation is there in both directions, whatever attempts,
  failures and deletes overlap;
* packages and assignments: nothing beyond the limits is ever taken in, exactly one
  assignment per path is in force once it has had any, a person's correction is never overruled by a
  prediction;
* evidence: a grounded row keeps evidence, no row and no binding is left dangling,
  a resolution that runs again takes what resolutions made, and of what callers
  wrote only the relations to it;
* schema: the revision fixes the schema, head is what the models declare, no
  upgrade loses a row.

`PROJECT.json` lists every component, and under `hazards` the places where the
code is exposed to what a test would hardly reach.

## 2. Modules

```
JobRows            one row of ingestion_jobs and what each statement writes
  JobQueue         sessions, transactions, row locks      --implements-->  TaskQueue
    JobQueueProofs         inductive invariant, safety theorems, refinement
    MCJobQueue             instances
  Ingestion        upload, worker, delete over three stores  --implements-->  DocumentLifecycle
    IngestionProofs        inductive invariant, safety theorems, refinement
    MCIngestion            instances
  VectorIndex      reindex, search, delete, change of the embedding model
    VectorIndexProofs      inductive invariants, safety theorems
    MCVectorIndex          instances
Relations          profiles, candidates, edges; attempts against deletes
  RelationsProofs          inductive invariants, safety theorems
  MCRelations              instance
ArchiveIntake      safe_unpack, safe paths, limits, classification of members
  Packages         bounded upload, unpacking, assignments, corrections
    PackagesProofs         any archive, inductive invariant, safety, action properties
    MCPackages             instance
Schema             how a table, a key, an enum type is described
  OrmSchema        what models.py and engineering_models.py declare
    Evidence       rows, evidence, bindings under those foreign keys (INSTANCE)
      EvidenceTables       foreign keys, deletes and statements, for any rows
        EvidenceProofs       inductive invariant, safety theorems, action properties
      MCEvidence           instance
    Migrations     revisions 0001-0012 and the commands that run them
      MCMigrations         instance
PrefixFold         a fold as the list of its results (PackagesProofs, EvidenceTables)
```

### JobRows and JobQueue

`JobRows` is a row of `ingestion_jobs` with the columns the statements read:
document, status, attempts, claimed_by, available_at. `QueuedRow`, `ClaimedRow`,
`FinishedRow` and `FailedRow` are the INSERT of `enqueue` and the UPDATEs of
`claim`, `finish` and `fail`; both state machines use them. `tenant_id` is left
out because every statement repeats it and a job never changes tenant,
`max_attempts` is a constant because nothing passes another value.

`JobQueue` has committed rows (`jobs`) and, per session, what its open
transaction wrote (`writes`). A row with an uncommitted write is locked.

| Action | Code |
|---|---|
| `CheckLive`, `Insert`, `InsertRejected` | `enqueue`: the look for a live job, the flush that passes the partial unique index, the flush that violates it. An insert waits until no open transaction writes a row of the document (`IndexSettled`). |
| `Claim` | `claim`: due rows, skipping locked ones, earliest first, at most `Limit`. Ties of `available_at` (broken by `created_at` and `id` in the code) are left open. |
| `Finish`, `Fail` | the two completions; both wait for a locked row and change only a processing row of the caller's `worker_id`. A worker completes anything it was ever handed, late and repeatedly. |
| `Commit`, `Rollback` | the end of the caller's transaction. A committed claim hands its rows to the worker. |
| `Crash` | the worker dies: its transaction is rolled back, its claims are forgotten. |
| `Tick` | the database clock, while some row waits for `available_at`. |

Calls that change nothing (enqueue of a document with a live job, a claim that
finds nothing, a completion of a row that is not the caller's) are stuttering.

`TaskQueue` is the promise: a task is submitted once per subject while another
is active, every start costs a try, a started task ends or is put back while
tries are left. No sessions, locks or clock.

### Ingestion

The committed rows of a document (`life`, `status`, `normalized`, `chunks`,
`jobs`), the locks of open transactions (`docLock`, `jobLock`, `hashLock`), the
two stores without transactions (`objects`, `points`, `docVector`), the program
counters of workers (`wpc`) and requests (`rpc`), and the worker's memory
(`claimed`, the copy of the job row it merges back). Derived data are identified
by the attempt that made them, because every attempt makes chunks with fresh
keys. What an open transaction wrote to PostgreSQL is applied by its commit;
what it wrote to storage or Qdrant is visible at once and survives a rollback.

| Actions | Code |
|---|---|
| `UploadBegin`, `UploadPut`, `UploadCommit`, `UploadFails` | `ingest_upload`: advisory lock on the bytes, look for a live document, insert, put, enqueue; the request's commit or rollback |
| `Claim` | the first transaction of `process_one_batch` |
| `Merge`, `LockDocument`, `StoreNormalized`, `StoreMembers`, `StoreAdapter`, `ClearPoints`, `UpsertPoints`, `WriteVector`, `CommitReady`, `CommitSkip` | the second transaction: `session.merge`, `process_job` in its order of effects, `finish`, commit |
| `AttemptFails`, `MergeFailed`, `LockJob`, `InsertJob`, `JobGone`, `RecordFailure` | the exception handlers and the third transaction, `mark_failed` |
| `Crash` | the worker process is killed at any point |
| `DeleteBegin`, `DeletePoints`, ... `DeleteCommit`, `DeleteFails` | `delete_document` and the request's commit or rollback |
| `BreakDeadlock` | PostgreSQL aborts one of two transactions that wait for each other |
| `Rest` | nothing to do: the quiet end of a finite instance |

Three details are modelled because they decide the outcome:

* `session.merge(job)` reads the row by key. A missing row is inserted again, a
  different one is overwritten with the remembered values (`Compare`,
  `MergedRow`).
* the ORM writes the document's status in `mark_failed` only when it changes, so
  only the last failure needs the document's row; that is where the lock order
  is the opposite of the delete's.
* `documents.status = processing` is set and replaced within one transaction,
  so it is never committed and no reader sees it.

`DocumentLifecycle` is what a client may rely on: absent, queued, settled once
as ready or failed, deleted for good, and no two documents with the same bytes.

### VectorIndex

`Ingestion` has one embedding model and no reindex. `VectorIndex` is about the
rest of a document's life in Qdrant: each program is configured for an embedding
*space* (provider, model, version, dimensions), every point carries the space it
was computed in (which Qdrant does not know), and the row names the space its
vectors are supposed to be in (`identity`). An operation of a worker or a request
is a record `op[p]`: kind, step, documents still to do, and what its session
knows and wrote.

| Actions | Code |
|---|---|
| `BeginIngest`, `BeginReindex`, `BeginTenant`, `BeginDelete` | a claimed job, `reindex_document`, `reindex_tenant` (which loads all live ready documents at once), `delete_document` |
| `LockRow` | `SELECT ... FOR UPDATE`, which waits for those who hold the row in either mode, and what each operation does about a document deleted meanwhile |
| `EnsureVectors`, `EnsureChunks` | `ensure_collection`: made if missing, refused if of another size |
| `ClearPoints`, `UpsertPoints`, `WriteVector` | `upsert_chunks` and the document vector; without chunks a single reindex is refused and the tenant's goes on |
| `FindCandidates`, `DrawRelation` | `detect_relations` at the end of an ingestion, as far as it locks documents: an INSERT takes `FOR KEY SHARE` on the other document by its foreign key and keeps it to the end of the transaction |
| `EmbeddingFails` | swallowed and counted by `reindex_tenant` only |
| `Fails`, `Commit` | any exception that reaches the request, and PostgreSQL's choice of a victim when operations wait in a circle: rows are rolled back and nothing else; the commit |
| `Query`, `Hydrate` | the two reads of `search`, following one of the points returned |
| `Redeploy`, `DropCollections` | external: the operator changes the model of all programs, or (`Rolling`) of some while others run, or drops the collections |

`reindex_tenant` loads the documents before it locks them, and the locking SELECT
returns the instances already in the session with the attributes they were
loaded with; assigning an attribute the value it was loaded with emits no UPDATE.
`same` and `marked` are this. The history variable `torn` holds documents whose
vectors an aborted operation or a dropped collection left behind, until their
points are written again. What the relations are does not matter here, only which
documents they may lock, in any order (`Candidates`); the rows of relations
themselves, which other attempts lock too, are in `Relations`. Left out: rows indexed before `embedding_dimensions`
existed, and chunk vectors that cancel out to no document vector.

### Relations

An attempt of a document runs in one transaction that holds `FOR UPDATE` on its
row; `job[d]` is what that transaction (or a delete's) has read and written. The
vector goes to Qdrant at once, where other attempts find it; content hash and
profile become visible with the commit.

| Actions | Code |
|---|---|
| `AttemptBegin`, `upsert`, `find_candidates`, `compare`, `draw`, `CheckReferences`, `AttemptCommit`, `AttemptFail` | `process_job` from its lock to its commit, as far as relations see it: `profile_document`, `DocumentVectorStore.upsert`, the two halves of `gather_candidates`, `classify`, each `INSERT ... ON CONFLICT` of `detect_relations` and the foreign keys of the row it inserts |
| `DeleteBegin`, `RemoveRelation`, `DeleteCommit`, `DeleteFail` | `delete_document`: lock and vector, the DELETE of relations row by row, commit or rollback |

A relation is two rows, and each is a statement of its own (`Statement`). A statement
waits for those who wrote or removed the same row and are still open (`Settled`); one
that inserted waits for the other document (`CheckReferences`). Attempts and deletes
can so wait for each other in a circle, of which PostgreSQL ends one: the error
reaches `except Exception` in `app/worker.py`, or the request, which is `AttemptFail`
or `DeleteFail`. `classify` is the rule chain of the source, over counts. Scores,
reasons and topics, which nothing reads back, are
left out, and so is `exact_duplicate`, which the unique index on the bytes makes
unreachable. Every document has text (see section 5 for those without). The history variables name the
races the properties exempt: `unseen` (both compared before the other was
committed), `late` (compared before a delete, committed after it), `halfway` (a
delete that failed after the vector had gone).

### ArchiveIntake and Packages

`ArchiveIntake` has the algorithms: `safe_unpack` as a fold over the zip
directory with its checks in their order, `safe_path`, `directory_within_limits`
(the same limits for the container of a spreadsheet), and the classification of a
member (path rules, adapter, machine code, assembly). A name is the sequence of
its parts, a member's content what opening it does (sound, encrypted, damaged,
nested archive, ...). Which rules match and which codes a text contains are
inputs (`Readings`), because they are regular expressions; `ReadingsAssumption` says
that each reading covers every path that can be unpacked, with rules there are.

`Packages` is one archive's way through them: the body read in chunks of any
length up to `_READ_CHUNK_SIZE` (`read_upload_bounded`), unpacking, and then
`package_assignments`.

| Actions | Code |
|---|---|
| `AttemptBegin`, `AttemptLock`, `ingest_zip`, `classify_and_assign_package`, `AttemptWrite`, `AttemptCommit`, `AttemptRollback` | the attempt: lock, `safe_unpack`, a decision per path, its row, commit |
| `OverrideRead`, `OverrideMark`, `OverrideInsert`, `OverrideCommit`, `OverrideRollback` | `override_assignment`: read without a lock, mark superseded, insert the replacement, the request's commit |

A correction that has marked a row waits for the document, and an attempt that has the
document may wait for that row; PostgreSQL ends one of them, which is `OverrideRollback`
or `AttemptRollback`.

What an attempt has still to write (`todo`) has one entry per path, in the order of
classification; `Null` is a path whose assignment stays as it is.
`created_at` is the start of the transaction, and `current_for_path` orders by it;
distinct transactions are assumed to have distinct start times. An attempt runs
again after a commit whose answer was lost; it classifies otherwise only under a
later release, which is what the second reading stands for.

### Schema, OrmSchema and Migrations

`OrmSchema` is the metadata of `app/models.py` and `app/engineering_models.py`:
per table the required and optional columns, unique keys, foreign keys with
columns and `ondelete`, checks, indexes, enum columns with defaults. `Migrations`
has the statements of revisions 0001 to 0012, upgrade and downgrade, as data
(`upgrade_0002` ... `downgrade_0012`), and `Execute`, which refuses a statement PostgreSQL
would refuse (`Legal`: a missing object, a key somebody relies on, a type in use,
rows that violate a new constraint) and otherwise applies it (`Effect`).

`Start` begins a command against the committed revision; `Migrate` runs all its
revisions in one transaction (`migrations/env.py`) and commits, is refused, or is
overtaken by another command (`Overtaken`). `WriteRow` and `RemoveRow` are the
program between commands. A row is kept as the one thing some constraint asks of
it: the status of a document, the label of a relation, whether another child of a
document is of the document's tenant, whether the ends of an edge are in its package,
whether a locator is complete.

### Evidence

One tenant's rows of the seventeen engineering tables, the evidence references,
and the bindings between them. Foreign keys and their actions are those of
`OrmSchema`: `delete` follows cascades wave by wave and is refused where the
database would refuse it (a restricted key, or a composite one it would have to
set to null).

| Actions | Code |
|---|---|
| `AttemptBegin`, `AttemptEnd` | `_package_for_archive`, membership, machine and assignment (`intake`), then `resolve_package_identities`: `clear_package_identities`, the removal of evidence nothing else uses, candidates, `_promote_group`, conflicts |
| `DeleteBegin`, `DeleteDrop`, `DeleteEnd` | `drop_document_evidence` (which reads the supported rows first and decides after the evidence has gone), `delete_generated_package`, commit |
| `Abort` | rollback of either; what the delete had removed from storage (`adapter.json`) stays removed |
| `Add`, `RecordEvidence` | every `create_*` function and `record_evidence`, called by anyone at any time |

What extraction finds in an archive is an input (`Readings`): a signal in a current
and a superseded revision, and two signals that share a comment. Locators are
the sets of fields that are given; `locator_is_complete`, the database's check and
`locator_kwargs` are compared over all of them. `swept` and the flag `raced` of a
row are history. A bound keeps one row of a caller and one spare piece of
evidence at a time.

## 3. Runs

| Run | Instance | Shows |
|---|---|---|
| `job_queue` | 2 documents, 2 keys, 2 callers, 2 workers (one may die), batch 1, 2 attempts, fair | `OneLiveJob`, `AttemptsBounded`, `HandedOutOnce`, `OnlyHolderCompletes`, the refinement `ImplementsTaskQueue`, and `EveryJobSettles` for jobs nobody died with |
| `ingestion` | a text document and an archive, 2 workers with one `worker_id`, batch 2, 1 upload and 1 delete request at a time, any call may fail, killed workers, lost answers | `ReadyIsSearchable`, `DeletedIsErased`, `StatusAgreesWithJob`: the stores agree wherever a client can look |
| `uploads` | 2 ids for the same bytes, 2 uploads, 1 worker, 1 delete at a time, 2 attempts, fair | `NoDanglingReference`; `ImplementsLifecycle`, in which one live document at a time holds the bytes; `EverythingSettles`: every accepted upload settles, every delete is answered |
| `vector_index` | a text and a textless document, 2 writers, 1 search, 2 models of one width and 1 of another, 1 attempt (`ingestion` has the retries) | `IndexMatchesRows`, `DeletedNotIndexed`, `MismatchTouchesNothing`, `MixedOnlyAcrossReindex` |
| `index_locks` | 3 documents, 2 writers, 1 model | `CirclesGoThroughRelations` |
| `relations` | 3 documents, two with the same text and the third nearer to one of them, 1 candidate by similarity, 4 attempts, 2 deletes | `DuplicatesFound`, `DeletedUnrelated`, `VectorsFollowDocuments`, `RelationsAreMutual` |
| `packages` | limits of 5 bytes uploaded in chunks of 2, 2 members, 5 bytes in all, 4 in one, ratio 1 from 3 bytes on, 2 path parts; all archives of up to 2 of 20 entries and of 3 of 5; 2 readings, 2 corrections, 2 reviewers, 4 transactions | `IntakeBounded` at every limit, `OneCurrent`, `PathsStayAssigned`, `MachinesShared`, `PredictionsYield`, `LaterStartWins` |
| `migrations` | 2 migrators, commands to head, one back and to base, 1 row | `RevisionFixesSchema`, `HeadIsMetadata`, `OnlyRowsRefuse`, `ReferencesStayInTenant`, `RowsSurvive` |
| `evidence` | an archive with 2 readings and a document that is none, 14 ids, 4 pieces of evidence, 1 row of a caller | `Grounded`, `LocatorsAgree`, `ReferencesHold`, `ResolutionCoherent`, `OnlyManualReferencesRefuse`, `OnlyRelationsGoWithEntities`, `PackageGoesWithArchive` |
| `stopped_worker`, `replaced_relations`, `manual_rows` | 1 document; the instance of `relations`; that of `evidence` | the divergences of section 5 that have a run |

Why the bounds are enough: two workers, two requests and two documents give every
pair of transactions that can share a row or a lock; two attempts give a first
failure, a retry and a last failure; a batch of two leaves a job in memory while
another is worked on; two ids for the same bytes allow upload, delete and
upload again, and two uploads that race; two models of one width can be mixed,
a third of another width cannot. In `index_locks` a tenant reindex keeps two documents
while it waits for a third, and an ingestion has two others to relate its own to.
Three documents with one candidate by similarity push a duplicate out of the nearest ones, and allow a circle of three
locks; four attempts are one for each and a retry, two deletes one that fails and one
that is repeated, or one at each end of a relation. The limits of `packages` are
small enough that entries exist below, at and above each of them, and each is
exceeded in more than one order. In `migrations` every pair of revisions is
crossed by some command, and each kind of row meets every constraint that a revision
adds and that could refuse it: 0004's tenant-scoped keys the children of a document of
another tenant (except relations, kept by their label alone), 0010's check and keys incomplete locators and edges across packages.
Fourteen ids hold a resolved archive, the second document's membership and
a row of a caller in any table, each of which refers to rows of the resolution.
Shared `worker_id` is the default deployment (`app/core/settings.py`) and the
weaker one; the queue's runs give every worker its own, because
`OnlyHolderCompletes` needs it.

Deadlock is not checked where the system really may stop: in `job_queue` (with a
dead worker its jobs stay `processing`) and in `evidence`, `packages` and
`relations`, whose bounded attempts, ids or transactions are used up. The other runs
check it; `Ingestion` is the one that has PostgreSQL's deadlock detector as an action,
and in `VectorIndex`, `Relations` and `Packages` a transaction that waits may be rolled
back, by the detector or for any other reason. So no run claims that these wait for
nothing: they do wait in circles, and what is checked is where (`CirclesGoThroughRelations`)
and what the victim leaves behind (`RelationsAreMutual`, `PathsStayAssigned`).

Fairness. Workers poll for ever (`run` in `app/worker.py`), so their steps are
weakly fair; requests are carried to their end by the server; PostgreSQL's
deadlock detector makes `BreakDeadlock` fair. Failures are never owed, except
the read of an object that does not exist, which cannot succeed. In `JobQueue`
the completion and the commit of a worker are strongly fair: a transaction that
may be rolled back again and again is not rolled back every time. Nothing is
assumed of callers. Taking a row lock is strongly fair in `Ingestion`: PostgreSQL
queues those who wait for a row. The other modules state safety only.
`EveryJobSettles` and `EverythingSettles` exempt a job whose worker died with it (`Orphaned`), which is
the finding `stopped_worker`; a worker also dies when it loses a deadlock against
a delete. `ImplementsLifecycle` is checked without lost answers (section 5).

## 4. Proofs

`JobQueueProofs` holds for any sets of documents, keys, callers and workers
(finitely many keys), any batch size, retry delay and number of attempts, under `JobQueueAssumption` and `MaxAttemptsAssumption`.

The safety invariants are not inductive: what a commit does to the rows depends
on what the transaction wrote, possibly long ago. The inductive invariant `IInv`
adds

* `PendingWrites`: what an open transaction wrote is one of the four changes of
  `JobRows` to the row that is committed *now*, and no two transactions wrote
  the same row. This is what the row locks are for;
* `PendingInserts`: a job about to be inserted is alone for its document among
  committed and uncommitted rows, which is what the partial unique index does;
* `ClaimsPaidFor`: a claim in a worker's hands is of an attempt the row has
  already counted, so a new claim differs from every old one.

| Theorem | States |
|---|---|
| `TypeCorrect` | `Spec => []TypeOK` |
| `AtMostOneLiveJob` | `Spec => []OneLiveJob` |
| `NeverTriedTooOften` | `Spec => []AttemptsBounded` |
| `ClaimedWhileProcessing` | `Spec => []ClaimMarksProcessing` |
| `NoSharedAttempt` | `Spec => []HandedOutOnce` |
| `TerminalJobsStay` | `Spec => TerminalIsFinal` |
| `HolderCompletes` | `Spec => OnlyHolderCompletes`, if the `worker_id`s are distinct |
| `QueueImplementsTaskQueue` | `Spec => ImplementsTaskQueue` |

`HolderCompletes` needs two more facts (`HolderInv`): a worker that holds a claim
of a row it owns holds the row's current attempt, and so does one that is about
to commit a completion. The refinement needs `OneStatement`: a transaction that
wrote several rows is a claim, so every commit is one submission, one start of a
set of tasks, or one end.

`RelationsProofs` holds for any finite set of documents, any texts, similarities,
profiles, thresholds and number of candidates, and any number of attempts and
deletes, under `RelationsAssumption`.

| Theorem | States |
|---|---|
| `VectorsFollow` | `Spec => []VectorsFollowDocuments` |
| `DeletedStayUnrelated` | `Spec => []DeletedUnrelated` |
| `DuplicatesAreFound` | `Spec => []DuplicatesFound` |
| `RelatedBothWays` | `Spec => []RelationsAreMutual` |

Again the properties speak of committed state and the argument is about open
transactions. `VectorInv`: an attempt is of a live document and its vector is there
once stored, a delete's is gone; both because the row is locked. `LateInv`: what a
transaction is about to write relates its document to one it has compared, which is
live or was deleted meanwhile (`late`). `DupInv`: a document with the same text that
was committed when the attempt looked is among its matches, is then judged a
duplicate by `classify` (the rule on content comes first), and is then related or
still to be related; `OrderCovers` shows that the order in which relations are drawn
leaves none out. `MutualInv`: what an attempt has written and has still to write is
mutual (`Planned`), whichever of the two statements it is at, and a delete that commits
has come to every relation of its document in either direction.

`IngestionProofs` holds for any number of documents, hashes, workers, uploads and
deletes, any batch size, attempts and faults, any sharing of `worker_id`, under
`IngestionAssumption` and `MaxAttemptsAssumption`.

| Theorem | States |
|---|---|
| `ReadyMeansSearchable` | `Spec => []ReadyIsSearchable` |
| `DeletedMeansErased` | `Spec => []DeletedIsErased` |
| `StatusFollowsJob` | `Spec => []StatusAgreesWithJob` |
| `ReferencesAreStored` | `Spec => []NoDanglingReference` |
| `IngestionRefinesLifecycle` | `Spec => ImplementsLifecycle`, if no answer to a commit is lost |

The four invariants are about documents between transactions (`DocOk`); what makes
them inductive is what each process knows while it works. Its parts:

* `ClaimOk`: a job in the memory of one worker is in nobody else's, and its row is
  as that worker remembers it, or was deleted, or was finished by a commit whose
  answer it never got (`Unanswered`). So the stale copy that `session.merge` writes
  back never overwrites another worker's claim, although all may share a
  `worker_id` and finish and fail look at nothing else;
* `AtHand`: whoever writes to a store holds the row of the document and found it
  alive there; what the merge saw of the job's row is still so, or the row was
  deleted since (`MergeOk`); what the attempt has stored so far is stored, and
  nothing of earlier attempts is left in the index (`WorkOk`);
* `UploadOk`: an upload holds the lock on its bytes, no live document has them, and
  nobody else knows its document;
* `EraseOk`: a delete holds the row, and what it has erased is gone.

Three framing lemmas (`WorkerKeeps`, `UploadKeeps`, `DeleteKeeps`) say that a step
about one document under these rules disturbs nobody else; each action is then
checked for its own document only, except `Claim`, which takes several. The refinement
maps `UploadCommit` to `Accept`, `CommitReady` and a final `RecordFailure` to
`Settle`, the `DeleteCommit` of a live document to `Remove`, and everything else
to stuttering. Its hypothesis, `"ambiguous" \notin Faults`, is the one under which
TLC checks it too (section 5).

`VectorIndexProofs` holds for any finite set of documents, any embedding spaces and
dimensions, any number of programs, searches and attempts, under
`VectorIndexAssumption`.

| Theorem | States |
|---|---|
| `DeletedStaysOut` | `Spec => []DeletedNotIndexed` |
| `MismatchStops` | `Spec => []MismatchTouchesNothing` |
| `RowsTellTheVectors` | `Spec => []IndexMatchesRows`, unless `Rolling` |
| `MixedIsStirred` | `Spec => []MixedOnlyAcrossReindex`, unless `Rolling` |
| `OnlyRelationsCloseCircles` | `Spec => []CirclesGoThroughRelations` |

`LockInv` comes first: whoever is past `LockRow` holds the row, and found it alive
unless it deletes. `EraseInv` and `WidthInv` follow from it and give the first two.
`RowsInv` counts the attempts, so that the chunks of one attempt are never those of
another. `IndexInv` is the heart: the vectors of a document are those of its row
(`Settled`), or its holder has written them and its commit will record it
(`Written`), where recording includes the case in which the session believes that
the row already says so and emits no UPDATE (`Reads`). That belief is only right
when all programs have one model (`OneSpace`), which a deployment one by one does
not give; section 5 has the counterexample, hence the hypothesis
`Rolling = FALSE`. `FoundInv` follows one hit from its score to its display.
`OnlyRelationsCloseCircles` follows the tenant's list: whoever waits for a row without
drawing relations waits for one that a tenant reindex is through with (`OrderInv`,
`RelatesInv`), and that reindex waits for a younger document; in a circle some document
would be younger than itself (`NoCircle`).

The first part of `PackagesProofs` holds for any zip directory (any length, names,
sizes and kinds of content) and any limits, under `ArchiveAssumption`.

| Theorem | States |
|---|---|
| `DirectoryChecksAreExact` | `directory_within_limits(a)` if and only if the files of `a` are few enough, each and together small enough, and none is compressed too far |
| `UnpackingIsExact` | `safe_unpack` unpacks `a` if and only if `a` is acceptable as a whole; it never decompresses more than the limit, and gives each member a path of its own that leads nowhere else |

`safe_unpack` and the checks are folds, and the library's induction theorems take an
operator that the provers cannot instantiate. `PrefixFold` takes another way: a fold is
the list of its intermediate results (`ByPrefix`), and a set that holds the first of them
and with each the next holds all of them (`Upwards`), because the positions it misses
would have a least one (`Least`, from the well-foundedness of finite sets). Each fold is
an instance (`Names`, `Checks`, `Unpacks`, `Sums`), and what is proved of it is what
holds after the first `k` entries: how many files there were and how large (`Counted`),
which members came of them (`MembersStand`), and that a loop that has stopped was right
to stop (`Stopped`).

Its second part holds for any bodies, chunk size, archives, readings, corrections and
reviewers and any number of transactions, under `PackagesAssumption`,
`ReadingsAssumption` and `ArchiveAssumption`.

| Theorem | States |
|---|---|
| `Invariant` | `Spec => []IInv` |
| `IntakeIsBounded` | `Spec => []IntakeBounded` |
| `OneIsCurrent` | `Spec => []OneCurrent` |
| `MachinesAreShared` | `Spec => []MachinesShared` |
| `PredictionsAlwaysYield` | `Spec => PredictionsYield` |
| `LaterStartAlwaysWins` | `Spec => LaterStartWins` |
| `PathsAlwaysAssigned` | `Spec => []PathsStayAssigned` |

`OneCurrent` says nothing of open transactions, and is true because of them. `IInv`
adds

* `RowsStand`: every row was created at the start of its transaction, those of one
  path at different times, so `current_for_path` is the one row that was created last;
* `AttemptStands` and `WritesStand`: what an attempt that holds the document saw in
  force is in force *now*, because a correction needs the document to insert. What it
  has marked is what is in force for the paths it has written, and none of these is a
  person's;
* `ReviewStands`: a correction copies a row that is still there, older than itself; if
  that row was not superseded already, the correction supersedes it;
* `IntakeStands`: no more has been read than the limit allows, an archive that is kept
  is one `safe_unpack` has judged, and its members have paths of their own (from the
  lemmas of `UnpackingIsExact`).

A commit leaves for each path what was in force, without what it superseded, and what
it inserted (`CurrentAfter`). The attempt replaces exactly the row in force; a
correction does too, or it superseded nothing and the path is `forked`, which is what
`OneCurrent` exempts. Either way a row is inserted for the path of everything that is
superseded (`CommitReplaces`), so no path is left with nothing in force. `MachinesShared` follows `apply_package_identity` from the first
rule that matches a path (`FirstRule`) to what the attempt plans to write
(`MachinesStand`).

`EvidenceTables` and `EvidenceProofs` hold for any documents, archives, mentions in
them, and any number of ids, evidence references and rows of callers, under
`EvidenceAssumption` and `NoRowIsNoRow` (the mark of a free id is no row).

| Theorem | States |
|---|---|
| `InvariantHolds` | `Spec => []IInv` |
| `GroundedHolds` | `Spec => []Grounded` |
| `LocatorsHold` | `Spec => []LocatorsAgree` |
| `ReferencesAlwaysHold` | `Spec => []ReferencesHold` |
| `ResolutionStaysCoherent` | `Spec => []ResolutionCoherent` |
| `ManualReferencesRefuse` | `Spec => []OnlyManualReferencesRefuse` |
| `ManualRowsStay` | `Spec => OnlyRelationsGoWithEntities` |
| `PackageGoes` | `Spec => PackageGoesWithArchive` |

None of the invariants about rows is inductive. That a delete leaves no row without evidence
depends on what it read before it removed the evidence, and that no foreign key
refuses it depends on who wrote the rows that are left. `IInv` says of the committed
tables, `Good(Db, recorded, deleted, held)`:

* `Sound`: the rows fit their tables (`Shape`), foreign keys are kept (`KeysOk`),
  a binding is between a piece of evidence that is stored and a grounded row, or a
  row that was swept (`Bound`); the worker writes rows of five tables and the
  resolver of three, with references into their own package only (`Makers`); and what
  the resolver wrote stands on evidence of its package's archive (`OwnEvidence`);
* `Coherent`: the two parts of `ResolutionCoherent`, with what makes them last: the
  sides of a conflict are the resolver's own rows in its own package, so they are
  cleared with it;
* `PackageOk`: a document that is not deleted has at most one package, the one that
  its `adapter.json` names, and is a member of it;
* `HeldOk`: what an attempt or a delete has read is still so. Every binding to the
  document's evidence is among those the resolution has seen, and every row that has
  some is among those the delete has read, or was `raced`;
* `Grounding`: a grounded row has evidence that no delete is removing, or the delete
  takes the row as well. Two deletes that each rely on the evidence of the other are
  why this speaks of all of them.

A DELETE is a fold over four waves. `KeyTable` lists which foreign keys the models
declare, from which it follows what refers to what (`GoAlone`, `GoWithRelations`):
the rows that `drop_document_evidence` removes table by table, and
`clear_package_identities` removes in its three statements, are referred to by nothing
that is still there, except by relations, which go along, and by a caller's optional
references, on which the delete is refused (`TakeOut`). In a resolution every
statement keeps `Stage`: the database is sound and coherent, the committed rows that
are left are as they were, and the others were made by the attempt on evidence of its
own (`Grown`). The loops
over names and over pairs of mentions are folds of `PrefixFold`, whose operation takes
what a loop does not change as a parameter. In a delete every statement keeps `Sweeps`:
the database is the committed one without the evidence of the document and without
rows that had a reason to go; `Swept` says that none is left that had to go, and
`Left` that the package is gone or has other members.

Only model-checked: liveness (`EveryJobSettles`, `EverythingSettles`), which is outside
the prover, and
`Migrations` with its invariants and `RowsSurvive`. There the revisions and the
metadata are fixed data and no constant but the number of migrators and of rows enters:
the properties compare what twelve revisions leave, table by table, and that is
something to compute, which the run does for every revision and every command.

## 5. Where code and documentation disagree

With a run each:

* `stopped_worker`: `app/worker.py` says a claim is released by the transaction
  when a worker stops. The claim is committed before the work begins; a killed
  worker leaves the job `processing` for good.
* `replaced_relations`: `detect_relations` says it replaces the relations a
  document had. It updates those of the same type and leaves the others: the
  earlier verdict stays beside the new one.
* `manual_rows`: `clear_package_identities` says "Manual rows are left intact". The
  DELETE of the resolver's entities (`app/services/engineering.py:639`) cascades along
  the foreign keys of `engineering_relations`, and a relation that a caller drew to
  such an entity goes with it. `OnlyRelationsGoWithEntities` says that nothing else does.

Met while modelling, without a run of their own:

* `docs/PRIVACY.md` says a delete removes the normalized artifact and the
  ingestion jobs. An attempt stores the artifact before the transaction that
  records its key; if the attempt fails and the document is then deleted, the
  object stays (and so do archive members without their `adapter.json`). A worker
  that claimed the job earlier inserts it again with `session.merge`.
  `DeletedIsErased` speaks of what the rows refer to and of the index.
* `mark_failed` says a stale worker changes nothing. After a commit whose answer
  is lost, the merge of the stale copy makes the finished job `processing` again
  first, and a ready document is queued or failed.
* `search` says a model change cannot rank two spaces against each other. It
  scores in Qdrant before it reads the identity; a reindex that commits in between
  keeps the chunk ids, so the old score passes the check.
  `MixedOnlyAcrossReindex` shows that this window and aborted operations are the
  only ways.
* `index_document` says it records which model produced the vectors. A tenant
  reindex that loaded the document before a program of the other model reindexed
  it rewrites the points and emits no UPDATE: with `Rolling = TRUE`
  `IndexMatchesRows` does not hold.
* Documents without text (archives, images) all have the hash of the empty text,
  and `gather_candidates` relates every two of them as `content_duplicate`,
  although `process_job` looks for duplicates only `if normalized`.
* `docs/PRIVACY.md:67-83` says a delete removes the document's relations and that
  whoever commits second sees the truth. The attempt of *another* document may have
  read this one as a candidate before the delete committed; the row is soft-deleted, so
  the foreign key accepts the relation that is inserted after it. `DeletedUnrelated`
  exempts these pairs (`late`), and only these.
* `docs/PRIVACY.md:85-88` says a retried delete converges. If the first one failed after
  `adapter.json` had gone, the retry cannot learn the package id any more, and the
  generated package stays. `PackageGoesWithArchive` exempts the archives whose
  `adapter.json` is lost (`recorded = Lost`).
* `reindex_tenant` counts failures "so an operator is not told the corpus is current".
  It keeps the row of every document it has seen, and an ingestion that inserts
  relations waits for such rows while it holds its own, so the two can wait in a
  circle. If PostgreSQL chooses the reindex, `except Exception`
  (`app/services/reindexing.py:199`) counts the error for the document at hand and
  goes on in a transaction that has been aborted; the commit at the end of the request is
  then a rollback, and the answer still counts as reindexed the documents whose rows
  were rolled back. `VectorIndex` has the rollback (`Fails`, which leaves them `torn`),
  and not the answer.
* The comments at `migrations/versions/0005_normalized_artifact.py:10-11` and
  `tests/test_migrations.py:33-39` say that a revision id that is too long leaves its
  DDL applied and unrecorded. `migrations/env.py` runs a command in one transaction,
  DDL is transactional in PostgreSQL, and the failing UPDATE of `alembic_version` rolls
  it back with the rest (`Migrate`).

## 6. Not modelled

* question answering, the pipeline view, documents and tenants, health and
  metadata endpoints: they read committed rows and keep no state; what a search
  can read is in `VectorIndex`;
* adapters, `entity_extract.py`, the text side of `classification.py` and of
  profiling, normalization: regular expressions over text, whose results are
  inputs of `Packages`, `Evidence` and `Relations`;
* rank fusion, reranking, the combination of chunk vectors: floating-point
  arithmetic over one answer;
* parsers, embedding and language models, storage backends: remote calls, of which
  the models keep that any of them may fail;
* the evaluation harness and the machine packages it generates: an offline,
  sequential program over a fixed corpus;
* settings, database URL handling, tracing, deployment files, the web cockpit: no
  state of the service.

No module holds all components. Each pair that shares rows is composed where the
sharing can decide something: `Ingestion` has packages and relations as steps of an
attempt that may fail; `Relations`, `Packages` and `Evidence` have the attempt as one
transaction with the lock it holds; reindexing meets relations in `VectorIndex`, through
the locks their foreign keys take on documents, and the rows of relations are locked in
`Relations` only. Circles through both kinds of locks exist in the program; no module
has them in one piece, as each ends with the rollback of one transaction, which every
module has at every step where it can wait.

## 7. Running

```
tlc -workers 2 -config job_queue.cfg MCJobQueue
tlc -workers 2 -config ingestion.cfg MCIngestion            # uploads, stopped_worker
tlc -workers 2 -config vector_index.cfg MCVectorIndex       # index_locks
tlc -workers 2 -config relations.cfg MCRelations            # replaced_relations
tlc -workers 2 -config packages.cfg MCPackages
tlc -workers 2 -config migrations.cfg MCMigrations
tlc -workers 2 -config evidence.cfg MCEvidence              # manual_rows
tlapm JobQueueProofs.tla
tlapm RelationsProofs.tla
tlapm IngestionProofs.tla
tlapm VectorIndexProofs.tla
tlapm PrefixFold.tla
tlapm PackagesProofs.tla
tlapm EvidenceTables.tla
tlapm EvidenceProofs.tla
```
