----------------------------- MODULE Ingestion -----------------------------
(***************************************************************************)
(* The life of a document across the three stores of the system: the rows  *)
(* in PostgreSQL, the objects in storage and the vectors in Qdrant.        *)
(*                                                                         *)
(*   upload    api/documents.py, services/ingestion.py                     *)
(*   worker    worker.py, services/processing.py, package_intake.py,       *)
(*             indexing.py, vector_store.py                                *)
(*   delete    api/documents.py, services/deletion.py                      *)
(*                                                                         *)
(* PostgreSQL is transactional, the other two stores are not: an operation *)
(* writes objects and vectors one call at a time while its transaction is  *)
(* open, and any call may fail, which rolls back the rows and nothing      *)
(* else.  The variables of the database hold COMMITTED values; what an     *)
(* open transaction wrote is a function of its program counter and is      *)
(* applied by its commit.  Row locks (SELECT ... FOR UPDATE) are explicit  *)
(* because they are what orders the worker and the deleter.                *)
(*                                                                         *)
(* A document has exactly one job, created with it: ingest_upload is the   *)
(* only caller of enqueue.  What is derived from a document is identified  *)
(* by the attempt that derived it, since every attempt makes chunks with   *)
(* fresh keys.                                                             *)
(***************************************************************************)
EXTENDS JobRows, FiniteSets

CONSTANTS
  Documents,     (* ids uploads may draw                                   *)
  Hashes,        (* (tenant, sha256 of the bytes)                          *)
  HashOf,        (* the bytes each document would be an upload of          *)
  Textless,      (* documents that parse to no chunks                      *)
  Archives,      (* zip archives: textless, members are stored one by one  *)
  Workers,       (* worker processes                                       *)
  WorkerIds,     (* values of the setting worker_id                        *)
  WorkerIdOf,    (* the worker_id of each process, "worker" by default     *)
  BatchSize,     (* worker_batch_size                                      *)
  Uploaders,     (* concurrent upload requests                             *)
  Deleters,      (* concurrent delete requests                             *)
  Faults,        (* the faults outside the program that may happen         *)
  NoRow,         (* the document has no job                                *)
  NoDocument     (* the process works on no document                       *)

Requests == Uploaders \cup Deleters
Row == JobRow(Documents, WorkerIds)

ASSUME IngestionAssumption ==
  /\ HashOf \in [Documents -> Hashes]
  /\ Textless \subseteq Documents /\ Archives \subseteq Textless
  /\ WorkerIdOf \in [Workers -> WorkerIds]
  /\ Nobody \notin Workers \cup Requests \cup WorkerIds
  /\ Workers \cap Requests = {} /\ Uploaders \cap Deleters = {}
  /\ BatchSize \in Nat \ {0}
  /\ Faults \subseteq {"crash", "ambiguous"}
  /\ NoRow \notin Row /\ NoDocument \notin Documents

VARIABLES
  (* PostgreSQL, committed *)
  life,          (* no row, a live row, a row with deleted_at              *)
  status,        (* documents.status; "processing" is never committed      *)
  normalized,    (* documents whose normalized_key is set                  *)
  chunks,        (* attempt whose chunks are in the table, 0 for none      *)
  jobs,          (* the job row of each document                           *)
  (* PostgreSQL, locks of open transactions *)
  docLock, jobLock, hashLock,
  (* object storage and Qdrant *)
  objects,       (* kinds of object stored for each document               *)
  points,        (* attempts whose chunk points are in the collection      *)
  docVector,     (* attempt whose document vector is stored, 0 for none    *)
  (* workers *)
  wpc, cur,      (* step and document at hand                              *)
  claimed,       (* claimed[w][d]: attempts in w's copy of the job, 0: none *)
  merged,        (* what session.merge found under the job's key           *)
  (* requests *)
  rpc, rdoc,
  (* history *)
  scrubbed       (* live documents a delete began to erase and gave up on  *)

rowVars == <<life, status, normalized, chunks, jobs>>
lockVars == <<docLock, jobLock, hashLock>>
storeVars == <<objects, points, docVector>>
workerVars == <<wpc, cur, claimed, merged>>
requestVars == <<rpc, rdoc>>
vars == <<rowVars, lockVars, storeVars, workerVars, requestVars, scrubbed>>

Init ==
  /\ life = [d \in Documents |-> "absent"]
  /\ status = [d \in Documents |-> "queued"]
  /\ normalized = {}
  /\ chunks = [d \in Documents |-> 0]
  /\ jobs = [d \in Documents |-> NoRow]
  /\ docLock = [d \in Documents |-> Nobody]
  /\ jobLock = [d \in Documents |-> Nobody]
  /\ hashLock = [h \in Hashes |-> Nobody]
  /\ objects = [d \in Documents |-> {}]
  /\ points = [d \in Documents |-> {}]
  /\ docVector = [d \in Documents |-> 0]
  /\ wpc = [w \in Workers |-> "idle"]
  /\ cur = [w \in Workers |-> NoDocument]
  /\ claimed = [w \in Workers |-> [d \in Documents |-> 0]]
  /\ merged = [w \in Workers |-> "same"]
  /\ rpc = [r \in Requests |-> "idle"]
  /\ rdoc = [r \in Requests |-> NoDocument]
  /\ scrubbed = {}

-----------------------------------------------------------------------------
(* ingest_upload                                                           *)

\* The advisory lock on the bytes is free, no live document holds them, and the
\* row is inserted under a fresh id.  (When a live document holds them the
\* request answers with it and changes nothing.)
UploadBegin(r, d) ==
  /\ rpc[r] = "idle"
  /\ life[d] = "absent" /\ objects[d] = {}
  /\ \A q \in Requests : rdoc[q] # d
  /\ hashLock[HashOf[d]] = Nobody
  /\ \A e \in Documents : life[e] = "live" => HashOf[e] # HashOf[d]
  /\ hashLock' = [hashLock EXCEPT ![HashOf[d]] = r]
  /\ rpc' = [rpc EXCEPT ![r] = "put"]
  /\ rdoc' = [rdoc EXCEPT ![r] = d]
  /\ UNCHANGED <<rowVars, docLock, jobLock, storeVars, workerVars, scrubbed>>

\* Mutant: the object is left for after the commit.
UploadPutLater(r) ==
  /\ rpc[r] = "put"
  /\ rpc' = [rpc EXCEPT ![r] = "enqueue"]
  /\ UNCHANGED <<rowVars, lockVars, storeVars, workerVars, rdoc, scrubbed>>

\* The object is stored before the row can be seen.
UploadPut(r) ==
  /\ rpc[r] = "put"
  /\ objects' = [objects EXCEPT ![rdoc[r]] = @ \cup {"original"}]
  /\ rpc' = [rpc EXCEPT ![r] = "enqueue"]
  /\ UNCHANGED <<rowVars, lockVars, points, docVector, workerVars, rdoc, scrubbed>>

EndUpload(r) ==
  /\ hashLock' = [hashLock EXCEPT ![HashOf[rdoc[r]]] = Nobody]
  /\ rpc' = [rpc EXCEPT ![r] = "idle"]
  /\ rdoc' = [rdoc EXCEPT ![r] = NoDocument]

\* enqueue, and the commit at the end of the request.
UploadCommit(r) ==
  /\ rpc[r] = "enqueue"
  /\ life' = [life EXCEPT ![rdoc[r]] = "live"]
  /\ status' = [status EXCEPT ![rdoc[r]] = "queued"]
  /\ jobs' = [jobs EXCEPT ![rdoc[r]] = QueuedRow(rdoc[r], 0)]
  /\ EndUpload(r)
  /\ UNCHANGED <<normalized, chunks, docLock, jobLock, storeVars, workerVars, scrubbed>>

UploadFails(r) ==
  /\ rpc[r] \in {"put", "enqueue"}
  /\ EndUpload(r)
  /\ UNCHANGED <<rowVars, docLock, jobLock, storeVars, workerVars, scrubbed>>

-----------------------------------------------------------------------------
(* process_one_batch: the claim, in a transaction of its own.              *)

InHand(w) == {d \in Documents : claimed[w][d] # 0}

\* Jobs a claim may select.
Waiting == {d \in Documents : jobs[d] # NoRow /\ jobs[d].status = "queued" /\ jobLock[d] = Nobody}

\* Some due jobs, at most a batch (JobQueue says which); the rows come back
\* with the attempt already counted and stay in memory for the whole batch.
Claim(w) ==
  /\ wpc[w] = "idle" /\ InHand(w) = {}
  /\ \E S \in SUBSET Waiting :
       /\ S # {} /\ Cardinality(S) <= BatchSize
       /\ jobs' = [d \in Documents |->
                     IF d \in S THEN ClaimedRow(jobs[d], WorkerIdOf[w]) ELSE jobs[d]]
       /\ claimed' = [claimed EXCEPT ![w] =
                       [d \in Documents |-> IF d \in S THEN jobs[d].attempts + 1 ELSE 0]]
  /\ UNCHANGED <<life, status, normalized, chunks, lockVars, storeVars,
                 wpc, cur, merged, requestVars, scrubbed>>

\* The job row as the worker remembers it.
Snapshot(w, d) ==
  [document |-> d, status |-> "processing", attempts |-> claimed[w][d],
   claimedBy |-> WorkerIdOf[w], availableAt |-> 0]

\* session.merge reads the row by key: a missing row will be inserted, a
\* different one overwritten with the remembered values.
Compare(w, d) ==
  IF jobs[d] = NoRow THEN "missing" ELSE IF jobs[d] = Snapshot(w, d) THEN "same" ELSE "differs"

\* The row after the flush of the merged copy.
MergedRow(w, d) == IF merged[w] = "same" THEN jobs[d] ELSE Snapshot(w, d)

\* Open the job's own transaction; the batch is worked through in any order.
Merge(w, d) ==
  /\ wpc[w] = "idle"
  /\ d \in InHand(w)
  /\ wpc' = [wpc EXCEPT ![w] = "lock"]
  /\ cur' = [cur EXCEPT ![w] = d]
  /\ merged' = [merged EXCEPT ![w] = Compare(w, d)]
  /\ UNCHANGED <<rowVars, lockVars, storeVars, claimed, requestVars, scrubbed>>

-----------------------------------------------------------------------------
(* process_job: one document, one transaction, several stores.             *)

\* Wait for the document's row; a delete that committed first is seen here.
LockDocument(w) ==
  /\ wpc[w] = "lock"
  /\ docLock[cur[w]] = Nobody
  /\ docLock' = [docLock EXCEPT ![cur[w]] = w]
  /\ wpc' = [wpc EXCEPT ![w] = IF life[cur[w]] = "deleted" THEN "skip" ELSE "store"]
  /\ UNCHANGED <<rowVars, jobLock, hashLock, storeVars, cur, claimed, merged, requestVars, scrubbed>>

Step(w, from, to) ==
  /\ wpc[w] = from
  /\ wpc' = [wpc EXCEPT ![w] = to]
  /\ UNCHANGED <<rowVars, lockVars, cur, claimed, merged, requestVars, scrubbed>>

\* Read the original, parse it, store the parsed form.
StoreNormalized(w) ==
  /\ Step(w, "store", IF cur[w] \in Archives THEN "members" ELSE "adapter")
  /\ "original" \in objects[cur[w]]
  /\ objects' = [objects EXCEPT ![cur[w]] = @ \cup {"normalized"}]
  /\ UNCHANGED <<points, docVector>>

\* _ingest_zip stores the members of an archive ...
StoreMembers(w) ==
  /\ Step(w, "members", "adapter")
  /\ objects' = [objects EXCEPT ![cur[w]] = @ \cup {"members"}]
  /\ UNCHANGED <<points, docVector>>

\* ... and ingest_artifact then stores the list of what the adapters found.
StoreAdapter(w) ==
  /\ Step(w, "adapter", "clear")
  /\ objects' = [objects EXCEPT ![cur[w]] = @ \cup {"adapter"}]
  /\ UNCHANGED <<points, docVector>>

\* Mutant: the points of earlier attempts stay.
PointsKept(w) ==
  /\ Step(w, "clear", IF cur[w] \in Textless THEN "vector" ELSE "upsert")
  /\ UNCHANGED <<objects, points, docVector>>

\* index_document removes the points of earlier attempts ...
ClearPoints(w) ==
  /\ Step(w, "clear", IF cur[w] \in Textless THEN "vector" ELSE "upsert")
  /\ points' = [points EXCEPT ![cur[w]] = {}]
  /\ UNCHANGED <<objects, docVector>>

\* ... and writes the ones of this attempt's chunks.
UpsertPoints(w) ==
  /\ Step(w, "upsert", "vector")
  /\ points' = [points EXCEPT ![cur[w]] = @ \cup {claimed[w][cur[w]]}]
  /\ UNCHANGED <<objects, docVector>>

\* The attempt's chunks as far as anyone can tell: none for a textless document.
Derived(w) == IF cur[w] \in Textless THEN 0 ELSE claimed[w][cur[w]]

\* Profiled by now: the document vector is replaced, or removed for want of chunks.
WriteVector(w) ==
  /\ Step(w, "vector", "commit")
  /\ docVector' = [docVector EXCEPT ![cur[w]] = Derived(w)]
  /\ UNCHANGED <<objects, points>>

\* finish: the UPDATE matches a processing row of this worker_id or nothing.
FinishJob(w, d) ==
  LET row == MergedRow(w, d) IN
  jobs' = [jobs EXCEPT ![d] =
             IF row # NoRow /\ IsClaimOf(row, WorkerIdOf[w]) THEN FinishedRow(row) ELSE row]

\* The worker is done with the job at hand.
EndJob(w) ==
  /\ wpc' = [wpc EXCEPT ![w] = "idle"]
  /\ cur' = [cur EXCEPT ![w] = NoDocument]
  /\ claimed' = [claimed EXCEPT ![w][cur[w]] = 0]
  /\ merged' = [merged EXCEPT ![w] = "same"]

\* The commit was applied, but the answer was lost: the worker takes the
\* exception for a failed attempt.
LoseAnswer(w) ==
  /\ "ambiguous" \in Faults
  /\ wpc' = [wpc EXCEPT ![w] = "failed"]
  /\ UNCHANGED <<cur, claimed, merged>>

\* The transaction that held the lock has ended.
Unlock(lock, d) == [lock EXCEPT ![d] = Nobody]

\* Chunks, parsed form, status and finished job become visible together.
CommitReady(w) ==
  /\ wpc[w] = "commit"
  /\ status' = [status EXCEPT ![cur[w]] = "ready"]
  /\ normalized' = normalized \cup {cur[w]}
  /\ chunks' = [chunks EXCEPT ![cur[w]] = Derived(w)]
  /\ FinishJob(w, cur[w])
  /\ docLock' = Unlock(docLock, cur[w])
  /\ EndJob(w) \/ LoseAnswer(w)
  /\ UNCHANGED <<life, jobLock, hashLock, storeVars, requestVars, scrubbed>>

\* The document was deleted: nothing to do but finish the job.
CommitSkip(w) ==
  /\ wpc[w] = "skip"
  /\ FinishJob(w, cur[w])
  /\ docLock' = Unlock(docLock, cur[w])
  /\ EndJob(w) \/ LoseAnswer(w)
  /\ UNCHANGED <<life, status, normalized, chunks, jobLock, hashLock, storeVars, requestVars, scrubbed>>

Processing == {"lock", "store", "members", "adapter", "clear", "upsert", "vector", "commit", "skip"}

\* Anything on the way raised: the transaction is rolled back, and only it.
AttemptFails(w) ==
  /\ wpc[w] \in Processing
  /\ docLock' = IF wpc[w] = "lock" THEN docLock ELSE Unlock(docLock, cur[w])
  /\ wpc' = [wpc EXCEPT ![w] = "failed"]
  /\ UNCHANGED <<rowVars, jobLock, hashLock, storeVars, cur, claimed, merged, requestVars, scrubbed>>

-----------------------------------------------------------------------------
(* mark_failed, in a second transaction.                                   *)

MergeFailed(w) ==
  /\ wpc[w] = "failed"
  /\ wpc' = [wpc EXCEPT ![w] = "record"]
  /\ merged' = [merged EXCEPT ![w] = Compare(w, cur[w])]
  /\ UNCHANGED <<rowVars, lockVars, storeVars, cur, claimed, requestVars, scrubbed>>

\* fail locks the row, if it is still there.
LockJob(w) ==
  /\ wpc[w] = "record" /\ merged[w] # "missing"
  /\ jobs[cur[w]] # NoRow /\ jobLock[cur[w]] = Nobody
  /\ jobLock' = [jobLock EXCEPT ![cur[w]] = w]
  /\ wpc' = [wpc EXCEPT ![w] = "recorded"]
  /\ UNCHANGED <<rowVars, docLock, hashLock, storeVars, cur, claimed, merged, requestVars, scrubbed>>

\* The merged copy is inserted again; its foreign key locks the document.
InsertJob(w) ==
  /\ wpc[w] = "record" /\ merged[w] = "missing"
  /\ docLock[cur[w]] = Nobody
  /\ docLock' = [docLock EXCEPT ![cur[w]] = w]
  /\ wpc' = [wpc EXCEPT ![w] = "recorded"]
  /\ UNCHANGED <<rowVars, jobLock, hashLock, storeVars, cur, claimed, merged, requestVars, scrubbed>>

\* The worker's process ends; the database rolls its transaction back.
Die(w) ==
  /\ wpc' = [wpc EXCEPT ![w] = "idle"]
  /\ cur' = [cur EXCEPT ![w] = NoDocument]
  /\ claimed' = [claimed EXCEPT ![w] = [d \in Documents |-> 0]]
  /\ merged' = [merged EXCEPT ![w] = "same"]

\* The row was deleted after the merge: fail finds nothing and the document is
\* left alone.  Only the flush of an overwritten copy misses the row and raises.
JobGone(w) ==
  /\ wpc[w] = "record" /\ merged[w] # "missing"
  /\ jobs[cur[w]] = NoRow
  /\ IF merged[w] = "same" THEN EndJob(w) ELSE Die(w)
  /\ UNCHANGED <<rowVars, lockVars, storeVars, requestVars, scrubbed>>

\* Mutant: every failure reads as the last one.
FailedAtOnce(row) == "failed"

\* What mark_failed writes into the document.
FailedStatus(row) == IF row.status = "failed" THEN "failed" ELSE "queued"

\* Job and document are updated together.  The document is written only when
\* its status changes, and then its row has to be free.
RecordFailure(w) ==
  LET d == cur[w]
      row == FailedRow(MergedRow(w, d), 0)
  IN /\ wpc[w] = "recorded"
     /\ status[d] # FailedStatus(row) => docLock[d] \in {Nobody, w}
     /\ IF IsClaimOf(MergedRow(w, d), WorkerIdOf[w])
        THEN /\ jobs' = [jobs EXCEPT ![d] = row]
             /\ status' = [status EXCEPT ![d] = FailedStatus(row)]
        ELSE UNCHANGED <<jobs, status>>
     /\ jobLock' = Unlock(jobLock, d)
     /\ docLock' = IF docLock[d] = w THEN Unlock(docLock, d) ELSE docLock
     /\ EndJob(w)
     /\ UNCHANGED <<life, normalized, chunks, hashLock, storeVars, requestVars, scrubbed>>

Release(lock, p) == [d \in Documents |-> IF lock[d] = p THEN Nobody ELSE lock[d]]

\* The process is killed.  It comes back idle: nothing it held is remembered.
Crash(w) ==
  /\ "crash" \in Faults
  /\ InHand(w) # {}
  /\ docLock' = Release(docLock, w)
  /\ jobLock' = Release(jobLock, w)
  /\ Die(w)
  /\ UNCHANGED <<rowVars, hashLock, storeVars, requestVars, scrubbed>>

-----------------------------------------------------------------------------
(* delete_document                                                         *)

\* Mutant: the row is read, not locked.
DeleteBeginUnlocked(r, d) ==
  /\ rpc[r] = "idle"
  /\ life[d] # "absent"
  /\ rpc' = [rpc EXCEPT ![r] = "points"]
  /\ rdoc' = [rdoc EXCEPT ![r] = d]
  /\ UNCHANGED <<rowVars, lockVars, storeVars, workerVars, scrubbed>>

\* Any document that has a row, deleted or not, is locked before any work.
DeleteBegin(r, d) ==
  /\ rpc[r] = "idle"
  /\ life[d] # "absent"
  /\ docLock[d] = Nobody
  /\ docLock' = [docLock EXCEPT ![d] = r]
  /\ rpc' = [rpc EXCEPT ![r] = "points"]
  /\ rdoc' = [rdoc EXCEPT ![r] = d]
  /\ UNCHANGED <<rowVars, jobLock, hashLock, storeVars, workerVars, scrubbed>>

Erase(r, from, to) ==
  /\ rpc[r] = from
  /\ rpc' = [rpc EXCEPT ![r] = to]
  /\ scrubbed' = scrubbed \cup {rdoc[r]}
  /\ UNCHANGED <<rowVars, lockVars, workerVars, rdoc>>

DeletePoints(r) ==
  /\ Erase(r, "points", "vector")
  /\ points' = [points EXCEPT ![rdoc[r]] = {}]
  /\ UNCHANGED <<objects, docVector>>

DeleteVector(r) ==
  /\ Erase(r, "vector", "original")
  /\ docVector' = [docVector EXCEPT ![rdoc[r]] = 0]
  /\ UNCHANGED <<objects, points>>

DeleteOriginal(r) ==
  /\ Erase(r, "original", "normalized")
  /\ objects' = [objects EXCEPT ![rdoc[r]] = @ \ {"original"}]
  /\ UNCHANGED <<points, docVector>>

\* Only a key the row remembers is deleted.
DeleteNormalized(r) ==
  /\ Erase(r, "normalized", "adapter")
  /\ objects' = [objects EXCEPT ![rdoc[r]] =
                   IF rdoc[r] \in normalized THEN @ \ {"normalized"} ELSE @]
  /\ UNCHANGED <<points, docVector>>

\* The members are found through the list the adapters stored.
DeleteAdapter(r) ==
  /\ Erase(r, "adapter", "rows")
  /\ objects' = [objects EXCEPT ![rdoc[r]] =
                   IF "adapter" \in @ THEN @ \ {"members", "adapter"} ELSE @]
  /\ UNCHANGED <<points, docVector>>

EndDelete(r) ==
  /\ docLock' = Unlock(docLock, rdoc[r])
  /\ rpc' = [rpc EXCEPT ![r] = "idle"]
  /\ rdoc' = [rdoc EXCEPT ![r] = NoDocument]

\* The rows go last; the job's row has to be free.
DeleteCommit(r) ==
  /\ rpc[r] = "rows"
  /\ jobLock[rdoc[r]] = Nobody
  /\ life' = [life EXCEPT ![rdoc[r]] = "deleted"]
  /\ chunks' = [chunks EXCEPT ![rdoc[r]] = 0]
  /\ jobs' = [jobs EXCEPT ![rdoc[r]] = NoRow]
  /\ scrubbed' = scrubbed \ {rdoc[r]}
  /\ EndDelete(r)
  /\ UNCHANGED <<status, normalized, jobLock, hashLock, storeVars, workerVars>>

Erasing == {"points", "vector", "original", "normalized", "adapter", "rows"}

DeleteFails(r) ==
  /\ rpc[r] \in Erasing
  /\ EndDelete(r)
  /\ UNCHANGED <<rowVars, jobLock, hashLock, storeVars, workerVars, scrubbed>>

\* mark_failed holds the job and waits for the document, the delete holds the
\* document and waits for the job.
Deadlock(w, r) ==
  /\ wpc[w] = "recorded" /\ rpc[r] = "rows"
  /\ cur[w] = rdoc[r] /\ jobLock[cur[w]] = w
  /\ status[cur[w]] # FailedStatus(FailedRow(MergedRow(w, cur[w]), 0))

\* PostgreSQL aborts one of the two; the exception ends the worker's process.
BreakDeadlock(w, r) ==
  /\ Deadlock(w, r)
  /\ \/ /\ jobLock' = Unlock(jobLock, cur[w])
        /\ Die(w)
        /\ UNCHANGED <<docLock, requestVars>>
     \/ /\ EndDelete(r)
        /\ UNCHANGED <<jobLock, workerVars>>
  /\ UNCHANGED <<rowVars, hashLock, storeVars, scrubbed>>

-----------------------------------------------------------------------------
UploadStep(r) == UploadPut(r) \/ UploadCommit(r) \/ UploadFails(r)

JobProgress(w) ==
  \/ \E d \in Documents : Merge(w, d)
  \/ LockDocument(w) \/ StoreNormalized(w) \/ StoreMembers(w) \/ StoreAdapter(w)
  \/ ClearPoints(w) \/ UpsertPoints(w) \/ WriteVector(w)
  \/ CommitReady(w) \/ CommitSkip(w)
  \/ MergeFailed(w) \/ LockJob(w) \/ InsertJob(w) \/ JobGone(w) \/ RecordFailure(w)

DeleteProgress(r) ==
  \/ DeletePoints(r) \/ DeleteVector(r) \/ DeleteOriginal(r)
  \/ DeleteNormalized(r) \/ DeleteAdapter(r) \/ DeleteCommit(r)

\* Nothing is left to do: every job is settled and nobody calls.
Rest ==
  /\ \A w \in Workers : wpc[w] = "idle" /\ InHand(w) = {}
  /\ \A r \in Requests : rpc[r] = "idle"
  /\ Waiting = {}
  /\ UNCHANGED vars

Next ==
  \/ \E r \in Uploaders, d \in Documents : UploadBegin(r, d)
  \/ \E r \in Uploaders : UploadStep(r)
  \/ \E w \in Workers : Claim(w) \/ JobProgress(w) \/ AttemptFails(w) \/ Crash(w)
  \/ \E r \in Deleters, d \in Documents : DeleteBegin(r, d)
  \/ \E r \in Deleters : DeleteProgress(r) \/ DeleteFails(r)
  \/ \E w \in Workers, r \in Deleters : BreakDeadlock(w, r)
  \/ Rest

Spec == Init /\ [][Next]_vars

(***************************************************************************)
(* Workers poll, finish the batch in hand and record failures; a request   *)
(* that was begun is carried on; PostgreSQL breaks every deadlock and lets *)
(* those who wait for a row have it in turn (strong fairness).  The owed   *)
(* steps do not include failures: those may happen but need not.           *)
(* A storage read of an object that is gone is the one step that cannot    *)
(* succeed, so the failure is owed there.                                  *)
(***************************************************************************)
MissingOriginal(w) ==
  wpc[w] = "store" /\ "original" \notin objects[cur[w]] /\ AttemptFails(w)

Fairness ==
  /\ \A w \in Workers :
       /\ WF_vars(Claim(w)) /\ WF_vars(JobProgress(w)) /\ WF_vars(MissingOriginal(w))
       /\ SF_vars(LockDocument(w)) /\ SF_vars(InsertJob(w)) /\ SF_vars(RecordFailure(w))
  /\ \A r \in Uploaders : WF_vars(UploadStep(r))
  /\ \A r \in Deleters : WF_vars(DeleteProgress(r))
  /\ \A w \in Workers, r \in Deleters : WF_vars(BreakDeadlock(w, r))

FairSpec == Spec /\ Fairness

-----------------------------------------------------------------------------
(* Properties.                                                             *)

\* A document reads `ready` only while the chunks in the table are exactly the
\* ones in the index, its vector is theirs, and the objects its row points to
\* exist: whatever earlier attempts left behind (app/services/processing.py,
\* "a document reads `ready` only once its chunks are searchable").  A delete
\* that failed half way is the documented exception.
ReadyIsSearchable ==
  \A d \in Documents :
    life[d] = "live" /\ status[d] = "ready" /\ d \notin scrubbed =>
      /\ points[d] = IF d \in Textless THEN {} ELSE {chunks[d]}
      /\ docVector[d] = chunks[d]
      /\ chunks[d] = 0 <=> d \in Textless
      /\ d \in normalized
      /\ {"original", "normalized", "adapter"} \subseteq objects[d]

\* After a delete has committed, no vector, chunk, original or adapter output of
\* the document exists, and no worker that was already busy with it brings one
\* back (docs/PRIVACY.md, "Deletion").
DeletedIsErased ==
  \A d \in Documents :
    life[d] = "deleted" =>
      /\ points[d] = {} /\ docVector[d] = 0 /\ chunks[d] = 0
      /\ "original" \notin objects[d] /\ "adapter" \notin objects[d]
      /\ d \in normalized => "normalized" \notin objects[d]

\* Document and job tell the same story at every commit, although two
\* transactions of the worker and two of the API write them.
StatusAgreesWithJob ==
  \A d \in Documents :
    life[d] = "live" =>
      /\ jobs[d] # NoRow
      /\ status[d] = "queued" <=> jobs[d].status \in LiveStatus
      /\ status[d] = "ready" <=> jobs[d].status = "finished"
      /\ status[d] = "failed" <=> jobs[d].status = "failed"

\* A live row never points to an object that was not stored: the original is
\* put before the row is committed, the parsed form before its key.
NoDanglingReference ==
  \A d \in Documents :
    life[d] = "live" /\ d \notin scrubbed =>
      "original" \in objects[d] /\ (d \in normalized => "normalized" \in objects[d])

\* What a client sees is a path of the document lifecycle.
Lifecycle == INSTANCE DocumentLifecycle WITH
  phase <- [d \in Documents |-> IF life[d] = "live" THEN status[d] ELSE life[d]]

\* Retries, restarts and concurrent deletes never show a client anything but
\* absent, queued, ready or failed, deleted, in this order.
ImplementsLifecycle == Lifecycle!LifecycleSpec

\* The row names a worker for its job, but that worker has died.
Orphaned(d) ==
  /\ jobs[d] # NoRow /\ jobs[d].status = "processing" /\ jobs[d].claimedBy # Nobody
  /\ \A w \in Workers : d \notin InHand(w)

UploadsSettle ==
  \A d \in Documents :
    (life[d] = "live") ~>
      (life[d] = "deleted" \/ status[d] \in {"ready", "failed"} \/ Orphaned(d))

DeletesReturn == \A r \in Deleters : (rpc[r] # "idle") ~> (rpc[r] = "idle")

\* Every accepted upload becomes ready or failed, or is deleted, however often
\* deletes that give up half way take the document's row from the worker; only
\* a worker that dies (it may lose a deadlock) takes the job with it.  And every
\* delete that was begun is answered, even against a worker that is recording a
\* failure of the same document in the opposite lock order.
EverythingSettles == UploadsSettle /\ DeletesReturn

\* app/worker.py says of a worker that stops: "the claim is released by the
\* transaction either way".  A job that reads `processing` is in somebody's hands.
ClaimIsReleased == \A d \in Documents : ~ Orphaned(d)
=============================================================================
