------------------------------ MODULE JobRows ------------------------------
(***************************************************************************)
(* One row of the table ingestion_jobs (app/models.py, IngestionJob) and   *)
(* what the statements of app/services/jobs.py write into it.  The job     *)
(* queue and the ingestion pipeline both build on these operators.         *)
(*                                                                         *)
(* Columns left out: tenant_id (every statement repeats it, a job never    *)
(* changes tenant), last_error and the audit timestamps (nothing reads     *)
(* them back), max_attempts (enqueue is only ever called with its default, *)
(* so it is the constant MaxAttempts).                                     *)
(***************************************************************************)
EXTENDS Naturals

CONSTANTS
  MaxAttempts,   (* max_attempts: how often a job may be tried             *)
  Nobody         (* claimed_by IS NULL                                     *)

ASSUME MaxAttemptsAssumption == MaxAttempts \in Nat \ {0}

JobStatus == {"queued", "processing", "finished", "failed"}

\* The statuses of the partial unique index uq_ingestion_jobs_live_document.
LiveStatus == {"queued", "processing"}

JobRow(Documents, WorkerIds) ==
  [document: Documents, status: JobStatus, attempts: Nat,
   claimedBy: WorkerIds \cup {Nobody}, availableAt: Nat]

\* The row enqueue inserts: due at once, never tried.
QueuedRow(d, now) ==
  [document |-> d, status |-> "queued", attempts |-> 0,
   claimedBy |-> Nobody, availableAt |-> now]

\* The UPDATE of claim: the attempt is paid for when the job is taken.
ClaimedRow(row, worker) ==
  [row EXCEPT !.status = "processing", !.claimedBy = worker, !.attempts = @ + 1]

\* Mutant: the status of the document's enumeration.
FinishedRowReady(row) ==
  [row EXCEPT !.status = "ready", !.claimedBy = Nobody]

\* Mutant: the job goes back to the queue.
FinishedRowRequeued(row) ==
  [row EXCEPT !.status = "queued", !.claimedBy = Nobody]

\* The UPDATE of finish.
FinishedRow(row) ==
  [row EXCEPT !.status = "finished", !.claimedBy = Nobody]

\* Mutant: one attempt too many.
FailedRowLate(row, retryAt) ==
  IF row.attempts > MaxAttempts
  THEN [row EXCEPT !.status = "failed", !.claimedBy = Nobody]
  ELSE [row EXCEPT !.status = "queued", !.claimedBy = Nobody, !.availableAt = retryAt]

\* Mutant: a retry is scheduled, the status is forgotten.
FailedRowStuck(row, retryAt) ==
  IF row.attempts >= MaxAttempts
  THEN [row EXCEPT !.status = "failed", !.claimedBy = Nobody]
  ELSE [row EXCEPT !.claimedBy = Nobody, !.availableAt = retryAt]

\* The assignments of fail: the last attempt fails the job, any other one
\* queues it again behind the retry delay.
FailedRow(row, retryAt) ==
  IF row.attempts >= MaxAttempts
  THEN [row EXCEPT !.status = "failed", !.claimedBy = Nobody]
  ELSE [row EXCEPT !.status = "queued", !.claimedBy = Nobody, !.availableAt = retryAt]

\* The predicate finish and fail put on the row: a job in hand, taken by the caller.
IsClaimOf(row, worker) == row.status = "processing" /\ row.claimedBy = worker
=============================================================================
