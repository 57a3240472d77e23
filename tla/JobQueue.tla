------------------------------ MODULE JobQueue ------------------------------
(***************************************************************************)
(* The ingestion job queue in PostgreSQL: app/services/jobs.py.            *)
(*                                                                         *)
(* Every operation is a statement inside a transaction its caller opened,  *)
(* so the model has the committed rows (jobs) and, for each session, the   *)
(* rows its open transaction wrote (writes).  A row with an uncommitted    *)
(* write is locked: claim skips it (FOR UPDATE SKIP LOCKED), finish and    *)
(* fail wait for it, and the unique index makes an insert for the same     *)
(* document wait.  Sessions are of two kinds: callers enqueue (the upload  *)
(* endpoint), workers claim and complete (app/worker.py).  A worker may    *)
(* complete any claim it was ever handed, in any order and as often as it  *)
(* likes, which covers late and repeated completions.                      *)
(*                                                                         *)
(* Calls that find nothing to do (enqueue of a document that has a live    *)
(* job, claim with nothing due, finish or fail of a row that is not the    *)
(* caller's any more) write nothing and are stuttering steps.              *)
(***************************************************************************)
EXTENDS JobRows, FiniteSets

CONSTANTS
  Documents,     (* documents jobs are for                                 *)
  JobIds,        (* primary keys a new job may draw                        *)
  Callers,       (* sessions of the API                                    *)
  Workers,       (* sessions of the ingestion workers                      *)
  WorkerIds,     (* values of the setting worker_id                        *)
  WorkerIdOf,    (* the worker_id each worker runs with                    *)
  MayCrash,      (* workers that may die and lose what they hold           *)
  Limit,         (* batch size of a claim                                  *)
  RetryDelay,    (* retry_delay of fail, in clock ticks                    *)
  NoRow,         (* no row under this primary key                          *)
  NoDocument     (* the caller is not enqueueing                           *)

Sessions == Callers \cup Workers
Row == JobRow(Documents, WorkerIds)

ASSUME JobQueueAssumption ==
  /\ Callers \cap Workers = {}
  /\ IsFiniteSet(JobIds)
  /\ Nobody \notin WorkerIds
  /\ WorkerIdOf \in [Workers -> WorkerIds]
  /\ MayCrash \subseteq Workers
  /\ Limit \in Nat \ {0}
  /\ RetryDelay \in Nat \ {0}
  /\ NoRow \notin Row
  /\ NoDocument \notin Documents

VARIABLES
  jobs,          (* jobs[j]: the committed row with key j, or NoRow        *)
  mode,          (* mode[s]: no transaction, looked for a live job, wrote  *)
  target,        (* target[c]: the document the caller c is enqueueing     *)
  writes,        (* writes[s][j]: the row s wrote and has not committed    *)
  held,          (* held[w]: claims <<job, attempt>> handed to worker w    *)
  now            (* the database clock                                     *)

vars == <<jobs, mode, target, writes, held, now>>

NoWrites == [j \in JobIds |-> NoRow]
Locked(j) == \E s \in Sessions : writes[s][j] # NoRow
IsLive(row) == row # NoRow /\ row.status \in LiveStatus
HasLiveJob(d) == \E j \in JobIds : IsLive(jobs[j]) /\ jobs[j].document = d

Init ==
  /\ jobs = NoWrites
  /\ mode = [s \in Sessions |-> "idle"]
  /\ target = [c \in Callers |-> NoDocument]
  /\ writes = [s \in Sessions |-> NoWrites]
  /\ held = [w \in Workers |-> {}]
  /\ now = 0

-----------------------------------------------------------------------------
(* enqueue: look for a live job, insert one when there is none.            *)

\* get_live_job found nothing that is committed.
CheckLive(c, d) ==
  /\ mode[c] = "idle"
  /\ ~HasLiveJob(d)
  /\ mode' = [mode EXCEPT ![c] = "checked"]
  /\ target' = [target EXCEPT ![c] = d]
  /\ UNCHANGED <<jobs, writes, held, now>>

\* Mutant: an insert does not wait for uncommitted entries of the index.
IndexIgnored(d) == TRUE

\* The index entries of d are settled: no open transaction writes a row of d.
IndexSettled(d) ==
  \A s \in Sessions, j \in JobIds :
    writes[s][j] # NoRow => writes[s][j].document # d

\* The flush of the new row passes the unique index.
Insert(c) ==
  /\ mode[c] = "checked"
  /\ IndexSettled(target[c])
  /\ ~HasLiveJob(target[c])
  /\ \E j \in JobIds :
       /\ jobs[j] = NoRow /\ ~Locked(j)
       /\ writes' = [writes EXCEPT ![c][j] = QueuedRow(target[c], now)]
  /\ mode' = [mode EXCEPT ![c] = "open"]
  /\ target' = [target EXCEPT ![c] = NoDocument]
  /\ UNCHANGED <<jobs, held, now>>

\* Another caller committed a live job since the check: the flush raises and
\* the caller's transaction is rolled back.
InsertRejected(c) ==
  /\ mode[c] = "checked"
  /\ IndexSettled(target[c])
  /\ HasLiveJob(target[c])
  /\ mode' = [mode EXCEPT ![c] = "idle"]
  /\ target' = [target EXCEPT ![c] = NoDocument]
  /\ UNCHANGED <<jobs, writes, held, now>>

-----------------------------------------------------------------------------
(* claim.                                                                  *)

\* Mutant: FOR UPDATE without SKIP LOCKED in a plan that does not recheck.
ClaimableLockedToo ==
  {j \in JobIds : /\ jobs[j] # NoRow
                  /\ jobs[j].status = "queued"
                  /\ jobs[j].availableAt <= now}

\* Due rows no other transaction has locked.
Claimable ==
  {j \in JobIds : /\ jobs[j] # NoRow
                  /\ jobs[j].status = "queued"
                  /\ jobs[j].availableAt <= now
                  /\ ~Locked(j)}

\* The CTE due_jobs: the earliest available rows, as many as the limit allows.
\* Ties are broken by created_at and id, which the model leaves open.
DueJobs ==
  {S \in SUBSET Claimable :
     /\ S # {}
     /\ Cardinality(S) <= Limit
     /\ Cardinality(S) = Limit \/ S = Claimable
     /\ \A i \in S, k \in Claimable \ S : jobs[i].availableAt <= jobs[k].availableAt}

Claim(w) ==
  /\ mode[w] = "idle"
  /\ \E S \in DueJobs :
       writes' = [writes EXCEPT ![w] =
         [j \in JobIds |-> IF j \in S THEN ClaimedRow(jobs[j], WorkerIdOf[w]) ELSE NoRow]]
  /\ mode' = [mode EXCEPT ![w] = "open"]
  /\ UNCHANGED <<jobs, target, held, now>>

-----------------------------------------------------------------------------
(* finish and fail: only a processing row claimed by the caller.           *)

\* Mutant: the row is completed by its key alone.
OwnedByKey(w, j) == jobs[j] # NoRow /\ ~Locked(j)

\* Mutant: the claim's owner is not compared.
OwnedByAnyone(w, j) ==
  jobs[j] # NoRow /\ ~Locked(j) /\ jobs[j].status = "processing"

Owned(w, j) ==
  /\ jobs[j] # NoRow
  /\ ~Locked(j)
  /\ IsClaimOf(jobs[j], WorkerIdOf[w])

Finish(w, j) ==
  /\ mode[w] = "idle"
  /\ Owned(w, j)
  /\ writes' = [writes EXCEPT ![w][j] = FinishedRow(jobs[j])]
  /\ mode' = [mode EXCEPT ![w] = "open"]
  /\ UNCHANGED <<jobs, target, held, now>>

Fail(w, j) ==
  /\ mode[w] = "idle"
  /\ Owned(w, j)
  /\ writes' = [writes EXCEPT ![w][j] = FailedRow(jobs[j], now + RetryDelay)]
  /\ mode' = [mode EXCEPT ![w] = "open"]
  /\ UNCHANGED <<jobs, target, held, now>>

\* A worker completes what it was handed, possibly late, possibly again.
Complete(w) == \E c \in held[w] : Finish(w, c[1]) \/ Fail(w, c[1])

-----------------------------------------------------------------------------
(* The end of a transaction, the death of a worker, time.                  *)

\* A committed claim hands its rows to the worker.
Commit(s) ==
  /\ mode[s] = "open"
  /\ jobs' = [j \in JobIds |-> IF writes[s][j] = NoRow THEN jobs[j] ELSE writes[s][j]]
  /\ held' = IF s \in Workers
             THEN [held EXCEPT ![s] = @ \cup
                    {<<j, writes[s][j].attempts>> :
                       j \in {i \in JobIds : writes[s][i] # NoRow
                                             /\ writes[s][i].status = "processing"}}]
             ELSE held
  /\ writes' = [writes EXCEPT ![s] = NoWrites]
  /\ mode' = [mode EXCEPT ![s] = "idle"]
  /\ UNCHANGED <<target, now>>

Rollback(s) ==
  /\ mode[s] # "idle"
  /\ writes' = [writes EXCEPT ![s] = NoWrites]
  /\ mode' = [mode EXCEPT ![s] = "idle"]
  /\ target' = [c \in Callers |-> IF c = s THEN NoDocument ELSE target[c]]
  /\ UNCHANGED <<jobs, held, now>>

\* The database rolls the open transaction back, the claims in memory are gone.
Crash(w) ==
  /\ held[w] # {} \/ mode[w] # "idle"
  /\ writes' = [writes EXCEPT ![w] = NoWrites]
  /\ mode' = [mode EXCEPT ![w] = "idle"]
  /\ held' = [held EXCEPT ![w] = {}]
  /\ UNCHANGED <<jobs, target, now>>

\* Time matters to the queue only while a row waits for its available_at.
Tick ==
  /\ \E j \in JobIds : /\ jobs[j] # NoRow
                       /\ jobs[j].status = "queued"
                       /\ jobs[j].availableAt > now
  /\ now' = now + 1
  /\ UNCHANGED <<jobs, mode, target, writes, held>>

Next ==
  \/ \E c \in Callers, d \in Documents : CheckLive(c, d)
  \/ \E c \in Callers : Insert(c) \/ InsertRejected(c)
  \/ \E w \in Workers : Claim(w) \/ Complete(w)
  \/ \E s \in Sessions : Commit(s) \/ Rollback(s)
  \/ \E w \in MayCrash : Crash(w)
  \/ Tick

Spec == Init /\ [][Next]_vars

(***************************************************************************)
(* A running worker keeps polling and completes what it holds (the loop of *)
(* app/worker.py), the clock runs, and a transaction that is tried again   *)
(* and again is not rolled back every time.  Callers owe nothing.          *)
(***************************************************************************)
Fairness ==
  /\ WF_vars(Tick)
  /\ \A w \in Workers : WF_vars(Claim(w)) /\ SF_vars(Complete(w)) /\ SF_vars(Commit(w))

FairSpec == Spec /\ Fairness

-----------------------------------------------------------------------------
(* Properties.                                                             *)

\* The state the queue keeps: rows, transactions, claims.
TypeOK ==
  /\ jobs \in [JobIds -> Row \cup {NoRow}]
  /\ mode \in [Sessions -> {"idle", "checked", "open"}]
  /\ target \in [Callers -> Documents \cup {NoDocument}]
  /\ \A c \in Callers : mode[c] = "checked" => target[c] \in Documents
  /\ writes \in [Sessions -> [JobIds -> Row \cup {NoRow}]]
  /\ held \in [Workers -> SUBSET (JobIds \X Nat)]
  /\ now \in Nat

\* A document never has two live jobs, however enqueues, retries and
\* completions interleave ("must not create a second worker for it",
\* app/models.py).
OneLiveJob ==
  \A i, k \in JobIds :
    /\ IsLive(jobs[i]) /\ IsLive(jobs[k])
    /\ jobs[i].document = jobs[k].document
    => i = k

\* A job that waits has attempts left, and none is ever tried more often than
\* max_attempts: claim pays for the attempt, fail decides on the count.
AttemptsBounded ==
  \A j \in JobIds :
    jobs[j] # NoRow =>
      /\ jobs[j].attempts <= MaxAttempts
      /\ jobs[j].status = "queued" => jobs[j].attempts < MaxAttempts
      /\ jobs[j].status = "failed" => jobs[j].attempts = MaxAttempts

\* claimed_by is set exactly while a worker has the job.
ClaimMarksProcessing ==
  \A j \in JobIds :
    jobs[j] # NoRow => (jobs[j].status = "processing" <=> jobs[j].claimedBy # Nobody)

\* Two workers racing on the queue are never handed the same attempt of a job.
HandedOutOnce ==
  \A v, w \in Workers : v # w => held[v] \cap held[w] = {}

\* Finished and failed jobs are never touched again.
TerminalIsFinal ==
  [][\A j \in JobIds :
       jobs[j] # NoRow /\ jobs[j].status \in {"finished", "failed"} => jobs'[j] = jobs[j]]_vars

\* With a worker_id of its own, only the worker that was handed the current
\* attempt can complete it: a stale or foreign completion changes nothing.
OnlyHolderCompletes ==
  [][\A j \in JobIds :
       /\ jobs[j] # NoRow /\ jobs[j].status = "processing"
       /\ jobs'[j] # jobs[j]
       => \E w \in Workers : /\ mode[w] = "open" /\ mode'[w] = "idle"
                              /\ <<j, jobs[j].attempts>> \in held[w]]_vars

\* The row names a worker, but the one that was handed the attempt has died.
Orphaned(j) ==
  /\ jobs[j].status = "processing" /\ jobs[j].claimedBy # Nobody
  /\ \A w \in Workers : <<j, jobs[j].attempts>> \notin held[w]

\* Every job that is queued is in the end finished or failed, through rollbacks
\* and retry delays, unless a worker died with it.
EveryJobSettles ==
  \A j \in JobIds :
    (jobs[j] # NoRow) ~>
      (jobs[j] # NoRow /\ (jobs[j].status \in {"finished", "failed"} \/ Orphaned(j)))

\* The committed rows, seen as tasks: sessions, locks, owners and time are gone.
JobStage == [j \in JobIds |-> IF jobs[j] = NoRow THEN "absent" ELSE jobs[j].status]
JobTries == [j \in JobIds |-> IF jobs[j] = NoRow THEN 0 ELSE jobs[j].attempts]
JobSubject == [j \in JobIds |-> IF jobs[j] = NoRow THEN NoDocument ELSE jobs[j].document]

TaskView == INSTANCE TaskQueue WITH
  Tasks <- JobIds, Subjects <- Documents, MaxTries <- MaxAttempts, NoSubject <- NoDocument,
  stage <- JobStage, tries <- JobTries, subject <- JobSubject

\* The queue implements the abstract one: every commit is a submission, a
\* start of some tasks or the end of one, and nothing else changes a row.
ImplementsTaskQueue == TaskView!TaskSpec
=============================================================================
