--------------------------- MODULE JobQueueProofs ----------------------------
(****************************************************************************)
(* Theorems about JobQueue for any number of documents, jobs, callers and   *)
(* workers, any batch size, retry delay and number of attempts: what holds  *)
(* of the queue, who may complete a job, and that the queue implements the  *)
(* abstract TaskQueue.                                                      *)
(****************************************************************************)
EXTENDS JobQueue, TLAPS

\* Between two statements of a session nothing is written; what an open
\* transaction wrote is one of the four changes the statements make to a
\* committed row, and no two transactions wrote the same row.
PendingWrites ==
  /\ \A s \in Sessions : mode[s] # "open" => writes[s] = NoWrites
  /\ \A s, t \in Sessions, j \in JobIds :
       writes[s][j] # NoRow /\ writes[t][j] # NoRow => s = t
  /\ \A c \in Callers, j \in JobIds :
       writes[c][j] # NoRow =>
         /\ jobs[j] = NoRow
         /\ writes[c][j].status = "queued" /\ writes[c][j].attempts = 0
         /\ writes[c][j].claimedBy = Nobody
  /\ \A w \in Workers, j \in JobIds :
       writes[w][j] # NoRow =>
         /\ jobs[j] # NoRow
         /\ \/ /\ jobs[j].status = "queued"
               /\ writes[w][j] = ClaimedRow(jobs[j], WorkerIdOf[w])
            \/ /\ IsClaimOf(jobs[j], WorkerIdOf[w])
               /\ \/ writes[w][j] = FinishedRow(jobs[j])
                  \/ \E at \in Nat : writes[w][j] = FailedRow(jobs[j], at)

\* A job about to be inserted is alone for its document, among the committed
\* live rows and among the uncommitted ones.
PendingInserts ==
  \A c \in Callers, j \in JobIds :
    writes[c][j] # NoRow =>
      /\ \A i \in JobIds : IsLive(jobs[i]) => jobs[i].document # writes[c][j].document
      /\ \A s \in Sessions, i \in JobIds :
           writes[s][i] # NoRow /\ writes[s][i].document = writes[c][j].document
           => s = c /\ i = j

\* A claim in somebody's hands is of an attempt the job has already paid for.
ClaimsPaidFor ==
  \A w \in Workers : \A c \in held[w] :
    jobs[c[1]] # NoRow /\ c[2] <= jobs[c[1]].attempts

IInv ==
  /\ TypeOK
  /\ PendingWrites
  /\ PendingInserts
  /\ OneLiveJob
  /\ AttemptsBounded
  /\ ClaimMarksProcessing
  /\ ClaimsPaidFor
  /\ HandedOutOnce

-----------------------------------------------------------------------------
(* Rows.                                                                   *)

\* A row enqueue inserts is a row of the table.
LEMMA QueuedRowType ==
  ASSUME NEW d \in Documents, NEW at \in Nat
  PROVE  QueuedRow(d, at) \in Row
  BY DEF Row, JobRow, JobStatus, QueuedRow

\* So is a claimed one; the counter stays a natural number ...
LEMMA ClaimedRowType ==
  ASSUME NEW row \in Row, NEW id \in WorkerIds
  PROVE  ClaimedRow(row, id) \in Row
<1> DEFINE n == row.attempts + 1
<1>1. n \in Nat
  BY DEF Row, JobRow
<1> HIDE DEF n
<1>2. [row EXCEPT !.status = "processing", !.claimedBy = id, !.attempts = n] \in Row
  BY <1>1 DEF Row, JobRow, JobStatus
<1> QED
  BY <1>2 DEF ClaimedRow, n

\* ... and the rows finish and fail write.
LEMMA CompletedRowType ==
  ASSUME NEW row \in Row, NEW at \in Nat
  PROVE  FinishedRow(row) \in Row /\ FailedRow(row, at) \in Row
<1>1. FinishedRow(row) \in Row
  BY DEF Row, JobRow, JobStatus, FinishedRow
<1>2. FailedRow(row, at) \in Row
  BY DEF Row, JobRow, JobStatus, FailedRow
<1> QED
  BY <1>1, <1>2

\* What each of the three updates does to the columns the invariants read.
LEMMA RowFields ==
  ASSUME NEW row \in Row, NEW at \in Nat, NEW id \in WorkerIds
  PROVE  /\ ClaimedRow(row, id).status = "processing"
         /\ ClaimedRow(row, id).claimedBy = id
         /\ ClaimedRow(row, id).attempts = row.attempts + 1
         /\ ClaimedRow(row, id).document = row.document
         /\ FinishedRow(row).status = "finished"
         /\ FinishedRow(row).claimedBy = Nobody
         /\ FinishedRow(row).attempts = row.attempts
         /\ FinishedRow(row).document = row.document
         /\ FailedRow(row, at).status =
              IF row.attempts >= MaxAttempts THEN "failed" ELSE "queued"
         /\ FailedRow(row, at).claimedBy = Nobody
         /\ FailedRow(row, at).attempts = row.attempts
         /\ FailedRow(row, at).document = row.document
  BY DEF Row, JobRow, ClaimedRow, FinishedRow, FailedRow

-----------------------------------------------------------------------------
(* Type correctness.                                                       *)

\* Every step of the queue keeps the types.
LEMMA TypeStep == TypeOK /\ [Next]_vars => TypeOK'
<1> USE JobQueueAssumption
<1> SUFFICES ASSUME TypeOK, [Next]_vars PROVE TypeOK'
  OBVIOUS
<1> USE DEF TypeOK, Sessions
<1>1. ASSUME NEW c \in Callers, NEW d \in Documents, CheckLive(c, d) PROVE TypeOK'
  BY <1>1 DEF CheckLive
<1>2. ASSUME NEW c \in Callers, Insert(c) PROVE TypeOK'
  <2>1. PICK j \in JobIds : writes' = [writes EXCEPT ![c][j] = QueuedRow(target[c], now)]
    BY <1>2 DEF Insert
  <2>2. target[c] \in Documents
    BY <1>2 DEF Insert
  <2>3. QueuedRow(target[c], now) \in Row
    BY <2>2, QueuedRowType
  <2> QED BY <1>2, <2>1, <2>3 DEF Insert
<1>3. ASSUME NEW c \in Callers, InsertRejected(c) PROVE TypeOK'
  BY <1>3 DEF InsertRejected
<1>4. ASSUME NEW w \in Workers, Claim(w) PROVE TypeOK'
  <2>1. PICK S \in DueJobs :
          writes' = [writes EXCEPT ![w] =
            [j \in JobIds |-> IF j \in S THEN ClaimedRow(jobs[j], WorkerIdOf[w]) ELSE NoRow]]
    BY <1>4 DEF Claim
  <2>2. \A j \in S : jobs[j] \in Row
    BY DEF DueJobs, Claimable
  <2>3. [j \in JobIds |-> IF j \in S THEN ClaimedRow(jobs[j], WorkerIdOf[w]) ELSE NoRow]
          \in [JobIds -> Row \cup {NoRow}]
    BY <2>2, ClaimedRowType
  <2> QED BY <1>4, <2>1, <2>3 DEF Claim
<1>5. ASSUME NEW w \in Workers, NEW j \in JobIds, Finish(w, j) \/ Fail(w, j) PROVE TypeOK'
  <2>1. jobs[j] \in Row /\ now + RetryDelay \in Nat
    BY <1>5 DEF Finish, Fail, Owned
  <2>2. PICK row \in Row : writes' = [writes EXCEPT ![w][j] = row]
    BY <1>5, <2>1, CompletedRowType DEF Finish, Fail
  <2> QED
    BY <1>5, <2>2 DEF Finish, Fail
<1>6. ASSUME NEW s \in Sessions, Commit(s) PROVE TypeOK'
  BY <1>6 DEF Commit, NoWrites, Row, JobRow
<1>7. ASSUME NEW s \in Sessions, Rollback(s) PROVE TypeOK'
  BY <1>7 DEF Rollback, NoWrites
<1>8. ASSUME NEW w \in Workers, Crash(w) PROVE TypeOK'
  BY <1>8 DEF Crash, NoWrites
<1>9. CASE Tick
  BY <1>9 DEF Tick
<1>10. CASE UNCHANGED vars
  BY <1>10 DEF vars
<1>11. \A w \in Workers : \A c \in held[w] : c[1] \in JobIds
  OBVIOUS
<1> HIDE DEF TypeOK, Sessions
<1> QED
  BY <1>1, <1>2, <1>3, <1>4, <1>5, <1>6, <1>7, <1>8, <1>9, <1>10, <1>11 DEF Next, Complete

\* Every reachable state of the queue has its type.
THEOREM TypeCorrect == Spec => []TypeOK
<1>1. Init => TypeOK
  BY DEF Init, TypeOK, NoWrites, Sessions
<1> QED
  BY <1>1, TypeStep, PTL DEF Spec

-----------------------------------------------------------------------------
(* The inductive invariant.                                                *)

\* Workers and callers are different sessions.
LEMMA Kinds ==
  /\ \A c \in Callers : c \in Sessions /\ c \notin Workers
  /\ \A w \in Workers : w \in Sessions /\ w \notin Callers
  /\ \A s \in Sessions : s \in Callers \/ s \in Workers
  BY JobQueueAssumption DEF Sessions

\* The empty queue satisfies the invariant.
LEMMA InitInv == Init => IInv
<1> SUFFICES ASSUME Init PROVE IInv
  OBVIOUS
<1>1. TypeOK
  BY DEF Init, TypeOK, NoWrites, Sessions
<1>2. \A s \in Sessions, j \in JobIds : writes[s][j] = NoRow
  BY DEF Init, NoWrites
<1>3. PendingWrites /\ PendingInserts
  BY <1>2, Kinds DEF Init, PendingWrites, PendingInserts
<1>4. \A j \in JobIds : jobs[j] = NoRow
  BY DEF Init, NoWrites
<1>5. OneLiveJob /\ AttemptsBounded /\ ClaimMarksProcessing
  BY <1>4 DEF OneLiveJob, AttemptsBounded, ClaimMarksProcessing, IsLive
<1>6. ClaimsPaidFor /\ HandedOutOnce
  BY DEF Init, ClaimsPaidFor, HandedOutOnce
<1> QED
  BY <1>1, <1>3, <1>5, <1>6 DEF IInv

\* The rows are not touched, the claims only forgotten: what is said of them stays.
LEMMA RowsKept ==
  ASSUME IInv, UNCHANGED jobs, \A w \in Workers : held'[w] \subseteq held[w]
  PROVE  /\ OneLiveJob' /\ AttemptsBounded' /\ ClaimMarksProcessing'
         /\ ClaimsPaidFor' /\ HandedOutOnce'
<1>1. OneLiveJob' /\ AttemptsBounded' /\ ClaimMarksProcessing'
  BY DEF IInv, OneLiveJob, AttemptsBounded, ClaimMarksProcessing, IsLive
<1>2. ClaimsPaidFor'
  BY DEF IInv, ClaimsPaidFor
<1>3. HandedOutOnce'
  BY DEF IInv, HandedOutOnce
<1> QED
  BY <1>1, <1>2, <1>3

\* A transaction that ends without writing to the table, or has not written yet.
LEMMA WritesForgotten ==
  ASSUME IInv, TypeOK', UNCHANGED jobs, \A w \in Workers : held'[w] \subseteq held[w],
         \A s \in Sessions, j \in JobIds : writes'[s][j] \in {writes[s][j], NoRow},
         \A s \in Sessions : mode'[s] # "open" => writes'[s] = NoWrites
  PROVE  IInv'
<1>1. \A s \in Sessions, j \in JobIds : writes'[s][j] \in {writes[s][j], NoRow}
  OBVIOUS
<1>2. \A s \in Sessions : mode'[s] # "open" => writes'[s] = NoWrites
  OBVIOUS
<1>3. PendingWrites'
  <2>1. \A s, t \in Sessions, j \in JobIds :
          writes'[s][j] # NoRow /\ writes'[t][j] # NoRow => s = t
    BY <1>1 DEF IInv, PendingWrites
  <2>2. \A c \in Callers, j \in JobIds : writes'[c][j] \in {writes[c][j], NoRow}
    BY <1>1, Kinds
  <2>3. \A w \in Workers, j \in JobIds : writes'[w][j] \in {writes[w][j], NoRow}
    BY <1>1, Kinds
  <2>4. \A c \in Callers, j \in JobIds :
          writes'[c][j] # NoRow =>
            /\ jobs'[j] = NoRow
            /\ writes'[c][j].status = "queued" /\ writes'[c][j].attempts = 0
            /\ writes'[c][j].claimedBy = Nobody
    BY <2>2 DEF IInv, PendingWrites
  <2>5. \A w \in Workers, j \in JobIds :
          writes'[w][j] # NoRow =>
            /\ jobs'[j] # NoRow
            /\ \/ /\ jobs'[j].status = "queued"
                  /\ writes'[w][j] = ClaimedRow(jobs'[j], WorkerIdOf[w])
               \/ /\ IsClaimOf(jobs'[j], WorkerIdOf[w])
                  /\ \/ writes'[w][j] = FinishedRow(jobs'[j])
                     \/ \E at \in Nat : writes'[w][j] = FailedRow(jobs'[j], at)
    BY <2>3 DEF IInv, PendingWrites
  <2> QED
    BY <1>2, <2>1, <2>4, <2>5 DEF PendingWrites
<1>4. PendingInserts'
  BY <1>1, Kinds DEF IInv, PendingInserts, IsLive
<1> QED
  BY <1>3, <1>4, RowsKept DEF IInv

\* One session has nothing written any more, the others go on.
LEMMA SessionEnds ==
  ASSUME IInv, TypeOK', UNCHANGED jobs, \A w \in Workers : held'[w] \subseteq held[w],
         NEW u \in Sessions, writes'[u] = NoWrites,
         \A t \in Sessions : t # u => writes'[t] = writes[t] /\ mode'[t] = mode[t]
  PROVE  IInv'
<1>1. \A s \in Sessions, j \in JobIds : writes'[s][j] \in {writes[s][j], NoRow}
  BY DEF NoWrites
<1>2. \A s \in Sessions : mode'[s] # "open" => writes'[s] = NoWrites
  BY DEF IInv, PendingWrites
<1> QED
  BY <1>1, <1>2, WritesForgotten

\* One statement of worker w writes rows nobody else has written.
LEMMA WorkerWrites ==
  ASSUME IInv, TypeOK', UNCHANGED <<jobs, held>>, NEW w \in Workers,
         mode[w] = "idle", mode' = [mode EXCEPT ![w] = "open"],
         \A s \in Sessions : s # w => writes'[s] = writes[s],
         \A j \in JobIds : writes'[w][j] # NoRow =>
           /\ jobs[j] # NoRow /\ ~Locked(j)
           /\ \/ /\ jobs[j].status = "queued"
                 /\ writes'[w][j] = ClaimedRow(jobs[j], WorkerIdOf[w])
              \/ /\ IsClaimOf(jobs[j], WorkerIdOf[w])
                 /\ \/ writes'[w][j] = FinishedRow(jobs[j])
                    \/ \E at \in Nat : writes'[w][j] = FailedRow(jobs[j], at)
  PROVE  IInv'
<1> USE JobQueueAssumption
<1>1. PendingWrites'
  <2>1. \A s \in Sessions : mode'[s] # "open" => writes'[s] = NoWrites
    BY Kinds DEF IInv, TypeOK, PendingWrites
  <2>2. \A s, t \in Sessions, j \in JobIds :
          writes'[s][j] # NoRow /\ writes'[t][j] # NoRow => s = t
    BY DEF IInv, PendingWrites, Locked
  <2>3. \A c \in Callers, j \in JobIds :
          writes'[c][j] # NoRow =>
            /\ jobs'[j] = NoRow
            /\ writes'[c][j].status = "queued" /\ writes'[c][j].attempts = 0
            /\ writes'[c][j].claimedBy = Nobody
    BY Kinds DEF IInv, PendingWrites
  <2>4. \A v \in Workers, j \in JobIds :
          writes'[v][j] # NoRow =>
            /\ jobs'[j] # NoRow
            /\ \/ /\ jobs'[j].status = "queued"
                  /\ writes'[v][j] = ClaimedRow(jobs'[j], WorkerIdOf[v])
               \/ /\ IsClaimOf(jobs'[j], WorkerIdOf[v])
                  /\ \/ writes'[v][j] = FinishedRow(jobs'[j])
                     \/ \E at \in Nat : writes'[v][j] = FailedRow(jobs'[j], at)
    <3> SUFFICES ASSUME NEW v \in Workers, NEW j \in JobIds, writes'[v][j] # NoRow
                 PROVE  /\ jobs[j] # NoRow
                        /\ \/ /\ jobs[j].status = "queued"
                              /\ writes'[v][j] = ClaimedRow(jobs[j], WorkerIdOf[v])
                           \/ /\ IsClaimOf(jobs[j], WorkerIdOf[v])
                              /\ \/ writes'[v][j] = FinishedRow(jobs[j])
                                 \/ \E at \in Nat : writes'[v][j] = FailedRow(jobs[j], at)
      OBVIOUS
    <3>1. CASE v = w
      BY <3>1
    <3>2. CASE v # w
      BY <3>2, Kinds DEF IInv, PendingWrites
    <3> QED
      BY <3>1, <3>2
  <2> QED
    BY <2>1, <2>2, <2>3, <2>4 DEF PendingWrites
<1>2. PendingInserts'
  <2>1. \A j \in JobIds : writes'[w][j] # NoRow =>
          IsLive(jobs[j]) /\ writes'[w][j].document = jobs[j].document
    <3> SUFFICES ASSUME NEW j \in JobIds, writes'[w][j] # NoRow
                 PROVE  IsLive(jobs[j]) /\ writes'[w][j].document = jobs[j].document
      OBVIOUS
    <3>1. jobs[j] \in Row /\ WorkerIdOf[w] \in WorkerIds
      BY DEF IInv, TypeOK
    <3>2. jobs[j] # NoRow /\ jobs[j].status \in {"queued", "processing"}
      BY DEF IsClaimOf
    <3>3. \/ writes'[w][j] = ClaimedRow(jobs[j], WorkerIdOf[w])
          \/ writes'[w][j] = FinishedRow(jobs[j])
          \/ \E at \in Nat : writes'[w][j] = FailedRow(jobs[j], at)
      OBVIOUS
    <3>4. writes'[w][j].document = jobs[j].document
      BY <3>1, <3>3, RowFields
    <3> QED
      BY <3>2, <3>4 DEF IsLive, LiveStatus
  <2> SUFFICES ASSUME NEW c \in Callers, NEW j \in JobIds, writes'[c][j] # NoRow
               PROVE  /\ \A i \in JobIds : IsLive(jobs[i]) => jobs[i].document # writes'[c][j].document
                      /\ \A s \in Sessions, i \in JobIds :
                           writes'[s][i] # NoRow /\ writes'[s][i].document = writes'[c][j].document
                           => s = c /\ i = j
    BY DEF PendingInserts, IsLive
  <2>2. writes'[c] = writes[c]
    BY Kinds
  <2>3. \A i \in JobIds : IsLive(jobs[i]) => jobs[i].document # writes'[c][j].document
    BY <2>2 DEF IInv, PendingInserts
  <2>4. ASSUME NEW s \in Sessions, NEW i \in JobIds,
               writes'[s][i] # NoRow, writes'[s][i].document = writes'[c][j].document
        PROVE  s = c /\ i = j
    <3>1. CASE s = w
      BY <2>1, <2>3, <2>4, <3>1
    <3>2. CASE s # w
      BY <2>2, <2>4, <3>2 DEF IInv, PendingInserts
    <3> QED
      BY <3>1, <3>2
  <2> QED
    BY <2>3, <2>4
<1> QED
  BY <1>1, <1>2, RowsKept DEF IInv

\* claim.
LEMMA ClaimInv ==
  ASSUME IInv, TypeOK', NEW w \in Workers, Claim(w)
  PROVE  IInv'
<1>1. PICK S \in DueJobs :
        writes' = [writes EXCEPT ![w] =
          [j \in JobIds |-> IF j \in S THEN ClaimedRow(jobs[j], WorkerIdOf[w]) ELSE NoRow]]
  BY DEF Claim
<1>2. \A j \in S : jobs[j] # NoRow /\ jobs[j].status = "queued" /\ ~Locked(j)
  BY DEF DueJobs, Claimable
<1>3. \A s \in Sessions : s # w => writes'[s] = writes[s]
  BY <1>1 DEF IInv, TypeOK
<1>4. \A j \in JobIds : writes'[w][j] =
        IF j \in S THEN ClaimedRow(jobs[j], WorkerIdOf[w]) ELSE NoRow
  BY <1>1, Kinds DEF IInv, TypeOK
<1> QED
  BY <1>2, <1>3, <1>4, WorkerWrites DEF Claim

\* finish and fail.
LEMMA CompleteInv ==
  ASSUME IInv, TypeOK', NEW w \in Workers, NEW j \in JobIds, Finish(w, j) \/ Fail(w, j)
  PROVE  IInv'
<1> USE JobQueueAssumption
<1>1. mode[w] = "idle" /\ Owned(w, j) /\ mode' = [mode EXCEPT ![w] = "open"]
      /\ UNCHANGED <<jobs, held>>
  BY DEF Finish, Fail
<1>2. now + RetryDelay \in Nat
  BY DEF IInv, TypeOK
<1>3. PICK row : /\ writes' = [writes EXCEPT ![w][j] = row]
                 /\ \/ row = FinishedRow(jobs[j])
                    \/ \E at \in Nat : row = FailedRow(jobs[j], at)
  BY <1>2 DEF Finish, Fail
<1>4. \A s \in Sessions : s # w => writes'[s] = writes[s]
  BY <1>3 DEF IInv, TypeOK
<1>5. \A i \in JobIds : writes'[w][i] = IF i = j THEN row ELSE NoRow
  <2>1. writes[w] = NoWrites
    BY <1>1, Kinds DEF IInv, PendingWrites
  <2>2. writes'[w] = [NoWrites EXCEPT ![j] = row]
    BY <1>3, <2>1, Kinds DEF IInv, TypeOK
  <2> QED
    BY <2>2 DEF NoWrites
<1>6. \A i \in JobIds : writes'[w][i] # NoRow =>
           /\ jobs[i] # NoRow /\ ~Locked(i)
           /\ IsClaimOf(jobs[i], WorkerIdOf[w])
           /\ \/ writes'[w][i] = FinishedRow(jobs[i])
              \/ \E at \in Nat : writes'[w][i] = FailedRow(jobs[i], at)
  BY <1>1, <1>3, <1>5 DEF Owned
<1> QED
  BY <1>1, <1>4, <1>6, WorkerWrites

\* The insert of enqueue.
LEMMA InsertInv ==
  ASSUME IInv, TypeOK', NEW c \in Callers, Insert(c)
  PROVE  IInv'
<1> USE JobQueueAssumption
<1>1. PICK j \in JobIds : /\ jobs[j] = NoRow /\ ~Locked(j)
                          /\ writes' = [writes EXCEPT ![c][j] = QueuedRow(target[c], now)]
  BY DEF Insert
<1>2. /\ mode[c] = "checked" /\ mode' = [mode EXCEPT ![c] = "open"]
      /\ IndexSettled(target[c]) /\ ~HasLiveJob(target[c])
      /\ UNCHANGED <<jobs, held>>
  BY DEF Insert
<1> DEFINE row == QueuedRow(target[c], now)
<1>3. /\ row.status = "queued" /\ row.attempts = 0 /\ row.claimedBy = Nobody
      /\ row.document = target[c]
  BY DEF QueuedRow
<1>4. \A s \in Sessions : s # c => writes'[s] = writes[s]
  BY <1>1 DEF IInv, TypeOK
<1>5. \A i \in JobIds : writes'[c][i] = IF i = j THEN row ELSE NoRow
  <2>1. writes[c] = NoWrites
    BY <1>2, Kinds DEF IInv, PendingWrites
  <2>2. writes'[c] = [NoWrites EXCEPT ![j] = row]
    BY <1>1, <2>1, Kinds DEF IInv, TypeOK
  <2> QED
    BY <2>2 DEF NoWrites
<1> HIDE DEF row
<1>6. PendingWrites'
  <2>1. \A s \in Sessions : mode'[s] # "open" => writes'[s] = NoWrites
    BY <1>2, <1>4, Kinds DEF IInv, TypeOK, PendingWrites
  <2>2. \A s, t \in Sessions, i \in JobIds :
          writes'[s][i] # NoRow /\ writes'[t][i] # NoRow => s = t
    BY <1>1, <1>4, <1>5 DEF IInv, PendingWrites, Locked
  <2>3. \A b \in Callers, i \in JobIds :
          writes'[b][i] # NoRow =>
            /\ jobs'[i] = NoRow
            /\ writes'[b][i].status = "queued" /\ writes'[b][i].attempts = 0
            /\ writes'[b][i].claimedBy = Nobody
    BY <1>1, <1>2, <1>3, <1>4, <1>5, Kinds DEF IInv, PendingWrites
  <2>4. \A v \in Workers, i \in JobIds :
          writes'[v][i] # NoRow =>
            /\ jobs'[i] # NoRow
            /\ \/ /\ jobs'[i].status = "queued"
                  /\ writes'[v][i] = ClaimedRow(jobs'[i], WorkerIdOf[v])
               \/ /\ IsClaimOf(jobs'[i], WorkerIdOf[v])
                  /\ \/ writes'[v][i] = FinishedRow(jobs'[i])
                     \/ \E at \in Nat : writes'[v][i] = FailedRow(jobs'[i], at)
    BY <1>2, <1>4, Kinds DEF IInv, PendingWrites
  <2> QED
    BY <2>1, <2>2, <2>3, <2>4 DEF PendingWrites
<1>7. PendingInserts'
  <2> SUFFICES ASSUME NEW b \in Callers, NEW k \in JobIds, writes'[b][k] # NoRow
               PROVE  /\ \A i \in JobIds : IsLive(jobs[i]) => jobs[i].document # writes'[b][k].document
                      /\ \A s \in Sessions, i \in JobIds :
                           writes'[s][i] # NoRow /\ writes'[s][i].document = writes'[b][k].document
                           => s = b /\ i = k
    BY <1>2 DEF PendingInserts, IsLive
  <2>1. CASE b = c
    BY <1>2, <1>3, <1>4, <1>5, <2>1, Kinds DEF IndexSettled, HasLiveJob
  <2>2. CASE b # c
    <3>1. writes'[b] = writes[b] /\ writes[b][k].document # target[c]
      BY <1>2, <1>4, <2>2, Kinds DEF IndexSettled
    <3>2. \A i \in JobIds : IsLive(jobs[i]) => jobs[i].document # writes'[b][k].document
      BY <3>1 DEF IInv, PendingInserts
    <3>3. ASSUME NEW s \in Sessions, NEW i \in JobIds,
                 writes'[s][i] # NoRow, writes'[s][i].document = writes'[b][k].document
          PROVE  s = b /\ i = k
      <4>1. CASE s = c
        BY <1>3, <1>5, <3>1, <3>3, <4>1
      <4>2. CASE s # c
        BY <1>4, <3>1, <3>3, <4>2 DEF IInv, PendingInserts
      <4> QED
        BY <4>1, <4>2
    <3> QED
      BY <3>2, <3>3
  <2> QED
    BY <2>1, <2>2
<1> QED
  BY <1>2, <1>6, <1>7, RowsKept DEF IInv
\* What a worker is about to commit, compared with the committed row.
LEMMA PendingRow ==
  ASSUME IInv, NEW w \in Workers, NEW j \in JobIds, writes[w][j] # NoRow
  PROVE  /\ jobs[j] \in Row /\ writes[w][j] \in Row
         /\ IsLive(jobs[j])
         /\ writes[w][j].document = jobs[j].document
         /\ \/ /\ jobs[j].status = "queued"
               /\ writes[w][j].status = "processing"
               /\ writes[w][j].claimedBy # Nobody
               /\ writes[w][j].attempts = jobs[j].attempts + 1
            \/ /\ jobs[j].status = "processing"
               /\ writes[w][j].claimedBy = Nobody
               /\ writes[w][j].attempts = jobs[j].attempts
               /\ \/ writes[w][j].status = "finished"
                  \/ writes[w][j].status = "failed" /\ jobs[j].attempts >= MaxAttempts
                  \/ writes[w][j].status = "queued" /\ ~(jobs[j].attempts >= MaxAttempts)
<1> USE JobQueueAssumption
<1>1. jobs[j] # NoRow
  BY DEF IInv, PendingWrites
<1>2. jobs[j] \in Row /\ writes[w][j] \in Row /\ WorkerIdOf[w] \in WorkerIds /\ 0 \in Nat
  BY <1>1, Kinds DEF IInv, TypeOK
<1>3. CASE jobs[j].status = "queued" /\ writes[w][j] = ClaimedRow(jobs[j], WorkerIdOf[w])
  BY <1>1, <1>2, <1>3, RowFields DEF IsLive, LiveStatus
<1>4. CASE IsClaimOf(jobs[j], WorkerIdOf[w]) /\ writes[w][j] = FinishedRow(jobs[j])
  BY <1>1, <1>2, <1>4, RowFields DEF IsLive, LiveStatus, IsClaimOf
<1>5. ASSUME NEW at \in Nat, IsClaimOf(jobs[j], WorkerIdOf[w]), writes[w][j] = FailedRow(jobs[j], at)
      PROVE  /\ IsLive(jobs[j])
             /\ writes[w][j].document = jobs[j].document
             /\ jobs[j].status = "processing"
             /\ writes[w][j].claimedBy = Nobody
             /\ writes[w][j].attempts = jobs[j].attempts
             /\ \/ writes[w][j].status = "failed" /\ jobs[j].attempts >= MaxAttempts
                \/ writes[w][j].status = "queued" /\ ~(jobs[j].attempts >= MaxAttempts)
  BY <1>1, <1>2, <1>5, RowFields DEF IsLive, LiveStatus, IsClaimOf
<1> QED
  BY <1>2, <1>3, <1>4, <1>5 DEF IInv, PendingWrites

\* The end of a transaction that wrote.
LEMMA CommitInv ==
  ASSUME IInv, TypeOK', NEW s \in Sessions, Commit(s)
  PROVE  IInv'
<1> USE JobQueueAssumption, MaxAttemptsAssumption
<1>1. /\ \A j \in JobIds : jobs'[j] = IF writes[s][j] = NoRow THEN jobs[j] ELSE writes[s][j]
      /\ writes'[s] = NoWrites
      /\ \A t \in Sessions : t # s => writes'[t] = writes[t] /\ mode'[t] = mode[t]
  BY DEF Commit, IInv, TypeOK
<1>2. \A t \in Sessions, j \in JobIds :
        writes'[t][j] # NoRow => t # s /\ writes'[t][j] = writes[t][j] /\ jobs'[j] = jobs[j]
  BY <1>1 DEF IInv, PendingWrites, NoWrites
<1>3. PendingWrites'
  <2>1. \A t \in Sessions : mode'[t] # "open" => writes'[t] = NoWrites
    BY <1>1 DEF IInv, PendingWrites
  <2>2. \A t, u \in Sessions, j \in JobIds :
          writes'[t][j] # NoRow /\ writes'[u][j] # NoRow => t = u
    BY <1>2 DEF IInv, PendingWrites
  <2>3. \A c \in Callers, j \in JobIds :
          writes'[c][j] # NoRow =>
            /\ jobs'[j] = NoRow
            /\ writes'[c][j].status = "queued" /\ writes'[c][j].attempts = 0
            /\ writes'[c][j].claimedBy = Nobody
    BY <1>2, Kinds DEF IInv, PendingWrites
  <2>4. \A w \in Workers, j \in JobIds :
          writes'[w][j] # NoRow =>
            /\ jobs'[j] # NoRow
            /\ \/ /\ jobs'[j].status = "queued"
                  /\ writes'[w][j] = ClaimedRow(jobs'[j], WorkerIdOf[w])
               \/ /\ IsClaimOf(jobs'[j], WorkerIdOf[w])
                  /\ \/ writes'[w][j] = FinishedRow(jobs'[j])
                     \/ \E at \in Nat : writes'[w][j] = FailedRow(jobs'[j], at)
    BY <1>2, Kinds DEF IInv, PendingWrites
  <2> QED
    BY <2>1, <2>2, <2>3, <2>4 DEF PendingWrites
<1>4. \A j \in JobIds : jobs[j] # NoRow => jobs'[j] # NoRow
  BY <1>1
<1>5. CASE s \in Workers
  <2>1. \A j \in JobIds : IsLive(jobs'[j]) => IsLive(jobs[j]) /\ jobs'[j].document = jobs[j].document
    BY <1>1, <1>5, PendingRow DEF IsLive
  <2>2. OneLiveJob'
    BY <2>1 DEF IInv, OneLiveJob, IsLive
  <2>3. PendingInserts'
    <3> SUFFICES ASSUME NEW c \in Callers, NEW j \in JobIds, writes'[c][j] # NoRow
                 PROVE  /\ \A i \in JobIds : IsLive(jobs'[i]) => jobs'[i].document # writes'[c][j].document
                        /\ \A t \in Sessions, i \in JobIds :
                             writes'[t][i] # NoRow /\ writes'[t][i].document = writes'[c][j].document
                             => t = c /\ i = j
      BY DEF PendingInserts, IsLive
    <3> QED
      BY <1>2, <2>1, Kinds DEF IInv, PendingInserts
  <2>4. AttemptsBounded'
    <3> SUFFICES ASSUME NEW j \in JobIds, jobs'[j] # NoRow
                 PROVE  /\ jobs'[j].attempts <= MaxAttempts
                        /\ jobs'[j].status = "queued" => jobs'[j].attempts < MaxAttempts
                        /\ jobs'[j].status = "failed" => jobs'[j].attempts = MaxAttempts
      BY DEF AttemptsBounded
    <3>1. CASE writes[s][j] = NoRow
      BY <1>1, <3>1 DEF IInv, AttemptsBounded
    <3>2. CASE writes[s][j] # NoRow
      <4>1. jobs[j].attempts \in Nat /\ jobs[j] # NoRow
        BY <1>5, <3>2, PendingRow DEF Row, JobRow, IsLive
      <4>2. /\ jobs[j].attempts <= MaxAttempts
            /\ jobs[j].status = "queued" => jobs[j].attempts < MaxAttempts
        BY <4>1 DEF IInv, AttemptsBounded
      <4> QED
        BY <1>1, <1>5, <3>2, <4>1, <4>2, PendingRow
    <3> QED
      BY <3>1, <3>2
  <2>5. ClaimMarksProcessing'
    BY <1>1, <1>5, PendingRow DEF IInv, ClaimMarksProcessing
  <2>6. \A c \in held'[s] : \/ c \in held[s]
                            \/ /\ c[1] \in JobIds /\ writes[s][c[1]] # NoRow
                               /\ writes[s][c[1]].status = "processing"
                               /\ c[2] = writes[s][c[1]].attempts
    BY <1>5 DEF Commit, IInv, TypeOK
  <2>7. \A v \in Workers : v # s => held'[v] = held[v]
    BY <1>5 DEF Commit, IInv, TypeOK
  <2>8. \A j \in JobIds : jobs[j] # NoRow =>
          /\ jobs[j].attempts \in Nat /\ jobs'[j].attempts \in Nat
          /\ jobs[j].attempts <= jobs'[j].attempts
    <3> SUFFICES ASSUME NEW j \in JobIds, jobs[j] # NoRow
                 PROVE  /\ jobs[j].attempts \in Nat /\ jobs'[j].attempts \in Nat
                        /\ jobs[j].attempts <= jobs'[j].attempts
      OBVIOUS
    <3>1. jobs[j].attempts \in Nat
      BY DEF IInv, TypeOK, Row, JobRow
    <3>2. writes[s][j] # NoRow => jobs'[j].attempts \in {jobs[j].attempts, jobs[j].attempts + 1}
      BY <1>1, <1>5, PendingRow
    <3> QED
      BY <1>1, <3>1, <3>2
  <2>9. \A w \in Workers : \A c \in held[w] : c[1] \in JobIds /\ c[2] \in Nat
    BY DEF IInv, TypeOK
  <2>10. ClaimsPaidFor'
    <3> SUFFICES ASSUME NEW w \in Workers, NEW c \in held'[w]
                 PROVE  jobs'[c[1]] # NoRow /\ c[2] <= jobs'[c[1]].attempts
      BY DEF ClaimsPaidFor
    <3>1. CASE c \in held[w]
      <4>1. jobs[c[1]] # NoRow /\ c[2] <= jobs[c[1]].attempts
        BY <3>1 DEF IInv, ClaimsPaidFor
      <4> QED
        BY <1>4, <2>8, <2>9, <3>1, <4>1
    <3>2. CASE c \notin held[w]
      <4>1. /\ c[1] \in JobIds /\ writes[s][c[1]] # NoRow
            /\ c[2] = writes[s][c[1]].attempts
        BY <2>6, <2>7, <3>2
      <4>2. jobs'[c[1]] = writes[s][c[1]] /\ writes[s][c[1]].attempts \in Nat
        BY <1>1, <1>5, <4>1, PendingRow DEF Row, JobRow
      <4> QED
        BY <4>1, <4>2
    <3> QED
      BY <3>1, <3>2
  <2>11. \A c \in held'[s], v \in Workers : v # s => c \notin held[v]
    <3> SUFFICES ASSUME NEW c \in held'[s], NEW v \in Workers, v # s, c \in held[v]
                 PROVE  FALSE
      OBVIOUS
    <3>1. CASE c \in held[s]
      BY <1>5, <3>1 DEF IInv, HandedOutOnce
    <3>2. CASE c \notin held[s]
      <4>1. /\ c[1] \in JobIds /\ writes[s][c[1]] # NoRow
            /\ writes[s][c[1]].status = "processing"
            /\ c[2] = writes[s][c[1]].attempts
        BY <2>6, <3>2
      <4>2. c[2] = jobs[c[1]].attempts + 1 /\ jobs[c[1]].attempts \in Nat
        BY <1>5, <4>1, PendingRow DEF Row, JobRow
      <4>3. c[2] <= jobs[c[1]].attempts
        BY DEF IInv, ClaimsPaidFor
      <4> QED
        BY <4>2, <4>3
    <3> QED
      BY <3>1, <3>2
  <2>12. HandedOutOnce'
    BY <2>7, <2>11 DEF IInv, HandedOutOnce
  <2> QED
    BY <1>3, <2>2, <2>3, <2>4, <2>5, <2>10, <2>12 DEF IInv
<1>6. CASE s \in Callers
  <2>1. held' = held
    BY <1>6, Kinds DEF Commit
  <2>2. \A j \in JobIds : writes[s][j] # NoRow =>
          /\ jobs[j] = NoRow /\ jobs'[j] = writes[s][j]
          /\ jobs'[j].status = "queued" /\ jobs'[j].attempts = 0 /\ jobs'[j].claimedBy = Nobody
    BY <1>1, <1>6 DEF IInv, PendingWrites
  <2>3. \A j \in JobIds : writes[s][j] = NoRow => jobs'[j] = jobs[j]
    BY <1>1
  <2>4. OneLiveJob'
    <3> SUFFICES ASSUME NEW i \in JobIds, NEW k \in JobIds,
                        IsLive(jobs'[i]), IsLive(jobs'[k]), jobs'[i].document = jobs'[k].document
                 PROVE  i = k
      BY DEF OneLiveJob, IsLive
    <3>1. CASE writes[s][i] # NoRow
      BY <1>6, <2>2, <2>3, <3>1 DEF IInv, PendingInserts
    <3>2. CASE writes[s][i] = NoRow /\ writes[s][k] # NoRow
      BY <1>6, <2>2, <2>3, <3>2 DEF IInv, PendingInserts
    <3>3. CASE writes[s][i] = NoRow /\ writes[s][k] = NoRow
      BY <2>3, <3>3 DEF IInv, OneLiveJob
    <3> QED
      BY <3>1, <3>2, <3>3
  <2>5. PendingInserts'
    <3> SUFFICES ASSUME NEW c \in Callers, NEW j \in JobIds, writes'[c][j] # NoRow
                 PROVE  /\ \A i \in JobIds : IsLive(jobs'[i]) => jobs'[i].document # writes'[c][j].document
                        /\ \A t \in Sessions, i \in JobIds :
                             writes'[t][i] # NoRow /\ writes'[t][i].document = writes'[c][j].document
                             => t = c /\ i = j
      BY DEF PendingInserts, IsLive
    <3>1. c # s /\ writes'[c][j] = writes[c][j]
      BY <1>2, Kinds
    <3>2. \A i \in JobIds : IsLive(jobs'[i]) => jobs'[i].document # writes'[c][j].document
      BY <2>2, <2>3, <3>1 DEF IInv, PendingInserts
    <3>3. \A t \in Sessions, i \in JobIds :
            writes'[t][i] # NoRow /\ writes'[t][i].document = writes'[c][j].document
            => t = c /\ i = j
      BY <1>2, <3>1 DEF IInv, PendingInserts
    <3> QED
      BY <3>2, <3>3
  <2>6. AttemptsBounded' /\ ClaimMarksProcessing'
    BY <2>2, <2>3 DEF IInv, AttemptsBounded, ClaimMarksProcessing
  <2>7. ClaimsPaidFor'
    BY <2>1, <2>2, <2>3 DEF IInv, ClaimsPaidFor, TypeOK
  <2>8. HandedOutOnce'
    BY <2>1 DEF IInv, HandedOutOnce
  <2> QED
    BY <1>3, <2>4, <2>5, <2>6, <2>7, <2>8 DEF IInv
<1> QED
  BY <1>5, <1>6, Kinds

\* Every step keeps the invariant.
LEMMA NextInv == IInv /\ [Next]_vars => IInv'
<1> SUFFICES ASSUME IInv, [Next]_vars PROVE IInv'
  OBVIOUS
<1> USE JobQueueAssumption
<1>0. TypeOK'
  BY TypeStep DEF IInv
<1>1. ASSUME NEW c \in Callers, NEW d \in Documents, CheckLive(c, d) PROVE IInv'
  <2>1. writes'[c] = NoWrites /\ UNCHANGED <<jobs, held>>
    BY <1>1, Kinds DEF CheckLive, IInv, PendingWrites
  <2>2. \A t \in Sessions : t # c => writes'[t] = writes[t] /\ mode'[t] = mode[t]
    BY <1>1 DEF CheckLive, IInv, TypeOK
  <2> QED
    BY <1>0, <2>1, <2>2, Kinds, SessionEnds
<1>2. ASSUME NEW c \in Callers, Insert(c) PROVE IInv'
  BY <1>0, <1>2, InsertInv
<1>3. ASSUME NEW c \in Callers, InsertRejected(c) PROVE IInv'
  <2>1. writes'[c] = NoWrites /\ UNCHANGED <<jobs, held>>
    BY <1>3, Kinds DEF InsertRejected, IInv, PendingWrites
  <2>2. \A t \in Sessions : t # c => writes'[t] = writes[t] /\ mode'[t] = mode[t]
    BY <1>3 DEF InsertRejected, IInv, TypeOK
  <2> QED
    BY <1>0, <2>1, <2>2, Kinds, SessionEnds
<1>4. ASSUME NEW w \in Workers, Claim(w) PROVE IInv'
  BY <1>0, <1>4, ClaimInv
<1>5. ASSUME NEW w \in Workers, Complete(w) PROVE IInv'
  <2>1. PICK c \in held[w] : Finish(w, c[1]) \/ Fail(w, c[1])
    BY <1>5 DEF Complete
  <2>2. c[1] \in JobIds
    BY DEF IInv, TypeOK
  <2> QED
    BY <1>0, <2>1, <2>2, CompleteInv
<1>6. ASSUME NEW s \in Sessions, Commit(s) PROVE IInv'
  BY <1>0, <1>6, CommitInv
<1>7. ASSUME NEW s \in Sessions, Rollback(s) PROVE IInv'
  <2>1. writes'[s] = NoWrites /\ UNCHANGED <<jobs, held>>
    BY <1>7 DEF Rollback, IInv, TypeOK
  <2>2. \A t \in Sessions : t # s => writes'[t] = writes[t] /\ mode'[t] = mode[t]
    BY <1>7 DEF Rollback, IInv, TypeOK
  <2> QED
    BY <1>0, <2>1, <2>2, SessionEnds
<1>8. ASSUME NEW w \in MayCrash, Crash(w) PROVE IInv'
  <2>1. w \in Workers
    BY <1>8
  <2>2. writes'[w] = NoWrites /\ UNCHANGED jobs
    BY <1>8, <2>1, Kinds DEF Crash, IInv, TypeOK
  <2>3. \A t \in Sessions : t # w => writes'[t] = writes[t] /\ mode'[t] = mode[t]
    BY <1>8, <2>1, Kinds DEF Crash, IInv, TypeOK
  <2>4. \A v \in Workers : held'[v] \subseteq held[v]
    BY <1>8, <2>1 DEF Crash, IInv, TypeOK
  <2> QED
    BY <1>0, <2>1, <2>2, <2>3, <2>4, Kinds, SessionEnds
<1>9. CASE Tick \/ UNCHANGED vars
  <2>1. UNCHANGED <<jobs, mode, writes, held>>
    BY <1>9 DEF Tick, vars
  <2>2. \A s \in Sessions : mode'[s] # "open" => writes'[s] = NoWrites
    BY <2>1 DEF IInv, PendingWrites
  <2> QED
    BY <1>0, <2>1, <2>2, WritesForgotten
<1> QED
  BY <1>1, <1>2, <1>3, <1>4, <1>5, <1>6, <1>7, <1>8, <1>9 DEF Next

\* Every reachable state of the queue satisfies the invariant.
THEOREM InvariantHolds == Spec => []IInv
  BY InitInv, NextInv, PTL DEF Spec

\* However uploads race and retries come back, a document has at most one job
\* that is queued or in hand.
THEOREM AtMostOneLiveJob == Spec => []OneLiveJob
<1>1. IInv => OneLiveJob
  BY DEF IInv
<1> QED
  BY <1>1, InvariantHolds, PTL

\* claim and fail keep the count of attempts within max_attempts.
THEOREM NeverTriedTooOften == Spec => []AttemptsBounded
<1>1. IInv => AttemptsBounded
  BY DEF IInv
<1> QED
  BY <1>1, InvariantHolds, PTL

\* claimed_by is set exactly while the job is in hand.
THEOREM ClaimedWhileProcessing == Spec => []ClaimMarksProcessing
<1>1. IInv => ClaimMarksProcessing
  BY DEF IInv
<1> QED
  BY <1>1, InvariantHolds, PTL

\* No two workers are handed the same attempt of a job, whatever batches they
\* ask for and whoever dies.
THEOREM NoSharedAttempt == Spec => []HandedOutOnce
<1>1. IInv => HandedOutOnce
  BY DEF IInv
<1> QED
  BY <1>1, InvariantHolds, PTL

-----------------------------------------------------------------------------
(* What a step may not do.                                                 *)

\* The committed rows change only in a commit, and there one by one as the
\* statements of the transaction wrote them.
LEMMA RowStep ==
  ASSUME IInv, [Next]_vars, NEW j \in JobIds, jobs'[j] # jobs[j]
  PROVE  \E s \in Sessions : /\ Commit(s) /\ writes[s][j] # NoRow
                             /\ jobs'[j] = writes[s][j]
<1> USE JobQueueAssumption
<1>1. PICK s \in Sessions : Commit(s)
  BY DEF Next, vars, CheckLive, Insert, InsertRejected, Claim, Complete, Finish, Fail,
         Rollback, Crash, Tick
<1> QED
  BY <1>1 DEF Commit

\* A job that is finished or failed stays as it is: a late or repeated
\* completion finds nothing to update, and no claim takes it.
THEOREM TerminalJobsStay == Spec => TerminalIsFinal
<1>1. ASSUME IInv, [Next]_vars, NEW j \in JobIds,
             jobs[j] # NoRow, jobs[j].status \in {"finished", "failed"}
      PROVE  jobs'[j] = jobs[j]
  <2> SUFFICES ASSUME jobs'[j] # jobs[j] PROVE FALSE
    OBVIOUS
  <2>1. PICK s \in Sessions : writes[s][j] # NoRow
    BY <1>1, RowStep
  <2>2. CASE s \in Callers
    BY <1>1, <2>1, <2>2 DEF IInv, PendingWrites
  <2>3. CASE s \in Workers
    BY <1>1, <2>1, <2>3, PendingRow
  <2> QED
    BY <2>2, <2>3, Kinds
<1>2. IInv /\ [Next]_vars =>
        [\A j \in JobIds :
           jobs[j] # NoRow /\ jobs[j].status \in {"finished", "failed"} => jobs'[j] = jobs[j]]_vars
  BY <1>1
<1> QED
  BY <1>2, InvariantHolds, PTL DEF Spec, TerminalIsFinal

-----------------------------------------------------------------------------
(* Only the holder of an attempt completes it.                             *)

DistinctWorkerIds == \A v, w \in Workers : WorkerIdOf[v] = WorkerIdOf[w] => v = w

\* A worker that holds a claim of a row it owns holds the row's current attempt ...
CurrentClaimHeld ==
  \A w \in Workers : \A c \in held[w] :
    IsClaimOf(jobs[c[1]], WorkerIdOf[w]) => <<c[1], jobs[c[1]].attempts>> \in held[w]

\* ... and so does one that is about to commit a completion.
CompletionHeld ==
  \A w \in Workers, j \in JobIds :
    writes[w][j] # NoRow /\ jobs[j].status = "processing"
    => <<j, jobs[j].attempts>> \in held[w]

HolderInv == CurrentClaimHeld /\ CompletionHeld

\* Only a commit changes rows or adds claims.
LEMMA NoCommit ==
  ASSUME IInv, [Next]_vars, \A s \in Sessions : ~Commit(s)
  PROVE  /\ UNCHANGED jobs
         /\ \A w \in Workers : held'[w] \in {held[w], {}}
<1> USE JobQueueAssumption
<1>1. UNCHANGED jobs
  BY DEF Next, vars, CheckLive, Insert, InsertRejected, Claim, Complete, Finish, Fail,
         Rollback, Crash, Tick
<1>2. ASSUME NEW w \in MayCrash, Crash(w)
      PROVE  \A v \in Workers : held'[v] \in {held[v], {}}
  BY <1>2 DEF Crash, IInv, TypeOK
<1>3. (\A w \in MayCrash : ~Crash(w)) => UNCHANGED held
  BY DEF Next, vars, CheckLive, Insert, InsertRejected, Claim, Complete, Finish, Fail,
         Rollback, Tick
<1> QED
  BY <1>1, <1>2, <1>3
\* The committed row j and the claims of w after a commit of session s.
LEMMA CommitEffect ==
  ASSUME IInv, NEW s \in Sessions, Commit(s)
  PROVE  /\ \A j \in JobIds : jobs'[j] = IF writes[s][j] = NoRow THEN jobs[j] ELSE writes[s][j]
         /\ writes'[s] = NoWrites
         /\ \A t \in Sessions : t # s => writes'[t] = writes[t]
         /\ \A w \in Workers : w # s => held'[w] = held[w]
         /\ \A w \in Workers : held[w] \subseteq held'[w]
         /\ \A j \in JobIds : s \in Workers /\ writes[s][j] # NoRow /\ writes[s][j].status = "processing"
              => <<j, writes[s][j].attempts>> \in held'[s]
         /\ s \in Workers => \A c \in held'[s] : c \in held[s] \/ writes[s][c[1]] # NoRow
  BY DEF Commit, IInv, TypeOK

\* A commit keeps the holders' invariant: a new claim replaces the owner.
LEMMA HolderCommit ==
  ASSUME DistinctWorkerIds, IInv, HolderInv, NEW s \in Sessions, Commit(s)
  PROVE  HolderInv'
<1> USE JobQueueAssumption
<1>1. \A w \in Workers : \A c \in held[w] : c[1] \in JobIds
  BY DEF IInv, TypeOK
<1>2. \A w \in Workers : \A c \in held'[w] : c[1] \in JobIds
  BY <1>1 DEF Commit, IInv, TypeOK
<1>3. CurrentClaimHeld'
  <2> SUFFICES ASSUME NEW w \in Workers, NEW c \in held'[w], IsClaimOf(jobs'[c[1]], WorkerIdOf[w])
               PROVE  <<c[1], jobs'[c[1]].attempts>> \in held'[w]
    BY DEF CurrentClaimHeld
  <2> DEFINE j == c[1]
  <2>1. j \in JobIds
    BY <1>2
  <2>2. CASE writes[s][j] = NoRow
    <3>1. jobs'[j] = jobs[j] /\ c \in held[w]
      BY <2>1, <2>2, CommitEffect
    <3> QED
      BY <3>1, CommitEffect DEF HolderInv, CurrentClaimHeld
  <2>3. CASE writes[s][j] # NoRow
    <3>1. jobs'[j] = writes[s][j] /\ writes[s][j].status = "processing"
          /\ writes[s][j].claimedBy = WorkerIdOf[w]
      BY <2>1, <2>3, CommitEffect DEF IsClaimOf
    <3>2. s \in Workers
      BY <2>1, <2>3, <3>1, Kinds DEF IInv, PendingWrites
    <3>3. writes[s][j].claimedBy # Nobody /\ jobs[j].status = "queued" /\ jobs[j] \in Row
      BY <2>1, <2>3, <3>1, <3>2, PendingRow
    <3>4. writes[s][j] = ClaimedRow(jobs[j], WorkerIdOf[s])
      BY <2>1, <2>3, <3>2, <3>3 DEF IInv, PendingWrites, IsClaimOf
    <3>5. WorkerIdOf[s] = WorkerIdOf[w]
      BY <3>1, <3>2, <3>3, <3>4 DEF ClaimedRow, Row, JobRow
    <3>6. s = w
      BY <3>2, <3>5 DEF DistinctWorkerIds
    <3> QED
      BY <2>1, <2>3, <3>1, <3>2, <3>6, CommitEffect
  <2> QED
    BY <2>2, <2>3
<1>4. CompletionHeld'
  <2> SUFFICES ASSUME NEW w \in Workers, NEW j \in JobIds,
                      writes'[w][j] # NoRow, jobs'[j].status = "processing"
               PROVE  <<j, jobs'[j].attempts>> \in held'[w]
    BY DEF CompletionHeld
  <2>1. w # s /\ writes'[w] = writes[w]
    BY CommitEffect, Kinds DEF NoWrites
  <2>2. writes[s][j] = NoRow
    BY <2>1, Kinds DEF IInv, PendingWrites
  <2>3. jobs'[j] = jobs[j] /\ held'[w] = held[w]
    BY <2>1, <2>2, CommitEffect
  <2> QED
    BY <2>1, <2>3 DEF HolderInv, CompletionHeld
<1> QED
  BY <1>3, <1>4 DEF HolderInv

\* Where a pending write of worker w comes from, in a step that is no commit.
LEMMA PendingOrigin ==
  ASSUME IInv, TypeOK', [Next]_vars, \A s \in Sessions : ~Commit(s),
         NEW w \in Workers, NEW j \in JobIds, writes'[w][j] # NoRow
  PROVE  /\ held'[w] = held[w]
         /\ \/ writes[w][j] # NoRow
            \/ jobs[j].status = "queued"
            \/ IsClaimOf(jobs[j], WorkerIdOf[w]) /\ \E c \in held[w] : c[1] = j
<1> USE JobQueueAssumption
<1>1. ASSUME \/ \E c \in Callers, d \in Documents : CheckLive(c, d)
             \/ \E c \in Callers : InsertRejected(c)
             \/ Tick \/ UNCHANGED vars
      PROVE  writes' = writes /\ held' = held
  BY <1>1 DEF CheckLive, InsertRejected, Tick, vars
<1>2. ASSUME NEW c \in Callers, Insert(c)
      PROVE  writes'[w] = writes[w] /\ held' = held
  BY <1>2, Kinds DEF Insert, IInv, TypeOK
<1>3. ASSUME NEW v \in Workers, Claim(v)
      PROVE  held' = held /\ (writes[w][j] # NoRow \/ jobs[j].status = "queued")
  <2>1. PICK S \in DueJobs :
          writes' = [writes EXCEPT ![v] =
            [i \in JobIds |-> IF i \in S THEN ClaimedRow(jobs[i], WorkerIdOf[v]) ELSE NoRow]]
    BY <1>3 DEF Claim
  <2>2. v # w => writes'[w] = writes[w]
    BY <2>1 DEF IInv, TypeOK
  <2>3. v = w => j \in S
    BY <2>1, Kinds DEF IInv, TypeOK
  <2>4. \A i \in S : jobs[i].status = "queued"
    BY DEF DueJobs, Claimable
  <2> QED
    BY <1>3, <2>2, <2>3, <2>4 DEF Claim
<1>4. ASSUME NEW v \in Workers, Complete(v)
      PROVE  /\ held' = held
             /\ \/ writes[w][j] # NoRow
                \/ IsClaimOf(jobs[j], WorkerIdOf[w]) /\ \E c \in held[w] : c[1] = j
  <2>1. PICK c \in held[v] : Finish(v, c[1]) \/ Fail(v, c[1])
    BY <1>4 DEF Complete
  <2>2. c[1] \in JobIds /\ Owned(v, c[1]) /\ held' = held
    BY <2>1 DEF Finish, Fail, IInv, TypeOK
  <2>3. PICK row : writes' = [writes EXCEPT ![v][c[1]] = row]
    BY <2>1 DEF Finish, Fail
  <2>4. CASE v = w /\ c[1] = j
    BY <2>2, <2>4 DEF Owned
  <2>5. CASE v # w \/ c[1] # j
    <3>1. writes'[w][j] = writes[w][j]
      <4>1. writes[w] \in [JobIds -> Row \cup {NoRow}] /\ writes[v] \in [JobIds -> Row \cup {NoRow}]
        BY Kinds DEF IInv, TypeOK
      <4>2. writes'[v] = [writes[v] EXCEPT ![c[1]] = row] /\ (v # w => writes'[w] = writes[w])
        BY <2>3, Kinds DEF IInv, TypeOK
      <4> QED
        BY <2>2, <2>5, <4>1, <4>2
    <3>2. writes[w][j] # NoRow
      BY <3>1
    <3> QED
      BY <2>2, <3>2
  <2> QED
    BY <2>4, <2>5
<1>5. ASSUME NEW s \in Sessions, Rollback(s)
      PROVE  held' = held /\ writes[w][j] # NoRow
  BY <1>5, Kinds DEF Rollback, IInv, TypeOK, NoWrites
<1>6. ASSUME NEW v \in MayCrash, Crash(v)
      PROVE  held'[w] = held[w] /\ writes[w][j] # NoRow
  BY <1>6, Kinds DEF Crash, IInv, TypeOK, NoWrites
<1>7. \/ \E c \in Callers, d \in Documents : CheckLive(c, d)
      \/ \E c \in Callers : InsertRejected(c)
      \/ Tick \/ UNCHANGED vars
      \/ \E c \in Callers : Insert(c)
      \/ \E v \in Workers : Claim(v)
      \/ \E v \in Workers : Complete(v)
      \/ \E s \in Sessions : Rollback(s)
      \/ \E v \in MayCrash : Crash(v)
  BY DEF Next
<1> QED
  BY <1>1, <1>2, <1>3, <1>4, <1>5, <1>6, <1>7

\* Every step keeps the holders' invariant.
LEMMA HolderStep ==
  ASSUME DistinctWorkerIds, IInv, TypeOK', HolderInv, [Next]_vars
  PROVE  HolderInv'
<1>1. CASE \E s \in Sessions : Commit(s)
  BY <1>1, HolderCommit
<1>2. CASE \A s \in Sessions : ~Commit(s)
  <2>1. UNCHANGED jobs /\ \A w \in Workers : held'[w] \in {held[w], {}}
    BY <1>2, NoCommit
  <2>2. CurrentClaimHeld'
    BY <2>1 DEF HolderInv, CurrentClaimHeld
  <2>3. ASSUME NEW w \in Workers, NEW j \in JobIds,
               writes'[w][j] # NoRow, jobs'[j].status = "processing"
        PROVE  <<j, jobs'[j].attempts>> \in held'[w]
    <3>1. /\ held'[w] = held[w]
          /\ \/ writes[w][j] # NoRow
             \/ IsClaimOf(jobs[j], WorkerIdOf[w]) /\ \E c \in held[w] : c[1] = j
      BY <1>2, <2>1, <2>3, PendingOrigin
    <3> QED
      BY <2>1, <2>3, <3>1 DEF HolderInv, CurrentClaimHeld, CompletionHeld
  <2> QED
    BY <2>2, <2>3 DEF HolderInv, CompletionHeld
<1> QED
  BY <1>1, <1>2

\* When every worker runs under its own worker_id, a job in hand is changed by
\* nobody but the worker that was handed its current attempt.
THEOREM HolderCompletes ==
  ASSUME DistinctWorkerIds
  PROVE  Spec => OnlyHolderCompletes
<1>1. Init => HolderInv
  BY Kinds DEF Init, HolderInv, CurrentClaimHeld, CompletionHeld, NoWrites
<1>2. IInv /\ IInv' /\ HolderInv /\ [Next]_vars => HolderInv'
  BY HolderStep DEF IInv
<1>3. ASSUME IInv, HolderInv, [Next]_vars, NEW j \in JobIds,
             jobs[j] # NoRow, jobs[j].status = "processing", jobs'[j] # jobs[j]
      PROVE  \E w \in Workers : /\ mode[w] = "open" /\ mode'[w] = "idle"
                                /\ <<j, jobs[j].attempts>> \in held[w]
  <2>1. PICK s \in Sessions : Commit(s) /\ writes[s][j] # NoRow
    BY <1>3, RowStep
  <2>2. s \in Workers
    BY <1>3, <2>1, Kinds DEF IInv, PendingWrites
  <2>3. <<j, jobs[j].attempts>> \in held[s]
    BY <1>3, <2>1, <2>2 DEF HolderInv, CompletionHeld
  <2>4. mode[s] = "open" /\ mode'[s] = "idle"
    BY <1>3, <2>1 DEF Commit, IInv, TypeOK
  <2> QED
    BY <2>2, <2>3, <2>4
<1>4. IInv /\ HolderInv /\ [Next]_vars =>
        [\A j \in JobIds :
           /\ jobs[j] # NoRow /\ jobs[j].status = "processing"
           /\ jobs'[j] # jobs[j]
           => \E w \in Workers : /\ mode[w] = "open" /\ mode'[w] = "idle"
                                  /\ <<j, jobs[j].attempts>> \in held[w]]_vars
  BY <1>3
<1> QED
  BY <1>1, <1>2, <1>4, InvariantHolds, PTL DEF Spec, OnlyHolderCompletes
-----------------------------------------------------------------------------
(* The queue implements TaskQueue.                                         *)

\* A transaction that wrote several rows is a claim.
OneStatement ==
  \A s \in Sessions, i, k \in JobIds :
    writes[s][i] # NoRow /\ writes[s][k] # NoRow /\ i # k
    => writes[s][i].status = "processing"

\* Statements write one row each, except the claim.
LEMMA OneStatementStep ==
  ASSUME IInv, TypeOK', OneStatement, [Next]_vars
  PROVE  OneStatement'
<1> USE JobQueueAssumption
<1> SUFFICES ASSUME NEW s \in Sessions, NEW i \in JobIds, NEW k \in JobIds,
                    writes'[s][i] # NoRow, writes'[s][k] # NoRow, i # k
             PROVE  writes'[s][i].status = "processing"
  BY DEF OneStatement
<1>1. CASE writes'[s] = writes[s]
  BY <1>1 DEF OneStatement
<1>2. writes'[s] # NoWrites
  BY DEF NoWrites
<1>3. ASSUME NEW c \in Callers, Insert(c) PROVE writes'[s] = writes[s]
  <2>1. PICK j \in JobIds : writes' = [writes EXCEPT ![c][j] = QueuedRow(target[c], now)]
    BY <1>3 DEF Insert
  <2>2. CASE s = c
    <3>1. writes[c] = NoWrites
      BY <1>3, Kinds DEF Insert, IInv, PendingWrites
    <3>2. writes'[c] = [NoWrites EXCEPT ![j] = QueuedRow(target[c], now)]
      BY <2>1, <3>1, Kinds DEF IInv, TypeOK
    <3>3. \A m \in JobIds : m # j => writes'[c][m] = NoRow
      BY <3>2 DEF NoWrites
    <3> QED
      BY <2>2, <3>3
  <2> QED
    BY <2>1, <2>2 DEF IInv, TypeOK
<1>4. ASSUME NEW w \in Workers, Claim(w)
      PROVE  writes'[s] = writes[s] \/ writes'[s][i].status = "processing"
  <2>1. PICK S \in DueJobs :
          writes' = [writes EXCEPT ![w] =
            [j \in JobIds |-> IF j \in S THEN ClaimedRow(jobs[j], WorkerIdOf[w]) ELSE NoRow]]
    BY <1>4 DEF Claim
  <2>2. CASE s = w
    <3>1. writes'[s] = [j \in JobIds |-> IF j \in S THEN ClaimedRow(jobs[j], WorkerIdOf[w]) ELSE NoRow]
      BY <2>1, <2>2 DEF IInv, TypeOK
    <3>2. i \in S /\ writes'[s][i] = ClaimedRow(jobs[i], WorkerIdOf[w])
      BY <3>1
    <3>3. jobs[i] \in Row /\ WorkerIdOf[w] \in WorkerIds /\ 0 \in Nat
      BY <3>2 DEF DueJobs, Claimable, IInv, TypeOK
    <3> QED
      BY <3>2, <3>3, RowFields
  <2>3. CASE s # w
    BY <2>1, <2>3 DEF IInv, TypeOK
  <2> QED
    BY <2>2, <2>3
<1>5. ASSUME NEW w \in Workers, Complete(w) PROVE writes'[s] = writes[s]
  <2>1. PICK c \in held[w] : Finish(w, c[1]) \/ Fail(w, c[1])
    BY <1>5 DEF Complete
  <2>2. c[1] \in JobIds /\ mode[w] = "idle"
    BY <2>1 DEF Finish, Fail, IInv, TypeOK
  <2>3. PICK row : writes' = [writes EXCEPT ![w][c[1]] = row]
    BY <2>1 DEF Finish, Fail
  <2>4. CASE s = w
    <3>1. writes[w] = NoWrites
      BY <2>2, Kinds DEF IInv, PendingWrites
    <3>2. writes'[w] = [NoWrites EXCEPT ![c[1]] = row]
      BY <2>3, <3>1, Kinds DEF IInv, TypeOK
    <3>3. \A m \in JobIds : m # c[1] => writes'[w][m] = NoRow
      BY <3>2 DEF NoWrites
    <3> QED
      BY <2>4, <3>3
  <2>5. CASE s # w
    BY <2>3, <2>5 DEF IInv, TypeOK
  <2> QED
    BY <2>4, <2>5
<1>6. ASSUME NEW t \in Sessions, Commit(t) \/ Rollback(t) PROVE writes'[s] \in {writes[s], NoWrites}
  BY <1>6 DEF Commit, Rollback, IInv, TypeOK
<1>7. ASSUME NEW w \in MayCrash, Crash(w) PROVE writes'[s] \in {writes[s], NoWrites}
  BY <1>7, Kinds DEF Crash, IInv, TypeOK
<1>8. ASSUME \/ \E c \in Callers, d \in Documents : CheckLive(c, d)
             \/ \E c \in Callers : InsertRejected(c)
             \/ Tick \/ UNCHANGED vars
      PROVE  writes' = writes
  BY <1>8 DEF CheckLive, InsertRejected, Tick, vars
<1> QED
  BY <1>1, <1>2, <1>3, <1>4, <1>5, <1>6, <1>7, <1>8 DEF Next

\* A commit of a caller submits a task.
LEMMA CallerSubmits ==
  ASSUME IInv, OneStatement, NEW s \in Callers, Commit(s),
         NEW j \in JobIds, writes[s][j] # NoRow
  PROVE  TaskView!Submit(j, writes[s][j].document) /\ writes[s][j].document \in Documents
<1> USE JobQueueAssumption
<1>1. \A i \in JobIds : jobs'[i] = IF writes[s][i] = NoRow THEN jobs[i] ELSE writes[s][i]
  BY Kinds, CommitEffect
<1>2. \A i \in JobIds : writes[s][i] # NoRow => i = j
  BY Kinds DEF OneStatement, IInv, PendingWrites
<1>3. /\ jobs[j] = NoRow /\ writes[s][j].status = "queued" /\ writes[s][j].attempts = 0
      /\ writes[s][j] \in Row
  BY Kinds DEF IInv, PendingWrites, TypeOK
<1>4. jobs'[j] = writes[s][j] /\ \A i \in JobIds : i # j => jobs'[i] = jobs[i]
  BY <1>1, <1>2
<1>5. \A u \in JobIds : JobStage[u] \in {"queued", "processing"} => JobSubject[u] # writes[s][j].document
  BY DEF JobStage, JobSubject, IInv, PendingInserts, IsLive, LiveStatus
<1>6. JobStage' = [JobStage EXCEPT ![j] = "queued"]
  BY <1>3, <1>4 DEF JobStage
<1>7. JobSubject' = [JobSubject EXCEPT ![j] = writes[s][j].document]
  BY <1>3, <1>4 DEF JobSubject
<1>8. JobTries' = JobTries
  BY <1>3, <1>4 DEF JobTries
<1>9. JobStage[j] = "absent"
  BY <1>3 DEF JobStage
<1>10. writes[s][j].document \in Documents
  BY <1>3 DEF Row, JobRow
<1> QED
  BY <1>5, <1>6, <1>7, <1>8, <1>9, <1>10 DEF TaskView!Submit, TaskView!Active

\* A commit of a claim starts the tasks it took.
LEMMA ClaimStarts ==
  ASSUME IInv, NEW s \in Workers, Commit(s),
         \A j \in JobIds : writes[s][j] # NoRow => writes[s][j].status = "processing"
  PROVE  \E S \in SUBSET JobIds : TaskView!Start(S)
<1> USE JobQueueAssumption, MaxAttemptsAssumption
<1> DEFINE S == {j \in JobIds : writes[s][j] # NoRow}
<1>1. \A j \in JobIds : jobs'[j] = IF j \in S THEN writes[s][j] ELSE jobs[j]
  BY Kinds, CommitEffect
<1>2. \A j \in S : /\ jobs[j] # NoRow /\ jobs[j].status = "queued"
                   /\ jobs[j].document = writes[s][j].document
                   /\ writes[s][j].attempts = jobs[j].attempts + 1
  BY PendingRow DEF IsLive
<1>3. \A j \in S : writes[s][j] # NoRow /\ writes[s][j].status = "processing"
  OBVIOUS
<1>4. \A j \in S : jobs[j].attempts < MaxAttempts
  BY <1>2 DEF IInv, AttemptsBounded
<1>5. S \subseteq JobIds
  OBVIOUS
<1> HIDE DEF S
<1>6. \A j \in S : JobStage[j] = "queued" /\ JobTries[j] < MaxAttempts
  BY <1>2, <1>4, <1>5 DEF JobStage, JobTries
<1>7. JobStage' = [j \in JobIds |-> IF j \in S THEN "processing" ELSE JobStage[j]]
  BY <1>1, <1>3 DEF JobStage
<1>8. JobTries' = [j \in JobIds |-> IF j \in S THEN JobTries[j] + 1 ELSE JobTries[j]]
  <2>1. \A j \in JobIds : JobTries'[j] = IF j \in S THEN JobTries[j] + 1 ELSE JobTries[j]
    BY <1>1, <1>2, <1>3 DEF JobTries
  <2> QED
    BY <2>1 DEF JobTries
<1>9. JobSubject' = JobSubject
  BY <1>1, <1>2, <1>3 DEF JobSubject
<1> QED
  BY <1>5, <1>6, <1>7, <1>8, <1>9 DEF TaskView!Start

\* A commit of a completion ends the task.
LEMMA CompletionEnds ==
  ASSUME IInv, OneStatement, NEW s \in Workers, Commit(s),
         NEW j \in JobIds, writes[s][j] # NoRow, writes[s][j].status # "processing"
  PROVE  TaskView!EndTask(j)
<1> USE JobQueueAssumption, MaxAttemptsAssumption
<1>1. \A i \in JobIds : writes[s][i] # NoRow => i = j
  BY Kinds DEF OneStatement
<1>2. jobs'[j] = writes[s][j] /\ \A i \in JobIds : i # j => jobs'[i] = jobs[i]
  BY <1>1, Kinds, CommitEffect
<1>3. /\ jobs[j] # NoRow /\ jobs[j].status = "processing"
      /\ jobs[j].attempts \in Nat
      /\ writes[s][j].attempts = jobs[j].attempts
      /\ writes[s][j].document = jobs[j].document
      /\ \/ writes[s][j].status = "finished"
         \/ writes[s][j].status = "failed" /\ jobs[j].attempts >= MaxAttempts
         \/ writes[s][j].status = "queued" /\ ~(jobs[j].attempts >= MaxAttempts)
  BY PendingRow DEF IsLive, Row, JobRow
<1>4. jobs[j].attempts <= MaxAttempts
  BY <1>3 DEF IInv, AttemptsBounded
<1>5. JobStage[j] = "processing" /\ JobTries[j] = jobs[j].attempts
  BY <1>3 DEF JobStage, JobTries
<1>6. JobStage' = [JobStage EXCEPT ![j] = writes[s][j].status]
  BY <1>2 DEF JobStage
<1>7. JobTries' = JobTries /\ JobSubject' = JobSubject
  BY <1>2, <1>3 DEF JobTries, JobSubject
<1>8. \/ writes[s][j].status = "finished"
      \/ JobTries[j] < MaxAttempts /\ writes[s][j].status = "queued"
      \/ JobTries[j] = MaxAttempts /\ writes[s][j].status = "failed"
  BY <1>3, <1>4, <1>5
<1> QED
  BY <1>5, <1>6, <1>7, <1>8 DEF TaskView!EndTask

\* Every step of the queue is a step of the abstract one, or changes no task.
LEMMA TaskStep ==
  ASSUME IInv, OneStatement, [Next]_vars
  PROVE  [TaskView!TaskNext]_TaskView!taskVars
<1>1. CASE UNCHANGED jobs
  BY <1>1 DEF TaskView!taskVars, JobStage, JobTries, JobSubject
<1>2. CASE ~UNCHANGED jobs
  <2>1. PICK s \in Sessions : Commit(s)
    BY <1>2, NoCommit
  <2>2. PICK j \in JobIds : writes[s][j] # NoRow
    BY <1>2, <2>1 DEF Commit, IInv, TypeOK
  <2>3. CASE s \in Callers
    BY <2>1, <2>2, <2>3, CallerSubmits DEF TaskView!TaskNext
  <2>4. CASE s \in Workers /\ \A i \in JobIds : writes[s][i] # NoRow => writes[s][i].status = "processing"
    BY <2>1, <2>4, ClaimStarts DEF TaskView!TaskNext
  <2>5. ASSUME s \in Workers, NEW i \in JobIds, writes[s][i] # NoRow, writes[s][i].status # "processing"
        PROVE  TaskView!TaskNext
    BY <2>1, <2>5, CompletionEnds DEF TaskView!TaskNext
  <2> QED
    BY <2>3, <2>4, <2>5, Kinds
<1> QED
  BY <1>1, <1>2

\* The queue with its sessions, row locks, retries and deaths implements the
\* abstract task queue.
THEOREM QueueImplementsTaskQueue == Spec => ImplementsTaskQueue
<1>1. Init => OneStatement /\ TaskView!TaskInit
  <2> SUFFICES ASSUME Init PROVE OneStatement /\ TaskView!TaskInit
    OBVIOUS
  <2>1. OneStatement
    BY DEF Init, NoWrites, OneStatement
  <2>2. TaskView!TaskInit
    BY DEF Init, NoWrites, TaskView!TaskInit, JobStage, JobTries, JobSubject
  <2> QED
    BY <2>1, <2>2
<1>2. IInv /\ IInv' /\ OneStatement /\ [Next]_vars => OneStatement'
  BY OneStatementStep DEF IInv
<1>3. IInv /\ OneStatement /\ [Next]_vars => [TaskView!TaskNext]_TaskView!taskVars
  BY TaskStep
<1> QED
  BY <1>1, <1>2, <1>3, InvariantHolds, PTL DEF Spec, ImplementsTaskQueue, TaskView!TaskSpec
=============================================================================
