-------------------------- MODULE IngestionProofs --------------------------
(***************************************************************************)
(* Proofs about Ingestion, for any number of documents, workers, uploads   *)
(* and deletes.                                                            *)
(*                                                                         *)
(* A job in a worker's hands is in nobody else's (ClaimOk), although the   *)
(* processes share a worker_id and the row may have been deleted or        *)
(* overwritten meanwhile.  What a worker writes outside the database it    *)
(* writes under the document's row lock, and only if it found the document *)
(* alive there (WorkerOk); so does a delete (EraseOk).  An upload has its  *)
(* document for itself (UploadOk).  Between transactions a document is     *)
(* then as the properties say (DocOk).                                     *)
(***************************************************************************)
EXTENDS Ingestion, TLAPS

Writing == {"store", "members", "adapter", "clear", "upsert", "vector", "commit"}
WorkerSteps == {"idle"} \cup Processing \cup {"failed", "record", "recorded"}
RequestSteps == {"idle", "put", "enqueue"} \cup Erasing
ObjectKinds == {"original", "normalized", "members", "adapter"}

RowTypes ==
  /\ life \in [Documents -> {"absent", "live", "deleted"}]
  /\ status \in [Documents -> {"queued", "ready", "failed"}]
  /\ normalized \in SUBSET Documents
  /\ chunks \in [Documents -> Nat]
  /\ jobs \in [Documents -> Row \cup {NoRow}]

LockTypes ==
  /\ docLock \in [Documents -> Workers \cup Requests \cup {Nobody}]
  /\ jobLock \in [Documents -> Workers \cup {Nobody}]
  /\ hashLock \in [Hashes -> Uploaders \cup {Nobody}]

StoreTypes ==
  /\ objects \in [Documents -> SUBSET ObjectKinds]
  /\ points \in [Documents -> SUBSET Nat]
  /\ docVector \in [Documents -> Nat]

WorkerTypes ==
  /\ wpc \in [Workers -> WorkerSteps]
  /\ cur \in [Workers -> Documents \cup {NoDocument}]
  /\ claimed \in [Workers -> [Documents -> Nat]]
  /\ merged \in [Workers -> {"same", "differs", "missing"}]

RequestTypes ==
  /\ rpc \in [Requests -> RequestSteps]
  /\ rdoc \in [Requests -> Documents \cup {NoDocument}]
  /\ \A r \in Uploaders : rpc[r] \in {"idle", "put", "enqueue"}
  /\ \A r \in Deleters : rpc[r] \in {"idle"} \cup Erasing

Types ==
  RowTypes /\ LockTypes /\ StoreTypes /\ WorkerTypes /\ RequestTypes /\ scrubbed \in SUBSET Documents

-----------------------------------------------------------------------------
(* The invariant. *)

\* A document between transactions.
DocOk(d) ==
  /\ jobs[d] # NoRow => jobs[d].document = d /\ jobs[d].availableAt = 0
  /\ life[d] = "absent" => jobs[d] = NoRow /\ d \notin normalized
  /\ life[d] = "live" =>
       /\ jobs[d] # NoRow
       /\ status[d] = "queued" <=> jobs[d].status \in LiveStatus
       /\ status[d] = "ready" <=> jobs[d].status = "finished"
       /\ status[d] = "failed" <=> jobs[d].status = "failed"
  /\ life[d] = "live" /\ d \notin scrubbed =>
       "original" \in objects[d] /\ (d \in normalized => "normalized" \in objects[d])
  /\ life[d] = "live" /\ status[d] = "ready" /\ d \notin scrubbed =>
       /\ points[d] = IF d \in Textless THEN {} ELSE {chunks[d]}
       /\ docVector[d] = chunks[d]
       /\ chunks[d] = 0 <=> d \in Textless
       /\ d \in normalized
       /\ {"original", "normalized", "adapter"} \subseteq objects[d]
  /\ life[d] = "deleted" =>
       /\ points[d] = {} /\ docVector[d] = 0 /\ chunks[d] = 0
       /\ "original" \notin objects[d] /\ "adapter" \notin objects[d]
       /\ d \in normalized => "normalized" \notin objects[d]

\* The job of d finished by a commit whose answer was lost.
Unanswered(w, d) ==
  /\ "ambiguous" \in Faults /\ jobs[d] # NoRow /\ jobs[d].status = "finished"
  /\ cur[w] = d /\ wpc[w] \in {"failed", "record", "recorded"}

\* A job in the hands of w is in nobody else's.  Its row is as w remembers it, unless
\* it was deleted or finished behind w's back.
ClaimOk(w, d) ==
  claimed[w][d] # 0 =>
    /\ life[d] # "absent"
    /\ \A v \in Workers \ {w} : claimed[v][d] = 0
    /\ jobs[d] \in {NoRow, Snapshot(w, d)} \/ Unanswered(w, d)

\* The worker's transaction holds the row of its document.
Holds(w) == wpc[w] \in Writing \cup {"skip"} \/ (wpc[w] = "recorded" /\ merged[w] = "missing")

\* What the merge of the job's row has found is still so, or the row was deleted since.
MergeOk(w, d) ==
  /\ wpc[w] \in Processing => merged[w] # "differs"
  /\ wpc[w] \in Processing \cup {"record", "recorded"} => (merged[w] = "missing" => jobs[d] = NoRow)
  /\ wpc[w] \in {"record", "recorded"} =>
       /\ merged[w] = "same" => jobs[d] \in {NoRow, Snapshot(w, d)}
       /\ merged[w] = "differs" => jobs[d] = NoRow \/ Unanswered(w, d)

\* What the attempt has written so far.
WorkOk(w, d) ==
  /\ wpc[w] \in Writing \ {"store"} => {"original", "normalized"} \subseteq objects[d]
  /\ wpc[w] \in {"clear", "upsert", "vector", "commit"} => "adapter" \in objects[d]
  /\ wpc[w] = "upsert" => d \notin Textless /\ points[d] = {}
  /\ wpc[w] \in {"vector", "commit"} => points[d] = IF d \in Textless THEN {} ELSE {claimed[w][d]}
  /\ wpc[w] = "commit" => docVector[d] = IF d \in Textless THEN 0 ELSE claimed[w][d]

\* A worker with the document d at hand.
AtHand(w, d) ==
  /\ d \in Documents /\ claimed[w][d] # 0
  /\ Holds(w) => docLock[d] = w
  /\ wpc[w] = "recorded" /\ merged[w] # "missing" => jobLock[d] = w /\ jobs[d] # NoRow
  /\ wpc[w] \in Writing => life[d] = "live"
  /\ wpc[w] = "skip" => life[d] = "deleted"
  /\ MergeOk(w, d)
  /\ WorkOk(w, d)

WorkerOk(w) == wpc[w] # "idle" => AtHand(w, cur[w])

\* An upload has its document and its bytes for itself.
UploadOk(r) ==
  rpc[r] # "idle" =>
    /\ rdoc[r] \in Documents /\ life[rdoc[r]] = "absent"
    /\ hashLock[HashOf[rdoc[r]]] = r
    /\ \A e \in Documents : life[e] = "live" => HashOf[e] # HashOf[rdoc[r]]
    /\ rpc[r] = "enqueue" => "original" \in objects[rdoc[r]]

\* A delete that has the document d: what it has erased is gone.
Erased(r, d) ==
  /\ d \in Documents /\ docLock[d] = r /\ life[d] # "absent"
  /\ rpc[r] # "points" => points[d] = {}
  /\ rpc[r] \notin {"points", "vector"} => docVector[d] = 0
  /\ rpc[r] \in {"normalized", "adapter", "rows"} => "original" \notin objects[d]
  /\ rpc[r] \in {"adapter", "rows"} => (d \in normalized => "normalized" \notin objects[d])
  /\ rpc[r] = "rows" => "adapter" \notin objects[d]

EraseOk(r) == rpc[r] # "idle" => Erased(r, rdoc[r])

Claims == \A w \in Workers, d \in Documents : ClaimOk(w, d)

IInv ==
  /\ Types
  /\ \A d \in Documents : DocOk(d)
  /\ Claims
  /\ \A w \in Workers : WorkerOk(w)
  /\ \A r \in Uploaders : UploadOk(r)
  /\ \A r \in Deleters : EraseOk(r)

-----------------------------------------------------------------------------
(* Job rows. *)

\* The fields of a row, all at once.
Fields(row, d, s, a, by, at) ==
  row.document = d /\ row.status = s /\ row.attempts = a /\ row.claimedBy = by /\ row.availableAt = at

\* What claim writes.
LEMMA ClaimedFields ==
  ASSUME NEW row \in Row, NEW id \in WorkerIds
  PROVE  /\ ClaimedRow(row, id) \in Row
         /\ ClaimedRow(row, id) =
              [document |-> row.document, status |-> "processing", attempts |-> row.attempts + 1,
               claimedBy |-> id, availableAt |-> row.availableAt]
         /\ row.attempts \in Nat /\ row.attempts + 1 # 0
<1>. DEFINE n == row.attempts + 1
<1>1. row.attempts \in Nat /\ n \in Nat /\ n # 0
  BY DEF Row, JobRow
<1>2. ClaimedRow(row, id) = [row EXCEPT !.status = "processing", !.claimedBy = id, !.attempts = n]
  BY DEF ClaimedRow
<1>. HIDE DEF n
<1>3. ClaimedRow(row, id) =
        [document |-> row.document, status |-> "processing", attempts |-> n,
         claimedBy |-> id, availableAt |-> row.availableAt]
  BY <1>2 DEF Row, JobRow
<1>4. row.document \in Documents /\ row.availableAt \in Nat /\ "processing" \in JobStatus
  BY DEF Row, JobRow, JobStatus
<1>5. ClaimedRow(row, id) \in Row
  BY <1>1, <1>3, <1>4 DEF Row, JobRow
<1>. QED  BY <1>1, <1>3, <1>5 DEF n

\* What finish writes.
LEMMA FinishedFields ==
  ASSUME NEW row \in Row
  PROVE  /\ FinishedRow(row) \in Row
         /\ Fields(FinishedRow(row), row.document, "finished", row.attempts, Nobody, row.availableAt)
  BY DEF FinishedRow, Fields, Row, JobRow, JobStatus

\* What fail writes, the retry being due at once.
LEMMA FailedFields ==
  ASSUME NEW row \in Row
  PROVE  /\ FailedRow(row, 0) \in Row
         /\ FailedRow(row, 0).document = row.document
         /\ FailedRow(row, 0).status \in {"queued", "failed"}
         /\ row.availableAt = 0 => FailedRow(row, 0).availableAt = 0
<1>1. CASE row.attempts >= MaxAttempts
  BY <1>1 DEF FailedRow, Row, JobRow, JobStatus
<1>2. CASE ~(row.attempts >= MaxAttempts)
  BY <1>2 DEF FailedRow, Row, JobRow, JobStatus
<1>. QED  BY <1>1, <1>2

\* What enqueue writes.
LEMMA QueuedFields ==
  ASSUME NEW d \in Documents
  PROVE  QueuedRow(d, 0) \in Row /\ Fields(QueuedRow(d, 0), d, "queued", 0, Nobody, 0)
  BY DEF QueuedRow, Fields, Row, JobRow, JobStatus

\* What a worker remembers.
LEMMA SnapshotFields ==
  ASSUME Types, NEW w \in Workers, NEW d \in Documents
  PROVE  /\ Snapshot(w, d) \in Row /\ Snapshot(w, d) # NoRow
         /\ Fields(Snapshot(w, d), d, "processing", claimed[w][d], WorkerIdOf[w], 0)
         /\ IsClaimOf(Snapshot(w, d), WorkerIdOf[w])
<1>1. WorkerIdOf[w] \in WorkerIds /\ claimed[w][d] \in Nat
  BY IngestionAssumption DEF Types, WorkerTypes
<1>2. Snapshot(w, d) \in Row
  BY <1>1 DEF Snapshot, Row, JobRow, JobStatus
<1>3. Fields(Snapshot(w, d), d, "processing", claimed[w][d], WorkerIdOf[w], 0)
  BY DEF Snapshot, Fields
<1>. QED  BY <1>2, <1>3, IngestionAssumption DEF Fields, IsClaimOf

-----------------------------------------------------------------------------
(* A step is looked at for the process that takes it and its document. *)

\* What the stores and the tables have of d.
StoresKept(d) ==
  /\ objects'[d] = objects[d] /\ points'[d] = points[d] /\ docVector'[d] = docVector[d]
  /\ chunks'[d] = chunks[d] /\ (d \in normalized' <=> d \in normalized)

\* All there is of d but the locks.
Kept(d) ==
  /\ StoresKept(d) /\ life'[d] = life[d] /\ status'[d] = status[d] /\ jobs'[d] = jobs[d]
  /\ d \in scrubbed' <=> d \in scrubbed

LocksKept(d) == docLock'[d] = docLock[d] /\ jobLock'[d] = jobLock[d]

\* A worker neither takes nor drops the lock of another: the row of a job in its
\* hands is locked by nobody else.
OwnLocks(w) ==
  \A d \in Documents :
    /\ docLock'[d] = docLock[d] \/ docLock[d] \in {Nobody, w}
    /\ jobLock'[d] = jobLock[d] \/ jobLock[d] \in {Nobody, w} \/ claimed[w][d] # 0

SameWorker(v) ==
  wpc'[v] = wpc[v] /\ cur'[v] = cur[v] /\ claimed'[v] = claimed[v] /\ merged'[v] = merged[v]

\* A document nobody touches stays as it is.
LEMMA KeptOk == ASSUME NEW d \in Documents, DocOk(d), Kept(d) PROVE DocOk(d)'
  BY DEF DocOk, Kept, StoresKept

\* A worker that takes no step and whose documents nobody touches.
LEMMA SameClaim ==
  ASSUME NEW v \in Workers, NEW d \in Documents, ClaimOk(v, d), SameWorker(v),
         claimed[v][d] # 0 => life'[d] = life[d] /\ jobs'[d] = jobs[d],
         \A u \in Workers \ {v} : claimed[v][d] # 0 /\ claimed[u][d] = 0 => claimed'[u][d] = 0
  PROVE  ClaimOk(v, d)'
<1>. SUFFICES ASSUME claimed'[v][d] # 0
              PROVE  /\ life'[d] # "absent"
                     /\ \A u \in Workers \ {v} : claimed'[u][d] = 0
                     /\ jobs'[d] \in {NoRow, Snapshot(v, d)'} \/ Unanswered(v, d)'
  BY DEF ClaimOk
<1>1. Snapshot(v, d)' = Snapshot(v, d)
  BY DEF SameWorker, Snapshot
<1>2. jobs'[d] = jobs[d] => (Unanswered(v, d)' <=> Unanswered(v, d))
  BY DEF SameWorker, Unanswered
<1>. QED  BY <1>1, <1>2 DEF ClaimOk, SameWorker

\* The same for what it has at hand.
LEMMA SameAtHand ==
  ASSUME NEW v \in Workers, NEW d \in Documents, SameWorker(v), d = cur[v], AtHand(v, d), Kept(d),
         docLock[d] = v => docLock'[d] = v, jobLock[d] = v => jobLock'[d] = v
  PROVE  AtHand(v, d)'
<1>1. Snapshot(v, d)' = Snapshot(v, d) /\ (Unanswered(v, d)' <=> Unanswered(v, d)) /\ (Holds(v)' <=> Holds(v))
  BY DEF SameWorker, Snapshot, Unanswered, Holds, Kept
<1>2. MergeOk(v, d)'
  BY <1>1 DEF AtHand, MergeOk, SameWorker, Kept
<1>3. WorkOk(v, d)'
  BY DEF AtHand, WorkOk, SameWorker, Kept, StoresKept
<1>. QED  BY <1>1, <1>2, <1>3 DEF AtHand, SameWorker, Kept

\* A delete that takes no step and whose document nobody touches.
LEMMA SameErase ==
  ASSUME NEW r \in Deleters, EraseOk(r), rpc'[r] = rpc[r], rdoc'[r] = rdoc[r],
         rpc[r] # "idle" => LET d == rdoc[r] IN
           docLock'[d] = r /\ StoresKept(d) /\ life'[d] = life[d]
  PROVE  EraseOk(r)'
  BY DEF EraseOk, Erased, StoresKept

\* An upload that takes no step.
LEMMA SameUpload ==
  ASSUME NEW r \in Uploaders, UploadOk(r), rpc'[r] = rpc[r], rdoc'[r] = rdoc[r],
         rpc[r] # "idle" => LET d == rdoc[r] IN
           /\ hashLock'[HashOf[d]] = r /\ life'[d] = life[d] /\ objects'[d] = objects[d]
           /\ \A e \in Documents : life'[e] = "live" /\ life[e] # "live" => HashOf[e] # HashOf[d]
  PROVE  UploadOk(r)'
  BY DEF UploadOk

\* A step of the worker w about the document c.
WorkerStep(w, c) ==
  /\ \A v \in Workers \ {w} : SameWorker(v)
  /\ UNCHANGED <<rpc, rdoc, hashLock, scrubbed, life>>
  /\ OwnLocks(w)
  /\ \A d \in Documents \ {c} : Kept(d)
  /\ claimed[w][c] # 0 \/ Kept(c)
  /\ docLock[c] # w => StoresKept(c)
  /\ \A d \in Documents : claimed'[w][d] \in {claimed[w][d], 0}
  /\ wpc[w] # "idle" => cur[w] = c

\* If it leaves its document and the worker as they should be, all is well.
LEMMA WorkerKeeps ==
  ASSUME IInv, Types', NEW w \in Workers, NEW c \in Documents, WorkerStep(w, c),
         DocOk(c)', ClaimOk(w, c)', WorkerOk(w)'
  PROVE  IInv'
<1>1. \A d \in Documents : DocOk(d)'
  BY KeptOk DEF IInv, WorkerStep
<1>2. ASSUME NEW v \in Workers, NEW d \in Documents PROVE ClaimOk(v, d)'
  <2>1. CASE v # w
    <3>1. claimed[v][d] # 0 /\ d = c => Kept(c)
      BY <2>1 DEF IInv, Claims, ClaimOk, WorkerStep
    <3>2. claimed[v][d] # 0 => Kept(d)
      BY <3>1 DEF WorkerStep
    <3>3. \A u \in Workers \ {v} : claimed[u][d] = 0 => claimed'[u][d] = 0
      BY DEF WorkerStep, SameWorker
    <3>4. SameWorker(v) /\ ClaimOk(v, d)
      BY <2>1 DEF WorkerStep, IInv, Claims
    <3>. QED  BY <3>2, <3>3, <3>4, SameClaim DEF Kept
  <2>2. CASE v = w /\ d # c
    <3>. SUFFICES ASSUME claimed'[w][d] # 0
                  PROVE  /\ life'[d] # "absent"
                         /\ \A u \in Workers \ {w} : claimed'[u][d] = 0
                         /\ jobs'[d] \in {NoRow, Snapshot(w, d)'}
      BY <2>2 DEF ClaimOk
    <3>1. claimed'[w][d] = claimed[w][d] /\ Kept(d) /\ ClaimOk(w, d)
      BY <2>2 DEF WorkerStep, IInv, Claims
    <3>2. ~ Unanswered(w, d)
      BY <2>2 DEF Unanswered, WorkerStep
    <3>3. Snapshot(w, d)' = Snapshot(w, d)
      BY <3>1 DEF Snapshot
    <3>. QED  BY <3>1, <3>2, <3>3 DEF ClaimOk, Kept, WorkerStep, SameWorker
  <2>. QED  BY <2>1, <2>2
<1>3. ASSUME NEW v \in Workers \ {w} PROVE WorkerOk(v)'
  <2>1. SameWorker(v)
    BY DEF WorkerStep
  <2>2. ASSUME wpc[v] # "idle" PROVE AtHand(v, cur[v])'
    <3>1. PICK d \in Documents : d = cur[v]
      BY <2>2 DEF IInv, WorkerOk, AtHand
    <3>2. AtHand(v, d) /\ claimed[v][d] # 0
      BY <2>2, <3>1 DEF IInv, WorkerOk, AtHand
    <3>3. d = c => Kept(c)
      BY <3>2 DEF IInv, Claims, ClaimOk, WorkerStep
    <3>4. Kept(d)
      BY <3>3 DEF WorkerStep
    <3>5. v # Nobody
      BY IngestionAssumption
    <3>6. claimed[w][d] = 0
      BY <3>2 DEF IInv, Claims, ClaimOk
    <3>7. (docLock[d] = v => docLock'[d] = v) /\ (jobLock[d] = v => jobLock'[d] = v)
      BY <3>5, <3>6 DEF WorkerStep, OwnLocks
    <3>8. AtHand(v, d)'
      BY <2>1, <3>1, <3>2, <3>4, <3>7, SameAtHand
    <3>. QED  BY <2>1, <3>1, <3>8 DEF SameWorker
  <2>. QED  BY <2>1, <2>2 DEF WorkerOk, SameWorker
<1>4. ASSUME NEW r \in Uploaders PROVE UploadOk(r)'
  <2>1. rpc'[r] = rpc[r] /\ rdoc'[r] = rdoc[r] /\ hashLock' = hashLock /\ life' = life /\ UploadOk(r)
    BY DEF WorkerStep, IInv
  <2>2. ASSUME rpc[r] # "idle" PROVE objects'[rdoc[r]] = objects[rdoc[r]]
    <3>1. rdoc[r] \in Documents /\ life[rdoc[r]] = "absent"
      BY <2>1, <2>2 DEF UploadOk
    <3>2. rdoc[r] = c => Kept(c)
      BY <3>1 DEF IInv, Claims, ClaimOk, WorkerStep
    <3>. QED  BY <3>1, <3>2 DEF WorkerStep, Kept, StoresKept
  <2>. QED  BY <2>1, <2>2, SameUpload DEF UploadOk
<1>5. ASSUME NEW r \in Deleters PROVE EraseOk(r)'
  <2>1. rpc'[r] = rpc[r] /\ rdoc'[r] = rdoc[r] /\ life' = life /\ EraseOk(r)
    BY DEF WorkerStep, IInv
  <2>2. r # Nobody /\ r # w
    BY IngestionAssumption DEF Requests
  <2>3. ASSUME rpc[r] # "idle" PROVE docLock'[rdoc[r]] = r /\ StoresKept(rdoc[r])
    <3>1. rdoc[r] \in Documents /\ docLock[rdoc[r]] = r
      BY <2>1, <2>3 DEF EraseOk, Erased
    <3>2. docLock'[rdoc[r]] = r
      BY <2>2, <3>1 DEF WorkerStep, OwnLocks
    <3>3. StoresKept(rdoc[r])
      BY <2>2, <3>1 DEF WorkerStep, Kept
    <3>. QED  BY <3>2, <3>3
  <2>. QED  BY <2>1, <2>3, SameErase
<1>6. \A v \in Workers : WorkerOk(v)'
  BY <1>3
<1>. QED  BY <1>1, <1>2, <1>4, <1>5, <1>6 DEF IInv, Claims

-----------------------------------------------------------------------------
(* Types. *)

\* What is left alone keeps its type.
LEMMA TypesKept ==
  ASSUME Types
  PROVE  /\ UNCHANGED rowVars => RowTypes'
         /\ UNCHANGED lockVars => LockTypes'
         /\ UNCHANGED storeVars => StoreTypes'
         /\ UNCHANGED workerVars => WorkerTypes'
         /\ UNCHANGED requestVars => RequestTypes'
         /\ UNCHANGED scrubbed => scrubbed' \in SUBSET Documents
<1>. USE DEF Types
<1>1. UNCHANGED rowVars => RowTypes'
  BY DEF RowTypes, rowVars
<1>2. UNCHANGED lockVars => LockTypes'
  BY DEF LockTypes, lockVars
<1>3. UNCHANGED storeVars => StoreTypes'
  BY DEF StoreTypes, storeVars
<1>4. UNCHANGED workerVars => WorkerTypes'
  BY DEF WorkerTypes, workerVars
<1>5. UNCHANGED requestVars => RequestTypes'
  BY DEF RequestTypes, requestVars
<1>. QED  BY <1>1, <1>2, <1>3, <1>4, <1>5

\* The first state has its types.
LEMMA TypesInit == Init => Types
  BY DEF Init, Types, RowTypes, LockTypes, StoreTypes, WorkerTypes, RequestTypes, WorkerSteps, RequestSteps, Requests

\* The row after a merge.
LEMMA MergedType ==
  ASSUME Types, NEW w \in Workers, NEW d \in Documents
  PROVE  MergedRow(w, d) \in Row \cup {NoRow}
  BY SnapshotFields DEF MergedRow, Types, RowTypes

\* The row a finished job is left with.
LEMMA FinishJobFields ==
  ASSUME Types, NEW w \in Workers, NEW d \in Documents, FinishJob(w, d)
  PROVE  /\ jobs' \in [Documents -> Row \cup {NoRow}]
         /\ \A e \in Documents \ {d} : jobs'[e] = jobs[e]
         /\ jobs'[d] = LET row == MergedRow(w, d)
                       IN  IF row # NoRow /\ IsClaimOf(row, WorkerIdOf[w]) THEN FinishedRow(row) ELSE row
<1>. DEFINE row == MergedRow(w, d)
            new == IF row # NoRow /\ IsClaimOf(row, WorkerIdOf[w]) THEN FinishedRow(row) ELSE row
<1>1. row \in Row \cup {NoRow}
  BY MergedType
<1>2. jobs' = [jobs EXCEPT ![d] = new]
  BY DEF FinishJob
<1>. HIDE DEF row
<1>3. new \in Row \cup {NoRow}
  BY <1>1, FinishedFields
<1>. HIDE DEF new
<1>4. jobs \in [Documents -> Row \cup {NoRow}]
  BY DEF Types, RowTypes
<1>5. jobs' \in [Documents -> Row \cup {NoRow}] /\ jobs'[d] = new /\ \A e \in Documents \ {d} : jobs'[e] = jobs[e]
  BY <1>2, <1>3, <1>4
<1>. QED  BY <1>5 DEF new, row

\* Only w takes a step.
Only(w) == \A v \in Workers \ {w} : SameWorker(v)

\* A worker goes on with the same document.
LEMMA StepFields ==
  ASSUME Types, NEW w \in Workers, NEW to \in WorkerSteps, wpc' = [wpc EXCEPT ![w] = to],
         UNCHANGED <<cur, claimed, merged>>
  PROVE  /\ WorkerTypes' /\ Only(w)
         /\ wpc'[w] = to /\ cur'[w] = cur[w] /\ claimed'[w] = claimed[w] /\ merged'[w] = merged[w]
  BY DEF Types, WorkerTypes, Only, SameWorker

\* It takes a document of its batch up, or looks at the row again.
LEMMA MergeFields ==
  ASSUME Types, NEW w \in Workers, NEW d \in Documents, NEW to \in WorkerSteps,
         wpc' = [wpc EXCEPT ![w] = to], UNCHANGED claimed,
         cur' = [cur EXCEPT ![w] = d] \/ (cur' = cur /\ cur[w] = d),
         merged' = [merged EXCEPT ![w] = Compare(w, d)]
  PROVE  /\ WorkerTypes' /\ Only(w)
         /\ wpc'[w] = to /\ cur'[w] = d /\ claimed'[w] = claimed[w] /\ merged'[w] = Compare(w, d)
<1>1. Compare(w, d) \in {"same", "differs", "missing"}
  BY DEF Compare
<1>. HIDE DEF Compare
<1>. QED  BY <1>1 DEF Types, WorkerTypes, Only, SameWorker

\* It is done with its document, or dies.
LEMMA EndFields ==
  ASSUME Types, NEW w \in Workers, NEW d \in Documents, (d = cur[w] /\ EndJob(w)) \/ Die(w)
  PROVE  /\ WorkerTypes' /\ Only(w) /\ wpc'[w] = "idle" /\ claimed'[w][d] = 0
         /\ \A e \in Documents : claimed'[w][e] \in {claimed[w][e], 0}
<1>. USE DEF Types, WorkerTypes, WorkerSteps
<1>1. PICK f \in [Documents -> Nat] :
        /\ claimed' = [claimed EXCEPT ![w] = f]
        /\ f[d] = 0 /\ \A e \in Documents : f[e] \in {claimed[w][e], 0}
  <2>1. CASE d = cur[w] /\ EndJob(w)
    <3>. DEFINE f == [claimed[w] EXCEPT ![d] = 0]
    <3>1. claimed' = [claimed EXCEPT ![w] = f]
      BY <2>1 DEF EndJob
    <3>2. f \in [Documents -> Nat] /\ f[d] = 0 /\ \A e \in Documents : f[e] \in {claimed[w][e], 0}
      OBVIOUS
    <3>. HIDE DEF f
    <3>. QED  BY <3>1, <3>2
  <2>2. CASE Die(w)
    <3>. DEFINE f == [e \in Documents |-> 0]
    <3>1. claimed' = [claimed EXCEPT ![w] = f]
      BY <2>2 DEF Die
    <3>2. f \in [Documents -> Nat] /\ f[d] = 0 /\ \A e \in Documents : f[e] \in {claimed[w][e], 0}
      OBVIOUS
    <3>. HIDE DEF f
    <3>. QED  BY <3>1, <3>2
  <2>. QED  BY <2>1, <2>2
<1>2. /\ claimed' \in [Workers -> [Documents -> Nat]] /\ claimed'[w] = f
      /\ \A v \in Workers \ {w} : claimed'[v] = claimed[v]
  BY <1>1
<1>3. /\ wpc' = [wpc EXCEPT ![w] = "idle"] /\ cur' = [cur EXCEPT ![w] = NoDocument]
      /\ merged' = [merged EXCEPT ![w] = "same"]
  BY DEF EndJob, Die
<1>4. WorkerTypes' /\ wpc'[w] = "idle"
  BY <1>2, <1>3
<1>5. Only(w)
  BY <1>2, <1>3 DEF Only, SameWorker
<1>. QED  BY <1>1, <1>2, <1>4, <1>5

\* What the worker's transaction tells of its document.
LEMMA AtHandFacts ==
  ASSUME IInv, NEW w \in Workers, wpc[w] # "idle"
  PROVE  \E d \in Documents :
           /\ d = cur[w] /\ AtHand(w, d) /\ DocOk(d) /\ ClaimOk(w, d) /\ life[d] # "absent"
           /\ wpc[w] \in Writing =>
                /\ docLock[d] = w /\ jobs[d] = Snapshot(w, d) /\ merged[w] = "same"
                /\ status[d] = "queued" /\ life[d] = "live"
<1>1. PICK d \in Documents : d = cur[w]
  BY DEF IInv, WorkerOk, AtHand
<1>2. AtHand(w, d) /\ DocOk(d) /\ ClaimOk(w, d)
  BY <1>1 DEF IInv, WorkerOk, Claims
<1>3. life[d] # "absent"
  BY <1>2 DEF AtHand, ClaimOk
<1>4. ASSUME wpc[w] \in Writing
      PROVE  /\ docLock[d] = w /\ jobs[d] = Snapshot(w, d) /\ merged[w] = "same"
             /\ status[d] = "queued" /\ life[d] = "live"
  <2>1. docLock[d] = w /\ life[d] = "live"
    BY <1>2, <1>4 DEF AtHand, Holds
  <2>2. jobs[d] # NoRow
    BY <1>2, <2>1 DEF DocOk
  <2>3. jobs[d] = Snapshot(w, d)
    BY <1>2, <1>4, <2>2 DEF AtHand, ClaimOk, Unanswered, Writing
  <2>4. merged[w] = "same"
    BY <1>2, <1>4, <2>2 DEF AtHand, MergeOk, Writing, Processing, IInv, Types, WorkerTypes
  <2>5. status[d] = "queued"
    BY <1>2, <2>1, <2>3 DEF DocOk, Snapshot, LiveStatus
  <2>. QED  BY <2>1, <2>3, <2>4, <2>5
<1>. QED  BY <1>1, <1>2, <1>3, <1>4

-----------------------------------------------------------------------------
(* The steps of a worker. *)

\* Under the row lock the worker writes to the stores; the row reads `queued` meanwhile.
LEMMA WritingStep ==
  ASSUME IInv, NEW w \in Workers, NEW c \in Documents, c = cur[w], wpc[w] \in Writing,
         NEW to \in Writing, wpc' = [wpc EXCEPT ![w] = to],
         UNCHANGED <<rowVars, lockVars, cur, claimed, merged, requestVars, scrubbed>>, StoreTypes',
         \A d \in Documents \ {c} : objects'[d] = objects[d] /\ points'[d] = points[d] /\ docVector'[d] = docVector[d],
         objects[c] \subseteq objects'[c], WorkOk(w, c)'
  PROVE  IInv'
<1>. USE DEF rowVars, lockVars, requestVars
<1>1. Types
  BY DEF IInv
<1>2. wpc[w] # "idle" /\ to \in WorkerSteps /\ to \in Processing
  BY DEF Writing, WorkerSteps, Processing
<1>3. /\ AtHand(w, c) /\ DocOk(c) /\ ClaimOk(w, c) /\ docLock[c] = w /\ jobs[c] = Snapshot(w, c)
      /\ merged[w] = "same" /\ status[c] = "queued" /\ life[c] = "live"
  BY <1>2, AtHandFacts
<1>4. /\ WorkerTypes' /\ Only(w)
      /\ wpc'[w] = to /\ cur'[w] = c /\ claimed'[w] = claimed[w] /\ merged'[w] = "same"
  BY <1>1, <1>2, <1>3, StepFields
<1>5. Types'
  BY <1>1, <1>4, TypesKept DEF Types
<1>6. WorkerStep(w, c)
  <2>1. claimed[w][c] # 0 /\ \A v \in Workers \ {w} : SameWorker(v)
    BY <1>3, <1>4 DEF AtHand, Only
  <2>2. OwnLocks(w) /\ \A d \in Documents \ {c} : Kept(d)
    BY DEF OwnLocks, Kept, StoresKept
  <2>. QED  BY <1>3, <2>1, <2>2 DEF WorkerStep
<1>7. DocOk(c)'
  BY <1>3 DEF DocOk
<1>8. Snapshot(w, c)' = Snapshot(w, c)
  BY <1>4 DEF Snapshot
<1>9. ClaimOk(w, c)'
  BY <1>3, <1>4, <1>8 DEF ClaimOk, AtHand, Only, SameWorker
<1>10. AtHand(w, c)'
  <2>1. MergeOk(w, c)'
    BY <1>2, <1>3, <1>4, <1>8 DEF MergeOk, Writing
  <2>. QED  BY <1>3, <1>4, <2>1 DEF AtHand, Holds, Writing
<1>11. WorkerOk(w)'
  BY <1>4, <1>10 DEF WorkerOk
<1>. QED  BY <1>5, <1>6, <1>7, <1>9, <1>11, WorkerKeeps

\* The calls to the object store and to Qdrant.
LEMMA StoreSteps ==
  ASSUME IInv, NEW w \in Workers,
         \/ StoreNormalized(w) \/ StoreMembers(w) \/ StoreAdapter(w)
         \/ ClearPoints(w) \/ UpsertPoints(w) \/ WriteVector(w)
  PROVE  IInv'
<1>. USE DEF Step
<1>1. Types
  BY DEF IInv
<1>2. wpc[w] \in Writing
  BY DEF StoreNormalized, StoreMembers, StoreAdapter, ClearPoints, UpsertPoints, WriteVector, Writing
<1>3. PICK c \in Documents : c = cur[w] /\ AtHand(w, c) /\ DocOk(c)
  BY <1>2, AtHandFacts DEF Writing
<1>4. WorkOk(w, c) /\ claimed[w][c] \in Nat /\ claimed[w] \in [Documents -> Nat]
  BY <1>1, <1>3 DEF AtHand, Types, WorkerTypes
<1>5. /\ objects \in [Documents -> SUBSET ObjectKinds] /\ points \in [Documents -> SUBSET Nat]
      /\ docVector \in [Documents -> Nat] /\ w \in DOMAIN wpc
  BY <1>1 DEF Types, StoreTypes, WorkerTypes
<1>6. ASSUME NEW a, NEW to \in Writing, Step(w, a, to),
             NEW k \in ObjectKinds, objects' = [objects EXCEPT ![c] = @ \cup {k}], UNCHANGED <<points, docVector>>,
             WorkOk(w, c)'
      PROVE  IInv'
  <2>1. /\ StoreTypes' /\ objects[c] \subseteq objects'[c]
        /\ \A d \in Documents \ {c} : objects'[d] = objects[d] /\ points'[d] = points[d] /\ docVector'[d] = docVector[d]
    BY <1>5, <1>6 DEF StoreTypes
  <2>. QED  BY <1>2, <1>3, <1>6, <2>1, WritingStep
<1>7. ASSUME NEW a, NEW to \in Writing, Step(w, a, to),
             NEW S \in SUBSET Nat, points' = [points EXCEPT ![c] = S], UNCHANGED <<objects, docVector>>,
             WorkOk(w, c)'
      PROVE  IInv'
  <2>1. /\ StoreTypes' /\ objects[c] \subseteq objects'[c]
        /\ \A d \in Documents \ {c} : objects'[d] = objects[d] /\ points'[d] = points[d] /\ docVector'[d] = docVector[d]
    BY <1>5, <1>7 DEF StoreTypes
  <2>. QED  BY <1>2, <1>3, <1>7, <2>1, WritingStep
<1>8. CASE StoreNormalized(w)
  <2>. DEFINE to == IF cur[w] \in Archives THEN "members" ELSE "adapter"
  <2>1. to \in {"members", "adapter"} /\ to \in Writing /\ "normalized" \in ObjectKinds
    BY DEF Writing, ObjectKinds
  <2>2. /\ Step(w, "store", to) /\ objects' = [objects EXCEPT ![c] = @ \cup {"normalized"}]
        /\ "original" \in objects[c] /\ UNCHANGED <<points, docVector>>
    BY <1>3, <1>8 DEF StoreNormalized
  <2>. HIDE DEF to
  <2>3. wpc'[w] = to /\ {"original", "normalized"} \subseteq objects'[c]
    BY <1>5, <2>2
  <2>4. WorkOk(w, c)'
    BY <2>1, <2>3 DEF WorkOk
  <2>. QED  BY <1>6, <2>1, <2>2, <2>4
<1>9. CASE StoreMembers(w)
  <2>1. /\ Step(w, "members", "adapter") /\ objects' = [objects EXCEPT ![c] = @ \cup {"members"}]
        /\ UNCHANGED <<points, docVector>>
    BY <1>3, <1>9 DEF StoreMembers
  <2>2. wpc'[w] = "adapter" /\ objects[c] \subseteq objects'[c] /\ wpc[w] = "members"
    BY <1>5, <2>1
  <2>3. WorkOk(w, c)'
    BY <1>4, <2>2 DEF WorkOk, Writing
  <2>. QED  BY <1>6, <2>1, <2>3 DEF Writing, ObjectKinds
<1>10. CASE StoreAdapter(w)
  <2>1. /\ Step(w, "adapter", "clear") /\ objects' = [objects EXCEPT ![c] = @ \cup {"adapter"}]
        /\ UNCHANGED <<points, docVector>>
    BY <1>3, <1>10 DEF StoreAdapter
  <2>2. wpc'[w] = "clear" /\ objects[c] \subseteq objects'[c] /\ "adapter" \in objects'[c] /\ wpc[w] = "adapter"
    BY <1>5, <2>1
  <2>3. WorkOk(w, c)'
    BY <1>4, <2>2 DEF WorkOk, Writing
  <2>. QED  BY <1>6, <2>1, <2>3 DEF Writing, ObjectKinds
<1>11. CASE ClearPoints(w)
  <2>. DEFINE to == IF cur[w] \in Textless THEN "vector" ELSE "upsert"
  <2>1. to \in Writing /\ to = IF c \in Textless THEN "vector" ELSE "upsert"
    BY <1>3 DEF Writing
  <2>. DEFINE none == {}
  <2>2. /\ Step(w, "clear", to) /\ points' = [points EXCEPT ![c] = none] /\ UNCHANGED <<objects, docVector>>
        /\ none = {} /\ none \in SUBSET Nat
    BY <1>3, <1>11 DEF ClearPoints
  <2>. HIDE DEF to, none
  <2>3. wpc'[w] = to /\ points'[c] = {} /\ wpc[w] = "clear"
    BY <1>5, <2>2
  <2>4. WorkOk(w, c)'
    BY <1>4, <2>1, <2>2, <2>3 DEF WorkOk, Writing
  <2>. QED  BY <1>7, <2>1, <2>2, <2>4
<1>12. CASE UpsertPoints(w)
  <2>. DEFINE S == points[c] \cup {claimed[w][c]}
  <2>1. Step(w, "upsert", "vector") /\ points' = [points EXCEPT ![c] = S] /\ UNCHANGED <<objects, docVector>>
    BY <1>3, <1>12 DEF UpsertPoints
  <2>2. S \in SUBSET Nat
    BY <1>4, <1>5
  <2>3. S = {claimed[w][c]} /\ c \notin Textless
    BY <1>4, <2>1 DEF WorkOk
  <2>. HIDE DEF S
  <2>4. wpc'[w] = "vector" /\ points'[c] = S /\ wpc[w] = "upsert" /\ claimed' = claimed
    BY <1>5, <2>1
  <2>5. WorkOk(w, c)'
    BY <1>4, <2>1, <2>3, <2>4 DEF WorkOk, Writing
  <2>. QED  BY <1>7, <2>1, <2>2, <2>5 DEF Writing
<1>13. CASE WriteVector(w)
  <2>. DEFINE v == Derived(w)
  <2>1. Step(w, "vector", "commit") /\ docVector' = [docVector EXCEPT ![c] = v] /\ UNCHANGED <<objects, points>>
    BY <1>3, <1>13 DEF WriteVector
  <2>2. v \in Nat /\ v = IF c \in Textless THEN 0 ELSE claimed[w][c]
    BY <1>3, <1>4 DEF Derived
  <2>. HIDE DEF v
  <2>3. /\ wpc'[w] = "commit" /\ docVector'[c] = v /\ wpc[w] = "vector" /\ claimed' = claimed
        /\ StoreTypes' /\ \A d \in Documents \ {c} : docVector'[d] = docVector[d]
    BY <1>5, <2>1, <2>2 DEF StoreTypes
  <2>4. WorkOk(w, c)'
    BY <1>4, <2>1, <2>2, <2>3 DEF WorkOk, Writing
  <2>. QED  BY <1>2, <1>3, <2>1, <2>3, <2>4, WritingStep DEF Writing
<1>. QED  BY <1>8, <1>9, <1>10, <1>11, <1>12, <1>13

\* The worker takes a document of its batch up.
LEMMA MergeStep == ASSUME IInv, NEW w \in Workers, NEW c \in Documents, Merge(w, c) PROVE IInv'
<1>. USE DEF rowVars, lockVars, storeVars, requestVars
<1>1. Types /\ DocOk(c) /\ ClaimOk(w, c) /\ claimed[w][c] # 0 /\ wpc[w] = "idle"
  BY DEF IInv, Claims, Merge, InHand
<1>2. /\ WorkerTypes' /\ Only(w)
      /\ wpc'[w] = "lock" /\ cur'[w] = c /\ claimed'[w] = claimed[w] /\ merged'[w] = Compare(w, c)
  BY <1>1, MergeFields DEF Merge, WorkerSteps, Processing
<1>3. Types'
  BY <1>1, <1>2, TypesKept DEF Types, Merge
<1>4. WorkerStep(w, c)
  <2>1. \A v \in Workers \ {w} : SameWorker(v)
    BY <1>2 DEF Only
  <2>2. OwnLocks(w) /\ \A d \in Documents : Kept(d)
    BY DEF OwnLocks, Kept, StoresKept, Merge
  <2>. QED  BY <1>1, <1>2, <2>1, <2>2 DEF WorkerStep, Kept, Merge
<1>5. DocOk(c)'
  BY <1>1 DEF DocOk, Merge
<1>6. jobs' = jobs /\ life' = life /\ Snapshot(w, c)' = Snapshot(w, c) /\ jobs[c] \in {NoRow, Snapshot(w, c)}
  BY <1>1, <1>2 DEF Snapshot, ClaimOk, Unanswered, Merge
<1>7. ClaimOk(w, c)'
  BY <1>1, <1>2, <1>6 DEF ClaimOk, Only, SameWorker
<1>8. AtHand(w, c)'
  <2>1. merged'[w] # "differs" /\ (merged'[w] = "missing" => jobs[c] = NoRow)
    BY <1>2, <1>6 DEF Compare
  <2>2. MergeOk(w, c)'
    BY <1>2, <1>6, <2>1 DEF MergeOk
  <2>3. WorkOk(w, c)' /\ ~ Holds(w)'
    BY <1>2 DEF WorkOk, Holds, Writing
  <2>. QED  BY <1>1, <1>2, <2>2, <2>3 DEF AtHand, Writing
<1>9. WorkerOk(w)'
  BY <1>2, <1>8 DEF WorkerOk
<1>. QED  BY <1>3, <1>4, <1>5, <1>7, <1>9, WorkerKeeps

\* One function value.
LEMMA Lock ==
  ASSUME NEW L, NEW f \in [Documents -> L], NEW c \in Documents, NEW v \in L
  PROVE  /\ [f EXCEPT ![c] = v] \in [Documents -> L] /\ [f EXCEPT ![c] = v][c] = v
         /\ \A d \in Documents \ {c} : [f EXCEPT ![c] = v][d] = f[d]
  OBVIOUS

\* A step that changes nothing but a lock of the document at hand and where the worker is.
LEMMA LockingStep ==
  ASSUME IInv, NEW w \in Workers, NEW c \in Documents, c = cur[w], wpc[w] # "idle",
         NEW to \in WorkerSteps, wpc' = [wpc EXCEPT ![w] = to],
         UNCHANGED <<rowVars, storeVars, cur, claimed, merged, requestVars, scrubbed>>, LockTypes', OwnLocks(w),
         hashLock' = hashLock, ClaimOk(w, c)', AtHand(w, c)'
  PROVE  IInv'
<1>. USE DEF rowVars, storeVars, requestVars
<1>1. Types /\ DocOk(c) /\ claimed[w][c] # 0
  BY DEF IInv, WorkerOk, AtHand
<1>2. /\ WorkerTypes' /\ Only(w) /\ wpc'[w] = to /\ cur'[w] = c /\ claimed'[w] = claimed[w] /\ merged'[w] = merged[w]
  BY <1>1, StepFields
<1>3. Types'
  BY <1>1, <1>2, TypesKept DEF Types
<1>4. WorkerStep(w, c)
  <2>1. \A v \in Workers \ {w} : SameWorker(v)
    BY <1>2 DEF Only
  <2>2. \A d \in Documents : Kept(d)
    BY DEF Kept, StoresKept
  <2>. QED  BY <1>1, <1>2, <2>1, <2>2 DEF WorkerStep, Kept
<1>5. DocOk(c)'
  BY <1>1 DEF DocOk
<1>6. WorkerOk(w)'
  BY <1>2 DEF WorkerOk
<1>. QED  BY <1>3, <1>4, <1>5, <1>6, WorkerKeeps

\* What stays of a claim when only the worker's step changes.
LEMMA ClaimKept ==
  ASSUME Types, NEW w \in Workers, NEW c \in Documents, c = cur[w], ClaimOk(w, c),
         UNCHANGED <<jobs, life, cur, claimed>>,
         Unanswered(w, c) => wpc'[w] \in {"failed", "record", "recorded"}
  PROVE  ClaimOk(w, c)' /\ Snapshot(w, c)' = Snapshot(w, c)
<1>1. Snapshot(w, c)' = Snapshot(w, c)
  BY DEF Snapshot
<1>2. Unanswered(w, c) => Unanswered(w, c)'
  BY DEF Unanswered
<1>. QED  BY <1>1, <1>2 DEF ClaimOk

\* The worker gets the row of the document, and sees whether it was deleted.
LEMMA LockDocumentStep == ASSUME IInv, NEW w \in Workers, LockDocument(w) PROVE IInv'
<1>. USE DEF rowVars, storeVars, requestVars
<1>1. Types /\ wpc[w] = "lock"
  BY DEF IInv, LockDocument
<1>2. PICK c \in Documents : c = cur[w] /\ AtHand(w, c) /\ ClaimOk(w, c) /\ life[c] # "absent"
  BY <1>1, AtHandFacts
<1>. DEFINE to == IF life[c] = "deleted" THEN "skip" ELSE "store"
<1>3. /\ docLock[c] = Nobody /\ docLock' = [docLock EXCEPT ![c] = w] /\ wpc' = [wpc EXCEPT ![w] = to]
      /\ UNCHANGED <<rowVars, jobLock, hashLock, storeVars, cur, claimed, merged, requestVars, scrubbed>>
  BY <1>2 DEF LockDocument
<1>4. to \in WorkerSteps /\ to \in {"skip", "store"} /\ (to = "skip" <=> life[c] = "deleted")
  BY DEF WorkerSteps, Processing
<1>. HIDE DEF to
<1>5. LockTypes' /\ docLock'[c] = w /\ \A d \in Documents \ {c} : docLock'[d] = docLock[d]
  BY <1>1, <1>3, Lock DEF Types, LockTypes
<1>6. wpc'[w] = to
  BY <1>1, <1>3 DEF Types, WorkerTypes
<1>7. ClaimOk(w, c)' /\ Snapshot(w, c)' = Snapshot(w, c)
  BY <1>1, <1>2, <1>3, ClaimKept DEF Unanswered
<1>8. life[c] \in {"live", "deleted"}
  BY <1>1, <1>2 DEF Types, RowTypes
<1>9. AtHand(w, c)'
  <2>1. MergeOk(w, c)'
    BY <1>1, <1>2, <1>3, <1>4, <1>6, <1>7 DEF AtHand, MergeOk, Processing
  <2>2. WorkOk(w, c)'
    BY <1>4, <1>6 DEF WorkOk, Writing
  <2>. QED  BY <1>2, <1>3, <1>4, <1>5, <1>6, <1>8, <2>1, <2>2 DEF AtHand, Writing
<1>10. OwnLocks(w)
  BY <1>3, <1>5 DEF OwnLocks
<1>. QED  BY <1>1, <1>2, <1>3, <1>4, <1>5, <1>7, <1>9, <1>10, LockingStep

\* The attempt fails: the lock is given back, the job is kept in mind.
LEMMA AttemptFailsStep == ASSUME IInv, NEW w \in Workers, AttemptFails(w) PROVE IInv'
<1>. USE DEF rowVars, storeVars, requestVars
<1>1. Types /\ wpc[w] \in Processing /\ wpc[w] # "idle"
  BY DEF IInv, AttemptFails, Processing
<1>2. PICK c \in Documents : c = cur[w] /\ AtHand(w, c) /\ ClaimOk(w, c)
  BY <1>1, AtHandFacts
<1>3. /\ docLock' = docLock \/ (wpc[w] # "lock" /\ docLock' = [docLock EXCEPT ![c] = Nobody])
      /\ wpc' = [wpc EXCEPT ![w] = "failed"]
      /\ UNCHANGED <<rowVars, jobLock, hashLock, storeVars, cur, claimed, merged, requestVars, scrubbed>>
  BY <1>2 DEF AttemptFails, Unlock
<1>4. wpc[w] # "lock" => docLock[c] = w
  BY <1>1, <1>2 DEF AtHand, Holds, Processing, Writing
<1>5. LockTypes' /\ \A d \in Documents : docLock'[d] = docLock[d] \/ docLock[d] = w
  BY <1>1, <1>3, <1>4, Lock DEF Types, LockTypes
<1>6. wpc'[w] = "failed" /\ "failed" \in WorkerSteps
  BY <1>1, <1>3 DEF Types, WorkerTypes, WorkerSteps
<1>7. ClaimOk(w, c)'
  BY <1>1, <1>2, <1>3, <1>6, ClaimKept
<1>8. AtHand(w, c)'
  <2>1. MergeOk(w, c)' /\ WorkOk(w, c)' /\ ~ Holds(w)'
    BY <1>6 DEF MergeOk, WorkOk, Holds, Processing, Writing
  <2>. QED  BY <1>2, <1>3, <1>6, <2>1 DEF AtHand, Writing
<1>9. OwnLocks(w)
  BY <1>3, <1>5 DEF OwnLocks
<1>. QED  BY <1>1, <1>2, <1>3, <1>5, <1>6, <1>7, <1>8, <1>9, LockingStep

\* mark_failed looks at the job's row again.
LEMMA MergeFailedStep == ASSUME IInv, NEW w \in Workers, MergeFailed(w) PROVE IInv'
<1>. USE DEF rowVars, lockVars, storeVars, requestVars
<1>1. Types /\ wpc[w] = "failed"
  BY DEF IInv, MergeFailed
<1>2. PICK c \in Documents : c = cur[w] /\ AtHand(w, c) /\ ClaimOk(w, c) /\ DocOk(c)
  BY <1>1, AtHandFacts
<1>3. /\ wpc' = [wpc EXCEPT ![w] = "record"] /\ merged' = [merged EXCEPT ![w] = Compare(w, c)]
      /\ UNCHANGED <<rowVars, lockVars, storeVars, cur, claimed, requestVars, scrubbed>>
  BY <1>2 DEF MergeFailed
<1>4. /\ WorkerTypes' /\ Only(w)
      /\ wpc'[w] = "record" /\ cur'[w] = c /\ claimed'[w] = claimed[w] /\ merged'[w] = Compare(w, c)
  BY <1>1, <1>2, <1>3, MergeFields DEF WorkerSteps
<1>5. Types'
  BY <1>1, <1>3, <1>4, TypesKept DEF Types
<1>6. WorkerStep(w, c)
  <2>1. claimed[w][c] # 0 /\ \A v \in Workers \ {w} : SameWorker(v)
    BY <1>2, <1>4 DEF AtHand, Only
  <2>2. OwnLocks(w) /\ \A d \in Documents : Kept(d)
    BY <1>3 DEF OwnLocks, Kept, StoresKept
  <2>. QED  BY <1>2, <1>3, <1>4, <2>1, <2>2 DEF WorkerStep, Kept
<1>7. DocOk(c)'
  BY <1>2, <1>3 DEF DocOk
<1>8. ClaimOk(w, c)' /\ Snapshot(w, c)' = Snapshot(w, c)
  BY <1>1, <1>2, <1>3, <1>4, ClaimKept
<1>9. AtHand(w, c)'
  <2>1. jobs[c] \in {NoRow, Snapshot(w, c)} \/ Unanswered(w, c)
    BY <1>2 DEF AtHand, ClaimOk
  <2>2. Unanswered(w, c) => Unanswered(w, c)'
    BY <1>3, <1>4 DEF Unanswered
  <2>3. MergeOk(w, c)'
    BY <1>3, <1>4, <1>8, <2>1, <2>2 DEF MergeOk, Compare, Processing
  <2>4. WorkOk(w, c)' /\ ~ Holds(w)'
    BY <1>4 DEF WorkOk, Holds, Writing
  <2>. QED  BY <1>2, <1>4, <2>3, <2>4 DEF AtHand, Writing
<1>10. WorkerOk(w)'
  BY <1>4, <1>9 DEF WorkerOk
<1>. QED  BY <1>5, <1>6, <1>7, <1>8, <1>10, WorkerKeeps

\* It locks the job, or the document through the foreign key of a new row.
LEMMA LockJobStep == ASSUME IInv, NEW w \in Workers, LockJob(w) \/ InsertJob(w) PROVE IInv'
<1>. USE DEF rowVars, storeVars, requestVars
<1>1. Types /\ wpc[w] = "record"
  BY DEF IInv, LockJob, InsertJob
<1>2. PICK c \in Documents : c = cur[w] /\ AtHand(w, c) /\ ClaimOk(w, c)
  BY <1>1, AtHandFacts
<1>3. /\ wpc' = [wpc EXCEPT ![w] = "recorded"]
      /\ UNCHANGED <<rowVars, hashLock, storeVars, cur, claimed, merged, requestVars, scrubbed>>
  BY DEF LockJob, InsertJob
<1>4. wpc'[w] = "recorded" /\ "recorded" \in WorkerSteps
  BY <1>1, <1>3 DEF Types, WorkerTypes, WorkerSteps
<1>5. ClaimOk(w, c)' /\ Snapshot(w, c)' = Snapshot(w, c)
  BY <1>1, <1>2, <1>3, <1>4, ClaimKept
<1>6. MergeOk(w, c)' /\ WorkOk(w, c)'
  <2>1. Unanswered(w, c) => Unanswered(w, c)'
    BY <1>3, <1>4 DEF Unanswered
  <2>2. MergeOk(w, c)'
    BY <1>1, <1>2, <1>3, <1>4, <1>5, <2>1 DEF MergeOk, AtHand, Processing
  <2>. QED  BY <1>4, <2>2 DEF WorkOk, Writing
<1>7. CASE LockJob(w)
  <2>1. /\ merged[w] # "missing" /\ jobs[c] # NoRow /\ jobLock[c] = Nobody
        /\ jobLock' = [jobLock EXCEPT ![c] = w] /\ docLock' = docLock
    BY <1>2, <1>7 DEF LockJob
  <2>2. LockTypes' /\ jobLock'[c] = w /\ \A d \in Documents \ {c} : jobLock'[d] = jobLock[d]
    BY <1>1, <1>3, <2>1, Lock DEF Types, LockTypes
  <2>3. AtHand(w, c)'
    BY <1>2, <1>3, <1>4, <1>6, <2>1, <2>2 DEF AtHand, Holds, Writing
  <2>4. OwnLocks(w)
    BY <2>1, <2>2 DEF OwnLocks
  <2>. QED  BY <1>1, <1>2, <1>3, <1>4, <1>5, <2>2, <2>3, <2>4, LockingStep
<1>8. CASE InsertJob(w)
  <2>1. /\ merged[w] = "missing" /\ docLock[c] = Nobody
        /\ docLock' = [docLock EXCEPT ![c] = w] /\ jobLock' = jobLock
    BY <1>2, <1>8 DEF InsertJob
  <2>2. LockTypes' /\ docLock'[c] = w /\ \A d \in Documents \ {c} : docLock'[d] = docLock[d]
    BY <1>1, <1>3, <2>1, Lock DEF Types, LockTypes
  <2>3. AtHand(w, c)'
    BY <1>2, <1>3, <1>4, <1>6, <2>1, <2>2 DEF AtHand, Holds, Writing
  <2>4. OwnLocks(w)
    BY <2>1, <2>2 DEF OwnLocks
  <2>. QED  BY <1>1, <1>2, <1>3, <1>4, <1>5, <2>2, <2>3, <2>4, LockingStep
<1>. QED  BY <1>7, <1>8

\* A step after which the worker is idle, or takes its attempt for failed.
LEMMA LeavingStep ==
  ASSUME IInv, NEW w \in Workers, NEW c \in Documents, c = cur[w], wpc[w] # "idle",
         \/ EndJob(w) \/ Die(w)
         \/ LoseAnswer(w) /\ jobs'[c] = NoRow
         \/ LoseAnswer(w) /\ jobs'[c] # NoRow /\ jobs'[c].status = "finished",
         UNCHANGED <<life, hashLock, storeVars, requestVars, scrubbed>>,
         RowTypes', LockTypes', OwnLocks(w), \A d \in Documents \ {c} : Kept(d),
         docLock[c] = w \/ StoresKept(c), DocOk(c)'
  PROVE  IInv'
<1>. USE DEF storeVars, requestVars
<1>1. Types /\ claimed[w][c] # 0 /\ ClaimOk(w, c)
  BY DEF IInv, WorkerOk, AtHand, Claims
<1>2. CASE EndJob(w) \/ Die(w)
  <2>1. /\ WorkerTypes' /\ Only(w) /\ wpc'[w] = "idle" /\ claimed'[w][c] = 0
        /\ \A e \in Documents : claimed'[w][e] \in {claimed[w][e], 0}
    BY <1>1, <1>2, EndFields
  <2>2. Types'
    BY <1>1, <2>1, TypesKept DEF Types
  <2>3. WorkerStep(w, c)
    BY <1>1, <2>1 DEF WorkerStep, Only
  <2>4. ClaimOk(w, c)' /\ WorkerOk(w)'
    BY <2>1 DEF ClaimOk, WorkerOk
  <2>. QED  BY <2>2, <2>3, <2>4, WorkerKeeps
<1>3. CASE LoseAnswer(w) /\ (jobs'[c] = NoRow \/ jobs'[c].status = "finished")
  <2>1. "ambiguous" \in Faults /\ wpc' = [wpc EXCEPT ![w] = "failed"] /\ UNCHANGED <<cur, claimed, merged>>
    BY <1>3 DEF LoseAnswer
  <2>2. /\ WorkerTypes' /\ Only(w)
        /\ wpc'[w] = "failed" /\ cur'[w] = c /\ claimed'[w] = claimed[w] /\ merged'[w] = merged[w]
    BY <1>1, <2>1, StepFields DEF WorkerSteps
  <2>3. Types'
    BY <1>1, <2>2, TypesKept DEF Types
  <2>4. WorkerStep(w, c)
    BY <1>1, <2>2 DEF WorkerStep, Only
  <2>5. jobs'[c] = NoRow \/ Unanswered(w, c)'
    BY <1>3, <2>1, <2>2 DEF Unanswered
  <2>6. ClaimOk(w, c)'
    BY <1>1, <2>2, <2>5 DEF ClaimOk, Only, SameWorker
  <2>7. MergeOk(w, c)' /\ WorkOk(w, c)' /\ ~ Holds(w)'
    BY <2>2 DEF MergeOk, WorkOk, Holds, Processing, Writing
  <2>8. AtHand(w, c)'
    BY <1>1, <2>2, <2>7 DEF AtHand, Writing
  <2>9. WorkerOk(w)'
    BY <2>2, <2>8 DEF WorkerOk
  <2>. QED  BY <2>3, <2>4, <2>6, <2>9, WorkerKeeps
<1>. QED  BY <1>2, <1>3

\* The commit of an attempt: everything the document is `ready` with is there.
LEMMA CommitReadyStep == ASSUME IInv, NEW w \in Workers, CommitReady(w) PROVE IInv'
<1>. USE DEF storeVars, requestVars
<1>1. Types /\ wpc[w] = "commit" /\ wpc[w] \in Writing
  BY DEF IInv, CommitReady, Writing
<1>2. PICK c \in Documents :
        /\ c = cur[w] /\ AtHand(w, c) /\ DocOk(c) /\ docLock[c] = w /\ jobs[c] = Snapshot(w, c)
        /\ merged[w] = "same" /\ life[c] = "live"
  BY <1>1, AtHandFacts
<1>. DEFINE n == Derived(w)
<1>3. /\ status' = [status EXCEPT ![c] = "ready"] /\ normalized' = normalized \cup {c}
      /\ chunks' = [chunks EXCEPT ![c] = n] /\ FinishJob(w, c) /\ docLock' = [docLock EXCEPT ![c] = Nobody]
      /\ EndJob(w) \/ LoseAnswer(w)
      /\ UNCHANGED <<life, jobLock, hashLock, storeVars, requestVars, scrubbed>>
  BY <1>2 DEF CommitReady, Unlock
<1>4. n \in Nat /\ n = (IF c \in Textless THEN 0 ELSE claimed[w][c]) /\ claimed[w][c] # 0
  BY <1>1, <1>2 DEF Derived, AtHand, Types, WorkerTypes
<1>. HIDE DEF n
<1>5. /\ jobs' \in [Documents -> Row \cup {NoRow}] /\ \A e \in Documents \ {c} : jobs'[e] = jobs[e]
      /\ jobs'[c] = FinishedRow(Snapshot(w, c))
  <2>1. MergedRow(w, c) = Snapshot(w, c)
    BY <1>2 DEF MergedRow
  <2>2. Snapshot(w, c) # NoRow /\ IsClaimOf(Snapshot(w, c), WorkerIdOf[w])
    BY <1>1, SnapshotFields
  <2>. QED  BY <1>1, <1>3, <2>1, <2>2, FinishJobFields
<1>6. jobs'[c] # NoRow /\ jobs'[c].status = "finished" /\ jobs'[c].document = c /\ jobs'[c].availableAt = 0
  BY <1>1, <1>5, SnapshotFields, FinishedFields, IngestionAssumption DEF Fields
<1>7. /\ chunks \in [Documents -> Nat] /\ status \in [Documents -> {"queued", "ready", "failed"}]
      /\ normalized \in SUBSET Documents
  BY <1>1 DEF Types, RowTypes
<1>8. /\ RowTypes' /\ chunks'[c] = n /\ status'[c] = "ready"
      /\ \A d \in Documents \ {c} : chunks'[d] = chunks[d] /\ status'[d] = status[d]
  <2>1. chunks' \in [Documents -> Nat] /\ chunks'[c] = n /\ \A d \in Documents \ {c} : chunks'[d] = chunks[d]
    BY <1>3, <1>4, <1>7
  <2>2. /\ status' \in [Documents -> {"queued", "ready", "failed"}] /\ status'[c] = "ready"
        /\ \A d \in Documents \ {c} : status'[d] = status[d]
    BY <1>3, <1>7
  <2>. QED  BY <1>1, <1>3, <1>5, <1>7, <2>1, <2>2 DEF Types, RowTypes
<1>9. LockTypes' /\ \A d \in Documents \ {c} : docLock'[d] = docLock[d]
  BY <1>1, <1>3, Lock DEF Types, LockTypes
<1>10. OwnLocks(w)
  BY <1>2, <1>3, <1>9 DEF OwnLocks
<1>11. \A d \in Documents \ {c} : Kept(d)
  BY <1>3, <1>5, <1>8 DEF Kept, StoresKept
<1>12. WorkOk(w, c)
  BY <1>2 DEF AtHand
<1>13. /\ points[c] = IF c \in Textless THEN {} ELSE {n}
       /\ docVector[c] = n /\ {"original", "normalized", "adapter"} \subseteq objects[c]
  BY <1>1, <1>4, <1>12 DEF WorkOk, Writing
<1>14. DocOk(c)'
  BY <1>2, <1>3, <1>4, <1>6, <1>8, <1>13 DEF DocOk, LiveStatus
<1>. QED  BY <1>1, <1>2, <1>3, <1>6, <1>8, <1>9, <1>10, <1>11, <1>14, LeavingStep DEF Writing

\* The document was deleted meanwhile: only the job's row changes.
LEMMA CommitSkipStep == ASSUME IInv, NEW w \in Workers, CommitSkip(w) PROVE IInv'
<1>. USE DEF storeVars, requestVars
<1>1. Types /\ wpc[w] = "skip"
  BY DEF IInv, CommitSkip
<1>2. PICK c \in Documents : c = cur[w] /\ AtHand(w, c) /\ DocOk(c) /\ ClaimOk(w, c)
  BY <1>1, AtHandFacts
<1>3. docLock[c] = w /\ life[c] = "deleted"
  BY <1>1, <1>2 DEF AtHand, Holds
<1>4. /\ FinishJob(w, c) /\ docLock' = [docLock EXCEPT ![c] = Nobody]
      /\ EndJob(w) \/ LoseAnswer(w)
      /\ UNCHANGED <<life, status, normalized, chunks, jobLock, hashLock, storeVars, requestVars, scrubbed>>
  BY <1>2 DEF CommitSkip, Unlock
<1>5. MergedRow(w, c) \in {NoRow, Snapshot(w, c)}
  BY <1>1, <1>2 DEF MergedRow, AtHand, ClaimOk, Unanswered
<1>6. /\ jobs' \in [Documents -> Row \cup {NoRow}] /\ \A e \in Documents \ {c} : jobs'[e] = jobs[e]
      /\ jobs'[c] \in {NoRow, FinishedRow(Snapshot(w, c))}
  <2>1. Snapshot(w, c) # NoRow /\ IsClaimOf(Snapshot(w, c), WorkerIdOf[w])
    BY <1>1, SnapshotFields
  <2>. QED  BY <1>1, <1>4, <1>5, <2>1, FinishJobFields
<1>7. jobs'[c] # NoRow => jobs'[c].status = "finished" /\ jobs'[c].document = c /\ jobs'[c].availableAt = 0
  BY <1>1, <1>6, SnapshotFields, FinishedFields DEF Fields
<1>8. RowTypes'
  BY <1>1, <1>4, <1>6 DEF Types, RowTypes
<1>9. LockTypes' /\ OwnLocks(w)
  <2>1. LockTypes' /\ \A d \in Documents \ {c} : docLock'[d] = docLock[d]
    BY <1>1, <1>4, Lock DEF Types, LockTypes
  <2>. QED  BY <1>3, <1>4, <2>1 DEF OwnLocks
<1>10. \A d \in Documents \ {c} : Kept(d)
  BY <1>4, <1>6 DEF Kept, StoresKept
<1>11. DocOk(c)'
  BY <1>2, <1>3, <1>4, <1>7 DEF DocOk
<1>. QED  BY <1>1, <1>2, <1>3, <1>4, <1>7, <1>8, <1>9, <1>10, <1>11, LeavingStep

\* The row was deleted between the merge and the lock.
LEMMA JobGoneStep == ASSUME IInv, NEW w \in Workers, JobGone(w) PROVE IInv'
<1>. USE DEF rowVars, lockVars, storeVars, requestVars
<1>1. Types /\ wpc[w] = "record"
  BY DEF IInv, JobGone
<1>2. PICK c \in Documents : c = cur[w] /\ DocOk(c)
  BY <1>1, AtHandFacts
<1>3. UNCHANGED <<rowVars, lockVars, storeVars, requestVars, scrubbed>> /\ (EndJob(w) \/ Die(w))
  BY DEF JobGone
<1>4. OwnLocks(w) /\ \A d \in Documents : Kept(d)
  BY <1>3 DEF OwnLocks, Kept, StoresKept
<1>5. DocOk(c)'
  BY <1>2, <1>3 DEF DocOk
<1>. QED  BY <1>1, <1>2, <1>3, <1>4, <1>5, TypesKept, LeavingStep DEF Kept

\* What fail writes of a job in this worker's hands.
LEMMA FailedSnapshot ==
  ASSUME Types, NEW w \in Workers, NEW d \in Documents
  PROVE  LET row == FailedRow(Snapshot(w, d), 0)
         IN  /\ row \in Row /\ row # NoRow /\ row.document = d /\ row.availableAt = 0
             /\ row.status \in {"queued", "failed"} /\ FailedStatus(row) = row.status
<1>. DEFINE row == FailedRow(Snapshot(w, d), 0)
<1>1. Snapshot(w, d) \in Row /\ Snapshot(w, d).document = d /\ Snapshot(w, d).availableAt = 0
  BY SnapshotFields DEF Fields
<1>2. row \in Row /\ row.document = d /\ row.availableAt = 0 /\ row.status \in {"queued", "failed"}
  BY <1>1, FailedFields
<1>. HIDE DEF row
<1>3. row # NoRow /\ FailedStatus(row) = row.status
  BY <1>2, IngestionAssumption DEF FailedStatus
<1>. QED  BY <1>2, <1>3 DEF row

\* What the merge has left for mark_failed to write.
LEMMA RecordedRow ==
  ASSUME IInv, NEW w \in Workers, NEW c \in Documents, c = cur[w], wpc[w] = "recorded"
  PROVE  MergedRow(w, c) = Snapshot(w, c) /\ IsClaimOf(Snapshot(w, c), WorkerIdOf[w])
<1>1. Types /\ AtHand(w, c)
  BY DEF IInv, WorkerOk
<1>2. merged[w] = "same" => jobs[c] = Snapshot(w, c)
  BY <1>1 DEF AtHand, MergeOk
<1>. QED  BY <1>1, <1>2, SnapshotFields DEF MergedRow

\* mark_failed writes the job and the document together.
LEMMA RecordFailureStep == ASSUME IInv, NEW w \in Workers, RecordFailure(w) PROVE IInv'
<1>. USE DEF storeVars, requestVars
<1>1. Types /\ wpc[w] = "recorded"
  BY DEF IInv, RecordFailure
<1>2. PICK c \in Documents : c = cur[w] /\ AtHand(w, c) /\ DocOk(c) /\ life[c] # "absent"
  BY <1>1, AtHandFacts
<1>. DEFINE row == FailedRow(Snapshot(w, c), 0)
            s == FailedStatus(row)
<1>3. /\ row \in Row /\ row # NoRow /\ row.document = c /\ row.availableAt = 0
      /\ row.status \in {"queued", "failed"} /\ s = row.status
  BY <1>1, FailedSnapshot
<1>4. /\ jobs' = [jobs EXCEPT ![c] = row] /\ status' = [status EXCEPT ![c] = s]
      /\ jobLock' = [jobLock EXCEPT ![c] = Nobody]
      /\ docLock' = docLock \/ (docLock[c] = w /\ docLock' = [docLock EXCEPT ![c] = Nobody])
      /\ EndJob(w) /\ UNCHANGED <<life, normalized, chunks, hashLock, storeVars, requestVars, scrubbed>>
  BY <1>1, <1>2, RecordedRow DEF RecordFailure, Unlock
<1>. HIDE DEF row, s
<1>5. /\ jobs \in [Documents -> Row \cup {NoRow}] /\ status \in [Documents -> {"queued", "ready", "failed"}]
      /\ docLock \in [Documents -> Workers \cup Requests \cup {Nobody}] /\ jobLock \in [Documents -> Workers \cup {Nobody}]
  BY <1>1 DEF Types, RowTypes, LockTypes
<1>6. jobs' \in [Documents -> Row \cup {NoRow}] /\ jobs'[c] = row /\ \A d \in Documents \ {c} : jobs'[d] = jobs[d]
  BY <1>3, <1>4, <1>5
<1>7. /\ status' \in [Documents -> {"queued", "ready", "failed"}] /\ status'[c] = s
      /\ \A d \in Documents \ {c} : status'[d] = status[d]
  BY <1>3, <1>4, <1>5
<1>8. RowTypes'
  BY <1>1, <1>4, <1>6, <1>7 DEF Types, RowTypes
<1>9. claimed[w][c] # 0
  BY <1>2 DEF AtHand
<1>10. LockTypes' /\ \A d \in Documents \ {c} : LocksKept(d)
  <2>1. jobLock' \in [Documents -> Workers \cup {Nobody}] /\ \A d \in Documents \ {c} : jobLock'[d] = jobLock[d]
    BY <1>4, <1>5
  <2>2. /\ docLock' \in [Documents -> Workers \cup Requests \cup {Nobody}]
        /\ \A d \in Documents \ {c} : docLock'[d] = docLock[d]
    BY <1>4, <1>5
  <2>. QED  BY <1>1, <1>4, <2>1, <2>2 DEF Types, LockTypes, LocksKept
<1>11. \A d \in Documents \ {c} : Kept(d)
  BY <1>4, <1>6, <1>7 DEF Kept, StoresKept
<1>12. DocOk(c)'
  <2>1. life[c] = "live" \/ life[c] = "deleted"
    BY <1>1, <1>2 DEF Types, RowTypes
  <2>. QED  BY <1>2, <1>3, <1>4, <1>6, <1>7, <2>1 DEF DocOk, LiveStatus
<1>13. OwnLocks(w)
  BY <1>4, <1>9, <1>10 DEF OwnLocks, LocksKept
<1>14. StoresKept(c)
  BY <1>4 DEF StoresKept
<1>. QED  BY <1>1, <1>2, <1>4, <1>8, <1>10, <1>11, <1>12, <1>13, <1>14, LeavingStep

\* A process that ends: its claims stay in the rows, and nobody has them in hand.
LEMMA DieStep ==
  ASSUME IInv, NEW w \in Workers, NEW c \in Documents, claimed[w][c] # 0, wpc[w] # "idle" => cur[w] = c,
         Die(w), UNCHANGED <<rowVars, hashLock, storeVars, requestVars, scrubbed>>, LockTypes', OwnLocks(w)
  PROVE  IInv'
<1>. USE DEF rowVars, storeVars, requestVars
<1>1. Types /\ DocOk(c)
  BY DEF IInv
<1>2. /\ WorkerTypes' /\ Only(w) /\ wpc'[w] = "idle" /\ claimed'[w][c] = 0
      /\ \A e \in Documents : claimed'[w][e] \in {claimed[w][e], 0}
  BY <1>1, EndFields
<1>3. Types'
  BY <1>1, <1>2, TypesKept DEF Types
<1>4. WorkerStep(w, c)
  <2>1. \A v \in Workers \ {w} : SameWorker(v)
    BY <1>2 DEF Only
  <2>2. \A d \in Documents : Kept(d)
    BY DEF Kept, StoresKept
  <2>. QED  BY <1>2, <2>1, <2>2 DEF WorkerStep, Kept
<1>5. DocOk(c)'
  BY <1>1 DEF DocOk
<1>6. ClaimOk(w, c)' /\ WorkerOk(w)'
  BY <1>2 DEF ClaimOk, WorkerOk
<1>. QED  BY <1>3, <1>4, <1>5, <1>6, WorkerKeeps

\* The process is killed.
LEMMA CrashStep == ASSUME IInv, NEW w \in Workers, Crash(w) PROVE IInv'
<1>1. Types
  BY DEF IInv
<1>2. PICK c \in Documents : claimed[w][c] # 0 /\ (wpc[w] # "idle" => cur[w] = c)
  <2>1. CASE wpc[w] = "idle"
    BY <2>1 DEF Crash, InHand
  <2>2. CASE wpc[w] # "idle"
    BY <2>2 DEF IInv, WorkerOk, AtHand
  <2>. QED  BY <2>1, <2>2
<1>3. /\ docLock' = [d \in Documents |-> IF docLock[d] = w THEN Nobody ELSE docLock[d]]
      /\ jobLock' = [d \in Documents |-> IF jobLock[d] = w THEN Nobody ELSE jobLock[d]]
      /\ Die(w) /\ UNCHANGED <<rowVars, hashLock, storeVars, requestVars, scrubbed>>
  BY DEF Crash, Release
<1>4. OwnLocks(w)
  BY <1>3 DEF OwnLocks
<1>5. LockTypes'
  BY <1>1, <1>3 DEF Types, LockTypes
<1>. QED  BY <1>2, <1>3, <1>4, <1>5, DieStep

\* It loses a deadlock.
LEMMA AbortedWorkerStep ==
  ASSUME IInv, NEW w \in Workers, NEW r \in Deleters, Deadlock(w, r),
         jobLock' = Unlock(jobLock, cur[w]), Die(w),
         UNCHANGED <<docLock, requestVars, rowVars, hashLock, storeVars, scrubbed>>
  PROVE  IInv'
<1>1. Types /\ wpc[w] = "recorded"
  BY DEF IInv, Deadlock
<1>2. PICK c \in Documents : c = cur[w] /\ AtHand(w, c)
  BY <1>1, AtHandFacts
<1>3. jobLock' = [jobLock EXCEPT ![c] = Nobody] /\ jobLock[c] = w /\ claimed[w][c] # 0
  BY <1>2 DEF Unlock, Deadlock, AtHand
<1>4. LockTypes' /\ \A d \in Documents \ {c} : jobLock'[d] = jobLock[d]
  BY <1>1, <1>3, Lock DEF Types, LockTypes
<1>5. OwnLocks(w)
  BY <1>3, <1>4 DEF OwnLocks
<1>. QED  BY <1>2, <1>3, <1>4, <1>5, DieStep

\* Jobs that wait are in nobody's hands.
LEMMA WaitingFree ==
  ASSUME IInv, NEW d \in Waiting, NEW w \in Workers
  PROVE  claimed[w][d] = 0 /\ jobs[d] \in Row /\ jobs[d].status = "queued" /\ life[d] # "absent"
<1>1. d \in Documents /\ jobs[d] # NoRow /\ jobs[d].status = "queued" /\ ClaimOk(w, d) /\ DocOk(d)
  BY DEF Waiting, IInv, Claims
<1>2. jobs[d] \in Row
  BY <1>1 DEF IInv, Types, RowTypes
<1>3. claimed[w][d] = 0
  BY <1>1 DEF ClaimOk, Snapshot, Unanswered
<1>. QED  BY <1>1, <1>2, <1>3 DEF DocOk

\* The claim: rows and memory change together, for jobs nobody else has.
LEMMA ClaimStep == ASSUME IInv, NEW w \in Workers, Claim(w) PROVE IInv'
<1>. USE DEF lockVars, storeVars, requestVars
<1>1. Types /\ WorkerIdOf[w] \in WorkerIds /\ wpc[w] = "idle"
  BY IngestionAssumption DEF IInv, Claim
<1>2. PICK S \in SUBSET Waiting :
        /\ jobs' = [d \in Documents |-> IF d \in S THEN ClaimedRow(jobs[d], WorkerIdOf[w]) ELSE jobs[d]]
        /\ claimed' = [claimed EXCEPT ![w] = [d \in Documents |-> IF d \in S THEN jobs[d].attempts + 1 ELSE 0]]
  BY DEF Claim
<1>3. UNCHANGED <<life, status, normalized, chunks, lockVars, storeVars, wpc, cur, merged, requestVars, scrubbed>>
  BY DEF Claim
<1>. DEFINE f == [d \in Documents |-> IF d \in S THEN jobs[d].attempts + 1 ELSE 0]
<1>4. ASSUME NEW d \in S
      PROVE  /\ d \in Documents /\ jobs[d] \in Row /\ jobs[d].status = "queued" /\ life[d] # "absent"
             /\ \A v \in Workers : claimed[v][d] = 0
    BY WaitingFree DEF Waiting
<1>5. ASSUME NEW d \in S
      PROVE  /\ jobs'[d] \in Row /\ f[d] \in Nat /\ f[d] # 0
             /\ jobs'[d] = [document |-> d, status |-> "processing", attempts |-> f[d],
                            claimedBy |-> WorkerIdOf[w], availableAt |-> 0]
  <2>1. jobs'[d] = ClaimedRow(jobs[d], WorkerIdOf[w]) /\ f[d] = jobs[d].attempts + 1
    BY <1>2, <1>4
  <2>2. jobs[d].document = d /\ jobs[d].availableAt = 0
    <3>1. jobs[d] # NoRow /\ DocOk(d)
      BY <1>4, IngestionAssumption DEF IInv
    <3>. QED  BY <3>1 DEF DocOk
  <2>. QED  BY <1>1, <1>4, <2>1, <2>2, ClaimedFields
<1>6. \A d \in Documents \ S : f[d] = 0 /\ jobs'[d] = jobs[d]
  BY <1>2
<1>7. f \in [Documents -> Nat]
  BY <1>5, <1>6
<1>8. claimed' = [claimed EXCEPT ![w] = f]
  BY <1>2
<1>. HIDE DEF f
<1>9. /\ claimed' \in [Workers -> [Documents -> Nat]] /\ claimed'[w] = f
      /\ \A v \in Workers \ {w} : claimed'[v] = claimed[v]
  BY <1>1, <1>7, <1>8 DEF Types, WorkerTypes
<1>10. jobs' \in [Documents -> Row \cup {NoRow}]
  <2>1. \A d \in Documents : jobs'[d] \in Row \cup {NoRow}
    BY <1>1, <1>5, <1>6 DEF Types, RowTypes
  <2>. QED  BY <1>2, <2>1
<1>11. Types'
  <2>1. RowTypes'
    BY <1>1, <1>3, <1>10 DEF Types, RowTypes
  <2>2. WorkerTypes'
    BY <1>1, <1>3, <1>9 DEF Types, WorkerTypes
  <2>. QED  BY <1>1, <1>3, <2>1, <2>2, TypesKept DEF Types
<1>12. ASSUME NEW d \in Documents \ S PROVE Kept(d)
  BY <1>3, <1>6 DEF Kept, StoresKept
<1>13. ASSUME NEW v \in Workers \ {w} PROVE SameWorker(v)
  BY <1>3, <1>9 DEF SameWorker
<1>14. ASSUME NEW d \in Documents PROVE DocOk(d)'
  <2>1. DocOk(d)
    BY DEF IInv
  <2>2. CASE d \in S
    <3>1. jobs[d] # NoRow /\ jobs[d].status = "queued" /\ life[d] # "absent"
      BY <1>4, <2>2, IngestionAssumption
    <3>2. jobs'[d] # NoRow
      BY <1>5, <2>2, IngestionAssumption
    <3>3. jobs'[d].status = "processing" /\ jobs'[d].document = d /\ jobs'[d].availableAt = 0
      <4>1. jobs'[d] = [document |-> d, status |-> "processing", attempts |-> f[d],
                        claimedBy |-> WorkerIdOf[w], availableAt |-> 0]
        BY <1>5, <2>2
      <4>. QED  BY <4>1
    <3>. QED  BY <1>3, <2>1, <3>1, <3>2, <3>3 DEF DocOk, LiveStatus
  <2>3. CASE d \notin S
    BY <1>12, <2>1, <2>3, KeptOk
  <2>. QED  BY <2>2, <2>3
<1>15. ASSUME NEW v \in Workers, NEW d \in Documents PROVE ClaimOk(v, d)'
  <2>1. CASE v = w /\ d \in S
    <3>1. jobs'[d] = Snapshot(w, d)'
      BY <1>5, <1>9, <2>1 DEF Snapshot
    <3>2. life'[d] # "absent" /\ \A u \in Workers \ {w} : claimed'[u][d] = 0
      BY <1>3, <1>4, <1>9, <2>1
    <3>. QED  BY <2>1, <3>1, <3>2 DEF ClaimOk
  <2>2. CASE v = w /\ d \notin S
    BY <1>6, <1>9, <2>2 DEF ClaimOk
  <2>3. CASE v # w /\ d \in S
    BY <1>4, <1>9, <2>3 DEF ClaimOk
  <2>4. CASE v # w /\ d \notin S
    <3>1. \A u \in Workers \ {v} : claimed[u][d] = 0 => claimed'[u][d] = 0
      BY <1>6, <1>9, <2>4
    <3>2. SameWorker(v) /\ ClaimOk(v, d) /\ Kept(d)
      BY <1>12, <1>13, <2>4 DEF IInv, Claims
    <3>. QED  BY <3>1, <3>2, SameClaim DEF Kept
  <2>. QED  BY <2>1, <2>2, <2>3, <2>4
<1>16. ASSUME NEW v \in Workers PROVE WorkerOk(v)'
  <2>1. CASE v = w
    BY <1>1, <1>3, <2>1 DEF WorkerOk
  <2>2. ASSUME v # w, wpc[v] # "idle" PROVE AtHand(v, cur[v])'
    <3>1. PICK d \in Documents : d = cur[v] /\ AtHand(v, d)
      BY <2>2 DEF IInv, WorkerOk, AtHand
    <3>2. d \notin S
      BY <1>4, <3>1 DEF AtHand
    <3>3. SameWorker(v) /\ Kept(d) /\ docLock' = docLock /\ jobLock' = jobLock
      BY <1>3, <1>12, <1>13, <2>2, <3>2
    <3>4. AtHand(v, d)'
      BY <3>1, <3>3, SameAtHand
    <3>. QED  BY <3>1, <3>3, <3>4 DEF SameWorker
  <2>. QED  BY <1>3, <2>1, <2>2 DEF WorkerOk
<1>17. ASSUME NEW r \in Uploaders PROVE UploadOk(r)'
  <2>1. UploadOk(r) /\ rpc' = rpc /\ rdoc' = rdoc /\ hashLock' = hashLock /\ life' = life /\ objects' = objects
    BY <1>3 DEF IInv
  <2>2. rpc[r] # "idle" => hashLock[HashOf[rdoc[r]]] = r
    BY <2>1 DEF UploadOk
  <2>. QED  BY <2>1, <2>2, SameUpload
<1>18. ASSUME NEW r \in Deleters PROVE EraseOk(r)'
  <2>1. rpc[r] # "idle" => docLock'[rdoc[r]] = r /\ StoresKept(rdoc[r])
    BY <1>3 DEF IInv, EraseOk, Erased, StoresKept
  <2>. QED  BY <1>3, <2>1, SameErase DEF IInv
<1>. QED  BY <1>11, <1>14, <1>15, <1>16, <1>17, <1>18 DEF IInv, Claims

-----------------------------------------------------------------------------
(* The steps of an upload. *)

\* A document with no row is in nobody's hands.
LEMMA AbsentFree ==
  ASSUME IInv, NEW c \in Documents, life[c] = "absent"
  PROVE  /\ \A w \in Workers : claimed[w][c] = 0
         /\ \A w \in Workers : wpc[w] # "idle" => cur[w] # c
         /\ \A r \in Deleters : rpc[r] # "idle" => rdoc[r] # c
         /\ jobs[c] = NoRow /\ c \notin normalized
<1>1. \A w \in Workers : claimed[w][c] = 0
  BY DEF IInv, Claims, ClaimOk
<1>2. \A w \in Workers : wpc[w] # "idle" => cur[w] # c
  BY <1>1 DEF IInv, WorkerOk, AtHand
<1>3. \A r \in Deleters : rpc[r] # "idle" => rdoc[r] # c
  BY DEF IInv, EraseOk, Erased
<1>4. jobs[c] = NoRow /\ c \notin normalized
  BY DEF IInv, DocOk
<1>. QED  BY <1>1, <1>2, <1>3, <1>4

\* A step of the upload r about its document c.
UploadOf(r, c) ==
  /\ UNCHANGED <<workerVars, docLock, jobLock, points, docVector, normalized, chunks, scrubbed>>
  /\ \A q \in Requests \ {r} : rpc'[q] = rpc[q] /\ rdoc'[q] = rdoc[q]
  /\ life[c] = "absent"
  /\ \A d \in Documents \ {c} : Kept(d)
  /\ hashLock[HashOf[c]] \in {Nobody, r}
  /\ \A h \in Hashes \ {HashOf[c]} : hashLock'[h] = hashLock[h]

\* If it leaves its document and itself as they should be, all is well.
LEMMA UploadKeeps ==
  ASSUME IInv, Types', NEW r \in Uploaders, NEW c \in Documents, UploadOf(r, c),
         DocOk(c)', UploadOk(r)',
         life'[c] = "live" => hashLock[HashOf[c]] = r
  PROVE  IInv'
<1>. USE DEF workerVars
<1>1. /\ \A w \in Workers : claimed[w][c] = 0
      /\ \A w \in Workers : wpc[w] # "idle" => cur[w] # c
      /\ \A q \in Deleters : rpc[q] # "idle" => rdoc[q] # c
  BY AbsentFree DEF UploadOf
<1>2. \A v \in Workers : SameWorker(v)
  BY DEF UploadOf, SameWorker
<1>3. \A d \in Documents : DocOk(d)'
  BY KeptOk DEF IInv, UploadOf
<1>4. ASSUME NEW v \in Workers, NEW d \in Documents PROVE ClaimOk(v, d)'
  <2>1. claimed[v][d] # 0 => Kept(d)
    BY <1>1 DEF UploadOf
  <2>2. \A u \in Workers \ {v} : claimed[u][d] = 0 => claimed'[u][d] = 0
    BY DEF UploadOf
  <2>3. ClaimOk(v, d) /\ SameWorker(v)
    BY <1>2 DEF IInv, Claims
  <2>. QED  BY <2>1, <2>2, <2>3, SameClaim DEF Kept
<1>5. ASSUME NEW v \in Workers PROVE WorkerOk(v)'
  <2>1. ASSUME wpc[v] # "idle" PROVE AtHand(v, cur[v])'
    <3>1. PICK d \in Documents : d = cur[v] /\ AtHand(v, d)
      BY <2>1 DEF IInv, WorkerOk, AtHand
    <3>2. Kept(d) /\ docLock' = docLock /\ jobLock' = jobLock
      BY <1>1, <2>1, <3>1 DEF UploadOf
    <3>3. AtHand(v, d)'
      BY <1>2, <3>1, <3>2, SameAtHand
    <3>. QED  BY <1>2, <3>1, <3>3 DEF SameWorker
  <2>. QED  BY <1>2, <2>1 DEF WorkerOk, SameWorker
<1>6. ASSUME NEW q \in Uploaders \ {r} PROVE UploadOk(q)'
  <2>1. q \in Requests /\ q # Nobody /\ r # Nobody
    BY IngestionAssumption DEF Requests
  <2>2. rpc'[q] = rpc[q] /\ rdoc'[q] = rdoc[q] /\ UploadOk(q)
    BY <2>1 DEF UploadOf, IInv
  <2>3. ASSUME rpc[q] # "idle", NEW d \in Documents, d = rdoc[q]
        PROVE  /\ hashLock'[HashOf[d]] = q /\ life'[d] = life[d] /\ objects'[d] = objects[d]
               /\ \A e \in Documents : life'[e] = "live" /\ life[e] # "live" => HashOf[e] # HashOf[d]
    <3>1. hashLock[HashOf[d]] = q /\ HashOf[d] \in Hashes /\ HashOf[c] \in Hashes
      BY <2>2, <2>3, IngestionAssumption DEF UploadOk
    <3>2. hashLock'[HashOf[d]] = q
      BY <2>1, <3>1 DEF UploadOf
    <3>3. d # c
      BY <2>1, <3>1 DEF UploadOf
    <3>4. Kept(d)
      BY <3>3 DEF UploadOf
    <3>5. \A e \in Documents : life'[e] = "live" /\ life[e] # "live" => e = c /\ hashLock[HashOf[e]] = r
      BY DEF UploadOf, Kept
    <3>. QED  BY <3>1, <3>2, <3>4, <3>5 DEF Kept, StoresKept
  <2>. QED  BY <2>2, <2>3, SameUpload DEF UploadOk
<1>7. ASSUME NEW q \in Deleters PROVE EraseOk(q)'
  <2>1. q \in Requests \ {r}
    BY IngestionAssumption DEF Requests
  <2>2. rpc'[q] = rpc[q] /\ rdoc'[q] = rdoc[q] /\ EraseOk(q)
    BY <2>1 DEF UploadOf, IInv
  <2>3. rpc[q] # "idle" => docLock'[rdoc[q]] = q /\ StoresKept(rdoc[q]) /\ life'[rdoc[q]] = life[rdoc[q]]
    BY <1>1, <2>2 DEF EraseOk, Erased, UploadOf, Kept
  <2>. QED  BY <2>2, <2>3, SameErase
<1>8. \A q \in Uploaders : UploadOk(q)'
  BY <1>6
<1>. QED  BY <1>3, <1>4, <1>5, <1>7, <1>8 DEF IInv, Claims

\* The bytes are locked, and no live document holds them.
LEMMA UploadBeginStep == ASSUME IInv, NEW r \in Uploaders, NEW c \in Documents, UploadBegin(r, c) PROVE IInv'
<1>. USE DEF rowVars, storeVars, workerVars
<1>. DEFINE h == HashOf[c]
<1>1. Types /\ r \in Requests /\ r # Nobody /\ h \in Hashes
  BY IngestionAssumption DEF IInv, Requests
<1>2. /\ hashLock' = [hashLock EXCEPT ![h] = r] /\ rpc' = [rpc EXCEPT ![r] = "put"] /\ rdoc' = [rdoc EXCEPT ![r] = c]
      /\ life[c] = "absent" /\ hashLock[h] = Nobody
      /\ UNCHANGED <<rowVars, docLock, jobLock, storeVars, workerVars, scrubbed>>
      /\ \A e \in Documents : life[e] = "live" => HashOf[e] # h
  BY DEF UploadBegin
<1>. HIDE DEF h
<1>3. /\ hashLock' \in [Hashes -> Uploaders \cup {Nobody}] /\ hashLock'[h] = r
      /\ \A g \in Hashes \ {h} : hashLock'[g] = hashLock[g]
  BY <1>1, <1>2 DEF Types, LockTypes
<1>4. /\ RequestTypes' /\ rpc'[r] = "put" /\ rdoc'[r] = c
      /\ \A q \in Requests \ {r} : rpc'[q] = rpc[q] /\ rdoc'[q] = rdoc[q]
  BY <1>1, <1>2, IngestionAssumption DEF Types, RequestTypes, RequestSteps, Requests
<1>5. Types'
  <2>1. LockTypes'
    BY <1>1, <1>2, <1>3 DEF Types, LockTypes
  <2>. QED  BY <1>1, <1>2, <1>4, <2>1, TypesKept DEF Types
<1>6. UploadOf(r, c)
  <2>1. \A d \in Documents \ {c} : Kept(d)
    BY <1>2 DEF Kept, StoresKept
  <2>. QED  BY <1>2, <1>3, <1>4, <2>1 DEF UploadOf, h
<1>7. DocOk(c)'
  BY <1>2 DEF DocOk, IInv
<1>8. UploadOk(r)'
  BY <1>2, <1>3, <1>4 DEF UploadOk, h
<1>. QED  BY <1>2, <1>5, <1>6, <1>7, <1>8, UploadKeeps

\* What an upload under way knows.
LEMMA UploadFacts ==
  ASSUME IInv, NEW r \in Uploaders, rpc[r] # "idle"
  PROVE  /\ Types /\ r \in Requests /\ r # Nobody
         /\ \E c \in Documents :
              /\ c = rdoc[r] /\ DocOk(c) /\ life[c] = "absent" /\ HashOf[c] \in Hashes /\ hashLock[HashOf[c]] = r
              /\ \A e \in Documents : life[e] = "live" => HashOf[e] # HashOf[c]
              /\ rpc[r] = "enqueue" => "original" \in objects[c]
  BY IngestionAssumption DEF IInv, UploadOk, Requests

\* The original is stored while the row is still invisible.
LEMMA UploadPutStep == ASSUME IInv, NEW r \in Uploaders, UploadPut(r) PROVE IInv'
<1>. USE DEF rowVars, lockVars, workerVars
<1>1. rpc[r] = "put"
  BY DEF UploadPut
<1>2. Types /\ r \in Requests
  BY <1>1, UploadFacts
<1>3. PICK c \in Documents :
        /\ c = rdoc[r] /\ DocOk(c) /\ life[c] = "absent" /\ hashLock[HashOf[c]] = r
        /\ \A e \in Documents : life[e] = "live" => HashOf[e] # HashOf[c]
  BY <1>1, UploadFacts
<1>. DEFINE os == objects[c] \cup {"original"}
<1>4. /\ objects' = [objects EXCEPT ![c] = os] /\ rpc' = [rpc EXCEPT ![r] = "enqueue"]
      /\ UNCHANGED <<rowVars, lockVars, points, docVector, workerVars, rdoc, scrubbed>>
  BY <1>3 DEF UploadPut
<1>5. os \in SUBSET ObjectKinds /\ "original" \in os
  BY <1>2 DEF Types, StoreTypes, ObjectKinds
<1>. HIDE DEF os
<1>6. StoreTypes' /\ objects'[c] = os /\ \A d \in Documents \ {c} : objects'[d] = objects[d]
  BY <1>2, <1>4, <1>5 DEF Types, StoreTypes
<1>7. /\ RequestTypes' /\ rpc'[r] = "enqueue" /\ \A q \in Requests \ {r} : rpc'[q] = rpc[q]
  BY <1>2, <1>4, IngestionAssumption DEF Types, RequestTypes, RequestSteps, Requests
<1>8. Types'
  BY <1>2, <1>4, <1>6, <1>7, TypesKept DEF Types
<1>9. UploadOf(r, c)
  <2>1. \A d \in Documents \ {c} : Kept(d)
    BY <1>4, <1>6 DEF Kept, StoresKept
  <2>. QED  BY <1>3, <1>4, <1>7, <2>1 DEF UploadOf
<1>10. DocOk(c)'
  BY <1>3, <1>4 DEF DocOk
<1>11. UploadOk(r)'
  BY <1>3, <1>4, <1>5, <1>6, <1>7 DEF UploadOk
<1>. QED  BY <1>3, <1>4, <1>8, <1>9, <1>10, <1>11, UploadKeeps

\* The end of the request, with or without a document.
LEMMA EndUploadFields ==
  ASSUME Types, NEW r \in Uploaders, NEW c \in Documents, c = rdoc[r], EndUpload(r)
  PROVE  /\ hashLock' \in [Hashes -> Uploaders \cup {Nobody}]
         /\ \A h \in Hashes \ {HashOf[c]} : hashLock'[h] = hashLock[h]
         /\ RequestTypes' /\ rpc'[r] = "idle"
         /\ \A q \in Requests \ {r} : rpc'[q] = rpc[q] /\ rdoc'[q] = rdoc[q]
<1>1. HashOf[c] \in Hashes /\ r \in Requests
  BY IngestionAssumption DEF Requests
<1>2. /\ hashLock' = [hashLock EXCEPT ![HashOf[c]] = Nobody]
      /\ rpc' = [rpc EXCEPT ![r] = "idle"] /\ rdoc' = [rdoc EXCEPT ![r] = NoDocument]
  BY DEF EndUpload
<1>3. hashLock' \in [Hashes -> Uploaders \cup {Nobody}] /\ \A h \in Hashes \ {HashOf[c]} : hashLock'[h] = hashLock[h]
  BY <1>1, <1>2 DEF Types, LockTypes
<1>4. RequestTypes' /\ rpc'[r] = "idle" /\ \A q \in Requests \ {r} : rpc'[q] = rpc[q] /\ rdoc'[q] = rdoc[q]
  BY <1>1, <1>2, IngestionAssumption DEF Types, RequestTypes, RequestSteps, Requests
<1>. QED  BY <1>3, <1>4

\* Document and job appear together, and the original is there.
LEMMA UploadCommitStep == ASSUME IInv, NEW r \in Uploaders, UploadCommit(r) PROVE IInv'
<1>. USE DEF storeVars, workerVars
<1>1. rpc[r] = "enqueue"
  BY DEF UploadCommit
<1>2. Types /\ r \in Requests
  BY <1>1, UploadFacts
<1>3. PICK c \in Documents :
        /\ c = rdoc[r] /\ DocOk(c) /\ life[c] = "absent" /\ hashLock[HashOf[c]] = r /\ "original" \in objects[c]
  BY <1>1, UploadFacts
<1>. DEFINE row == QueuedRow(c, 0)
<1>4. /\ life' = [life EXCEPT ![c] = "live"] /\ status' = [status EXCEPT ![c] = "queued"]
      /\ jobs' = [jobs EXCEPT ![c] = row] /\ EndUpload(r)
      /\ UNCHANGED <<normalized, chunks, docLock, jobLock, storeVars, workerVars, scrubbed>>
  BY <1>3 DEF UploadCommit
<1>5. row \in Row /\ row # NoRow /\ row.document = c /\ row.status = "queued" /\ row.availableAt = 0
  BY QueuedFields, IngestionAssumption DEF Fields
<1>. HIDE DEF row
<1>6. /\ hashLock' \in [Hashes -> Uploaders \cup {Nobody}]
      /\ \A h \in Hashes \ {HashOf[c]} : hashLock'[h] = hashLock[h]
      /\ RequestTypes' /\ rpc'[r] = "idle"
      /\ \A q \in Requests \ {r} : rpc'[q] = rpc[q] /\ rdoc'[q] = rdoc[q]
  BY <1>2, <1>3, <1>4, EndUploadFields
<1>7. /\ life' \in [Documents -> {"absent", "live", "deleted"}] /\ life'[c] = "live"
      /\ \A d \in Documents \ {c} : life'[d] = life[d]
  BY <1>2, <1>4 DEF Types, RowTypes
<1>8. /\ status' \in [Documents -> {"queued", "ready", "failed"}] /\ status'[c] = "queued"
      /\ \A d \in Documents \ {c} : status'[d] = status[d]
  BY <1>2, <1>4 DEF Types, RowTypes
<1>9. jobs' \in [Documents -> Row \cup {NoRow}] /\ jobs'[c] = row /\ \A d \in Documents \ {c} : jobs'[d] = jobs[d]
  BY <1>2, <1>4, <1>5 DEF Types, RowTypes
<1>10. Types'
  <2>1. RowTypes'
    BY <1>2, <1>4, <1>7, <1>8, <1>9 DEF Types, RowTypes
  <2>2. LockTypes'
    BY <1>2, <1>4, <1>6 DEF Types, LockTypes
  <2>. QED  BY <1>2, <1>4, <1>6, <2>1, <2>2, TypesKept DEF Types
<1>11. UploadOf(r, c)
  <2>1. \A d \in Documents \ {c} : Kept(d)
    BY <1>4, <1>7, <1>8, <1>9 DEF Kept, StoresKept
  <2>. QED  BY <1>3, <1>4, <1>6, <2>1 DEF UploadOf
<1>12. DocOk(c)'
  <2>1. c \notin normalized
    BY <1>3 DEF DocOk
  <2>. QED  BY <1>3, <1>4, <1>5, <1>7, <1>8, <1>9, <2>1 DEF DocOk, LiveStatus
<1>13. UploadOk(r)'
  BY <1>6 DEF UploadOk
<1>. QED  BY <1>3, <1>10, <1>11, <1>12, <1>13, UploadKeeps

\* The request fails: the lock goes, a stored original stays.
LEMMA UploadFailsStep == ASSUME IInv, NEW r \in Uploaders, UploadFails(r) PROVE IInv'
<1>. USE DEF rowVars, storeVars, workerVars
<1>1. rpc[r] # "idle"
  BY DEF UploadFails
<1>2. Types /\ r \in Requests
  BY <1>1, UploadFacts
<1>3. PICK c \in Documents : c = rdoc[r] /\ DocOk(c) /\ life[c] = "absent" /\ hashLock[HashOf[c]] = r
  BY <1>1, UploadFacts
<1>4. EndUpload(r) /\ UNCHANGED <<rowVars, docLock, jobLock, storeVars, workerVars, scrubbed>>
  BY DEF UploadFails
<1>5. /\ hashLock' \in [Hashes -> Uploaders \cup {Nobody}]
      /\ \A h \in Hashes \ {HashOf[c]} : hashLock'[h] = hashLock[h]
      /\ RequestTypes' /\ rpc'[r] = "idle"
      /\ \A q \in Requests \ {r} : rpc'[q] = rpc[q] /\ rdoc'[q] = rdoc[q]
  BY <1>2, <1>3, <1>4, EndUploadFields
<1>6. Types'
  <2>1. LockTypes'
    BY <1>2, <1>4, <1>5 DEF Types, LockTypes
  <2>. QED  BY <1>2, <1>4, <1>5, <2>1, TypesKept DEF Types
<1>7. UploadOf(r, c)
  <2>1. \A d \in Documents \ {c} : Kept(d)
    BY <1>4 DEF Kept, StoresKept
  <2>. QED  BY <1>3, <1>4, <1>5, <2>1 DEF UploadOf
<1>8. DocOk(c)' /\ UploadOk(r)' /\ life' = life
  BY <1>3, <1>4, <1>5 DEF DocOk, UploadOk
<1>. QED  BY <1>3, <1>6, <1>7, <1>8, UploadKeeps

-----------------------------------------------------------------------------
(* The steps of a delete. *)

\* A step of the delete r about its document c.
DeleteOf(r, c) ==
  /\ UNCHANGED <<workerVars, hashLock, jobLock, status, normalized>>
  /\ \A q \in Requests \ {r} : rpc'[q] = rpc[q] /\ rdoc'[q] = rdoc[q]
  /\ life[c] # "absent" /\ docLock[c] \in {Nobody, r}
  /\ \A d \in Documents \ {c} : Kept(d) /\ docLock'[d] = docLock[d]
  /\ \/ life'[c] = life[c] /\ jobs'[c] = jobs[c]
     \/ life'[c] = "deleted" /\ jobs'[c] = NoRow /\ jobLock[c] = Nobody

\* A worker that has the document at hand, but not its row.
LEMMA DeleteAtHand ==
  ASSUME IInv, NEW r \in Deleters, NEW c \in Documents, DeleteOf(r, c),
         NEW v \in Workers, c = cur[v], AtHand(v, c)
  PROVE  AtHand(v, c)'
<1>. USE DEF workerVars
<1>1. v # Nobody /\ v # r
  BY IngestionAssumption DEF Requests
<1>2. ~ Holds(v)
  BY <1>1 DEF AtHand, DeleteOf
<1>3. wpc' = wpc /\ merged' = merged /\ claimed' = claimed /\ cur' = cur /\ jobLock' = jobLock
  BY DEF DeleteOf
<1>4. Snapshot(v, c)' = Snapshot(v, c) /\ ~ Holds(v)'
  BY <1>2, <1>3 DEF Snapshot, Holds
<1>5. jobs'[c] = jobs[c] => (Unanswered(v, c)' <=> Unanswered(v, c))
  BY <1>3 DEF Unanswered
<1>6. jobs'[c] = jobs[c] \/ (jobs'[c] = NoRow /\ jobLock[c] = Nobody)
  BY DEF DeleteOf
<1>7. MergeOk(v, c)'
  BY <1>3, <1>4, <1>5, <1>6 DEF AtHand, MergeOk
<1>8. wpc[v] \notin Writing /\ wpc[v] # "skip"
  BY <1>2 DEF Holds
<1>9. WorkOk(v, c)'
  BY <1>3, <1>8 DEF WorkOk, Writing
<1>10. wpc[v] = "recorded" /\ merged[v] # "missing" => jobLock[c] = v /\ jobs[c] # NoRow
  BY DEF AtHand
<1>. QED  BY <1>1, <1>3, <1>4, <1>6, <1>7, <1>8, <1>9, <1>10 DEF AtHand

\* If it leaves its document and itself as they should be, all is well.
LEMMA DeleteKeeps ==
  ASSUME IInv, Types', NEW r \in Deleters, NEW c \in Documents, DeleteOf(r, c), DocOk(c)', EraseOk(r)'
  PROVE  IInv'
<1>. USE DEF workerVars
<1>1. \A v \in Workers : SameWorker(v)
  BY DEF DeleteOf, SameWorker
<1>2. \A d \in Documents : DocOk(d)'
  BY KeptOk DEF IInv, DeleteOf
<1>3. ASSUME NEW v \in Workers, NEW d \in Documents PROVE ClaimOk(v, d)'
  <2>1. ClaimOk(v, d) /\ SameWorker(v) /\ claimed' = claimed
    BY <1>1 DEF IInv, Claims, DeleteOf
  <2>2. CASE life'[d] = life[d] /\ jobs'[d] = jobs[d]
    BY <2>1, <2>2, SameClaim
  <2>3. CASE life'[d] = "deleted" /\ jobs'[d] = NoRow
    BY <2>1, <2>3 DEF ClaimOk
  <2>. QED  BY <2>2, <2>3 DEF DeleteOf, Kept
<1>4. ASSUME NEW v \in Workers PROVE WorkerOk(v)'
  <2>1. ASSUME wpc[v] # "idle" PROVE AtHand(v, cur[v])'
    <3>1. PICK d \in Documents : d = cur[v] /\ AtHand(v, d)
      BY <2>1 DEF IInv, WorkerOk, AtHand
    <3>2. CASE d = c
      BY <1>1, <3>1, <3>2, DeleteAtHand DEF SameWorker
    <3>3. CASE d # c
      <4>1. Kept(d) /\ docLock'[d] = docLock[d] /\ jobLock' = jobLock
        BY <3>3 DEF DeleteOf
      <4>2. AtHand(v, d)'
        BY <1>1, <3>1, <4>1, SameAtHand
      <4>. QED  BY <1>1, <3>1, <4>2 DEF SameWorker
    <3>. QED  BY <3>2, <3>3
  <2>. QED  BY <1>1, <2>1 DEF WorkerOk, SameWorker
<1>5. ASSUME NEW q \in Uploaders PROVE UploadOk(q)'
  <2>1. q \in Requests \ {r}
    BY IngestionAssumption DEF Requests
  <2>2. rpc'[q] = rpc[q] /\ rdoc'[q] = rdoc[q] /\ UploadOk(q) /\ hashLock' = hashLock
    BY <2>1 DEF DeleteOf, IInv
  <2>3. ASSUME rpc[q] # "idle", NEW d \in Documents, d = rdoc[q]
        PROVE  /\ hashLock'[HashOf[d]] = q /\ life'[d] = life[d] /\ objects'[d] = objects[d]
               /\ \A e \in Documents : life'[e] = "live" /\ life[e] # "live" => HashOf[e] # HashOf[d]
    <3>1. life[d] = "absent" /\ hashLock[HashOf[d]] = q
      BY <2>2, <2>3 DEF UploadOk
    <3>2. Kept(d)
      BY <3>1 DEF DeleteOf
    <3>3. \A e \in Documents : life'[e] = "live" => life[e] = "live"
      BY DEF DeleteOf, Kept
    <3>. QED  BY <2>2, <3>1, <3>2, <3>3 DEF Kept, StoresKept
  <2>. QED  BY <2>2, <2>3, SameUpload DEF UploadOk
<1>6. ASSUME NEW q \in Deleters \ {r} PROVE EraseOk(q)'
  <2>1. q \in Requests \ {r} /\ q # Nobody
    BY IngestionAssumption DEF Requests
  <2>2. rpc'[q] = rpc[q] /\ rdoc'[q] = rdoc[q] /\ EraseOk(q)
    BY <2>1 DEF DeleteOf, IInv
  <2>3. ASSUME rpc[q] # "idle"
        PROVE  docLock'[rdoc[q]] = q /\ StoresKept(rdoc[q]) /\ life'[rdoc[q]] = life[rdoc[q]]
    <3>1. rdoc[q] \in Documents /\ docLock[rdoc[q]] = q
      BY <2>2, <2>3 DEF EraseOk, Erased
    <3>2. rdoc[q] # c
      BY <2>1, <3>1 DEF DeleteOf
    <3>. QED  BY <3>1, <3>2 DEF DeleteOf, Kept
  <2>. QED  BY <2>2, <2>3, SameErase
<1>7. \A q \in Deleters : EraseOk(q)'
  BY <1>6
<1>. QED  BY <1>2, <1>3, <1>4, <1>5, <1>7 DEF IInv, Claims

\* What a delete under way knows.
LEMMA EraseFacts ==
  ASSUME IInv, NEW r \in Deleters, rpc[r] # "idle"
  PROVE  /\ Types /\ r \in Requests /\ r # Nobody
         /\ \E c \in Documents : c = rdoc[r] /\ DocOk(c) /\ Erased(r, c)
<1>1. Types /\ r \in Requests /\ r # Nobody
  BY IngestionAssumption DEF IInv, Requests
<1>2. Erased(r, rdoc[r])
  BY DEF IInv, EraseOk
<1>3. rdoc[r] \in Documents /\ DocOk(rdoc[r])
  BY <1>2 DEF IInv, Erased
<1>. QED  BY <1>1, <1>2, <1>3

\* The row of the document is locked.
LEMMA DeleteBeginStep == ASSUME IInv, NEW r \in Deleters, NEW c \in Documents, DeleteBegin(r, c) PROVE IInv'
<1>. USE DEF rowVars, storeVars, workerVars
<1>1. Types /\ r \in Requests /\ DocOk(c)
  BY DEF IInv, Requests
<1>2. /\ docLock' = [docLock EXCEPT ![c] = r] /\ rpc' = [rpc EXCEPT ![r] = "points"] /\ rdoc' = [rdoc EXCEPT ![r] = c]
      /\ life[c] # "absent" /\ docLock[c] = Nobody
      /\ UNCHANGED <<rowVars, jobLock, hashLock, storeVars, workerVars, scrubbed>>
  BY DEF DeleteBegin
<1>3. LockTypes' /\ docLock'[c] = r /\ \A d \in Documents \ {c} : docLock'[d] = docLock[d]
  BY <1>1, <1>2, Lock DEF Types, LockTypes
<1>4. /\ RequestTypes' /\ rpc'[r] = "points" /\ rdoc'[r] = c
      /\ \A q \in Requests \ {r} : rpc'[q] = rpc[q] /\ rdoc'[q] = rdoc[q]
  BY <1>1, <1>2, IngestionAssumption DEF Types, RequestTypes, RequestSteps, Requests, Erasing
<1>5. Types'
  BY <1>1, <1>2, <1>3, <1>4, TypesKept DEF Types
<1>6. DeleteOf(r, c)
  <2>1. \A d \in Documents \ {c} : Kept(d)
    BY <1>2 DEF Kept, StoresKept
  <2>. QED  BY <1>2, <1>3, <1>4, <2>1 DEF DeleteOf
<1>7. DocOk(c)'
  BY <1>1, <1>2 DEF DocOk
<1>8. EraseOk(r)'
  BY <1>2, <1>3, <1>4 DEF EraseOk, Erased
<1>. QED  BY <1>5, <1>6, <1>7, <1>8, DeleteKeeps

\* One of the stores is cleared of the document.
LEMMA EraseStep ==
  ASSUME IInv, NEW r \in Deleters, NEW c \in Documents, c = rdoc[r], NEW from \in Erasing, NEW to \in Erasing,
         Erase(r, from, to), StoreTypes',
         \A d \in Documents \ {c} : objects'[d] = objects[d] /\ points'[d] = points[d] /\ docVector'[d] = docVector[d],
         objects'[c] \subseteq objects[c], points'[c] \in {points[c], {}}, docVector'[c] \in {docVector[c], 0},
         Erased(r, c)'
  PROVE  IInv'
<1>. USE DEF rowVars, lockVars, workerVars
<1>1. rpc[r] # "idle"
  BY DEF Erase, Erasing
<1>2. Types /\ r \in Requests
  BY <1>1, EraseFacts
<1>3. DocOk(c) /\ Erased(r, c)
  BY <1>1, EraseFacts
<1>4. /\ rpc' = [rpc EXCEPT ![r] = to] /\ scrubbed' = scrubbed \cup {c}
      /\ UNCHANGED <<rowVars, lockVars, workerVars, rdoc>>
  BY DEF Erase
<1>5. /\ RequestTypes' /\ rpc'[r] = to /\ rdoc'[r] = c
      /\ \A q \in Requests \ {r} : rpc'[q] = rpc[q] /\ rdoc'[q] = rdoc[q]
  BY <1>2, <1>4, IngestionAssumption DEF Types, RequestTypes, RequestSteps, Requests
<1>6. Types'
  BY <1>2, <1>4, <1>5, TypesKept DEF Types
<1>7. DeleteOf(r, c)
  <2>1. \A d \in Documents \ {c} : Kept(d)
    BY <1>4 DEF Kept, StoresKept
  <2>. QED  BY <1>3, <1>4, <1>5, <2>1 DEF DeleteOf, Erased
<1>8. DocOk(c)'
  <2>1. life[c] # "absent"
    BY <1>3 DEF Erased
  <2>. QED  BY <1>3, <1>4, <2>1 DEF DocOk
<1>9. EraseOk(r)'
  BY <1>5 DEF EraseOk
<1>. QED  BY <1>6, <1>7, <1>8, <1>9, DeleteKeeps

\* Vectors first, then the objects.
LEMMA EraseSteps ==
  ASSUME IInv, NEW r \in Deleters,
         \/ DeletePoints(r) \/ DeleteVector(r) \/ DeleteOriginal(r) \/ DeleteNormalized(r) \/ DeleteAdapter(r)
  PROVE  IInv'
<1>. USE DEF rowVars, lockVars, workerVars
<1>1. rpc[r] # "idle"
  BY DEF DeletePoints, DeleteVector, DeleteOriginal, DeleteNormalized, DeleteAdapter, Erase
<1>2. Types /\ r \in Requests /\ r \in DOMAIN rpc
  BY <1>1, EraseFacts DEF Types, RequestTypes
<1>3. PICK c \in Documents : c = rdoc[r] /\ Erased(r, c)
  BY <1>1, EraseFacts
<1>4. /\ objects \in [Documents -> SUBSET ObjectKinds] /\ points \in [Documents -> SUBSET Nat]
      /\ docVector \in [Documents -> Nat]
  BY <1>2 DEF Types, StoreTypes
<1>5. CASE DeletePoints(r)
  <2>. DEFINE none == {}
  <2>1. Erase(r, "points", "vector") /\ points' = [points EXCEPT ![c] = none] /\ UNCHANGED <<objects, docVector>>
    BY <1>3, <1>5 DEF DeletePoints
  <2>2. none = {} /\ none \in SUBSET Nat
    OBVIOUS
  <2>. HIDE DEF none
  <2>3. /\ StoreTypes' /\ points'[c] = {} /\ \A d \in Documents \ {c} : points'[d] = points[d]
    BY <1>4, <2>1, <2>2 DEF StoreTypes
  <2>4. rpc'[r] = "vector" /\ UNCHANGED <<rowVars, lockVars>>
    BY <1>2, <2>1 DEF Erase
  <2>5. Erased(r, c)'
    BY <1>3, <2>3, <2>4 DEF Erased
  <2>. QED  BY <1>3, <2>1, <2>3, <2>5, EraseStep DEF Erasing
<1>6. CASE DeleteVector(r)
  <2>1. Erase(r, "vector", "original") /\ docVector' = [docVector EXCEPT ![c] = 0] /\ UNCHANGED <<objects, points>>
    BY <1>3, <1>6 DEF DeleteVector
  <2>2. /\ StoreTypes' /\ docVector'[c] = 0 /\ \A d \in Documents \ {c} : docVector'[d] = docVector[d]
    BY <1>4, <2>1 DEF StoreTypes
  <2>3. rpc'[r] = "original" /\ rpc[r] = "vector" /\ UNCHANGED <<rowVars, lockVars>>
    BY <1>2, <2>1 DEF Erase
  <2>4. Erased(r, c)'
    BY <1>3, <2>1, <2>2, <2>3 DEF Erased
  <2>. QED  BY <1>3, <2>1, <2>2, <2>4, EraseStep DEF Erasing
<1>7. ASSUME NEW from \in Erasing, NEW to \in Erasing, Erase(r, from, to),
             NEW os, os \subseteq objects[c], objects' = [objects EXCEPT ![c] = os], UNCHANGED <<points, docVector>>,
             Erased(r, c)'
      PROVE  IInv'
  <2>1. os \in SUBSET ObjectKinds
    BY <1>4, <1>7
  <2>2. /\ StoreTypes' /\ objects'[c] = os /\ \A d \in Documents \ {c} : objects'[d] = objects[d]
    BY <1>4, <1>7, <2>1 DEF StoreTypes
  <2>. QED  BY <1>3, <1>7, <2>2, EraseStep
<1>8. CASE DeleteOriginal(r)
  <2>. DEFINE os == objects[c] \ {"original"}
  <2>1. Erase(r, "original", "normalized") /\ objects' = [objects EXCEPT ![c] = os] /\ UNCHANGED <<points, docVector>>
    BY <1>3, <1>8 DEF DeleteOriginal
  <2>2. os \subseteq objects[c] /\ "original" \notin os
    OBVIOUS
  <2>. HIDE DEF os
  <2>3. rpc'[r] = "normalized" /\ rpc[r] = "original" /\ objects'[c] = os /\ UNCHANGED <<rowVars, lockVars>>
    BY <1>2, <1>4, <2>1 DEF Erase
  <2>4. Erased(r, c)'
    BY <1>3, <2>1, <2>2, <2>3 DEF Erased
  <2>. QED  BY <1>7, <2>1, <2>2, <2>4 DEF Erasing
<1>9. CASE DeleteNormalized(r)
  <2>. DEFINE os == IF c \in normalized THEN objects[c] \ {"normalized"} ELSE objects[c]
  <2>1. Erase(r, "normalized", "adapter") /\ objects' = [objects EXCEPT ![c] = os] /\ UNCHANGED <<points, docVector>>
    BY <1>3, <1>9 DEF DeleteNormalized
  <2>2. os \subseteq objects[c] /\ (c \in normalized => "normalized" \notin os)
    OBVIOUS
  <2>. HIDE DEF os
  <2>3. rpc'[r] = "adapter" /\ rpc[r] = "normalized" /\ objects'[c] = os /\ UNCHANGED <<rowVars, lockVars>>
    BY <1>2, <1>4, <2>1 DEF Erase
  <2>4. Erased(r, c)'
    BY <1>3, <2>1, <2>2, <2>3 DEF Erased
  <2>. QED  BY <1>7, <2>1, <2>2, <2>4 DEF Erasing
<1>10. CASE DeleteAdapter(r)
  <2>. DEFINE os == IF "adapter" \in objects[c] THEN objects[c] \ {"members", "adapter"} ELSE objects[c]
  <2>1. Erase(r, "adapter", "rows") /\ objects' = [objects EXCEPT ![c] = os] /\ UNCHANGED <<points, docVector>>
    BY <1>3, <1>10 DEF DeleteAdapter
  <2>2. os \subseteq objects[c] /\ "adapter" \notin os
    OBVIOUS
  <2>. HIDE DEF os
  <2>3. rpc'[r] = "rows" /\ rpc[r] = "adapter" /\ objects'[c] = os /\ UNCHANGED <<rowVars, lockVars>>
    BY <1>2, <1>4, <2>1 DEF Erase
  <2>4. Erased(r, c)'
    BY <1>3, <2>1, <2>2, <2>3 DEF Erased
  <2>. QED  BY <1>7, <2>1, <2>2, <2>4 DEF Erasing
<1>. QED  BY <1>5, <1>6, <1>8, <1>9, <1>10

\* The end of a delete: the row of the document is free again.
LEMMA EndDeleteFields ==
  ASSUME Types, NEW r \in Deleters, NEW c \in Documents, c = rdoc[r], EndDelete(r)
  PROVE  /\ docLock' \in [Documents -> Workers \cup Requests \cup {Nobody}]
         /\ \A d \in Documents \ {c} : docLock'[d] = docLock[d]
         /\ RequestTypes' /\ rpc'[r] = "idle"
         /\ \A q \in Requests \ {r} : rpc'[q] = rpc[q] /\ rdoc'[q] = rdoc[q]
<1>1. r \in Requests
  BY DEF Requests
<1>2. /\ docLock' = [docLock EXCEPT ![c] = Nobody]
      /\ rpc' = [rpc EXCEPT ![r] = "idle"] /\ rdoc' = [rdoc EXCEPT ![r] = NoDocument]
  BY DEF EndDelete, Unlock
<1>3. docLock' \in [Documents -> Workers \cup Requests \cup {Nobody}] /\ \A d \in Documents \ {c} : docLock'[d] = docLock[d]
  BY <1>2, Lock DEF Types, LockTypes
<1>4. RequestTypes' /\ rpc'[r] = "idle" /\ \A q \in Requests \ {r} : rpc'[q] = rpc[q] /\ rdoc'[q] = rdoc[q]
  BY <1>1, <1>2, IngestionAssumption DEF Types, RequestTypes, RequestSteps, Requests
<1>. QED  BY <1>3, <1>4

\* The rows are deleted once everything else is.
LEMMA DeleteCommitStep == ASSUME IInv, NEW r \in Deleters, DeleteCommit(r) PROVE IInv'
<1>. USE DEF storeVars, workerVars
<1>1. rpc[r] = "rows"
  BY DEF DeleteCommit
<1>2. Types
  BY <1>1, EraseFacts
<1>3. PICK c \in Documents : c = rdoc[r] /\ DocOk(c) /\ Erased(r, c)
  BY <1>1, EraseFacts
<1>4. /\ life' = [life EXCEPT ![c] = "deleted"] /\ chunks' = [chunks EXCEPT ![c] = 0]
      /\ jobs' = [jobs EXCEPT ![c] = NoRow] /\ scrubbed' = scrubbed \ {c} /\ EndDelete(r) /\ jobLock[c] = Nobody
      /\ UNCHANGED <<status, normalized, jobLock, hashLock, storeVars, workerVars>>
  BY <1>3 DEF DeleteCommit
<1>5. /\ docLock' \in [Documents -> Workers \cup Requests \cup {Nobody}]
      /\ \A d \in Documents \ {c} : docLock'[d] = docLock[d]
      /\ RequestTypes' /\ rpc'[r] = "idle"
      /\ \A q \in Requests \ {r} : rpc'[q] = rpc[q] /\ rdoc'[q] = rdoc[q]
  BY <1>2, <1>3, <1>4, EndDeleteFields
<1>6. /\ life' \in [Documents -> {"absent", "live", "deleted"}] /\ life'[c] = "deleted"
      /\ \A d \in Documents \ {c} : life'[d] = life[d]
  BY <1>2, <1>4 DEF Types, RowTypes
<1>7. chunks' \in [Documents -> Nat] /\ chunks'[c] = 0 /\ \A d \in Documents \ {c} : chunks'[d] = chunks[d]
  BY <1>2, <1>4 DEF Types, RowTypes
<1>8. jobs' \in [Documents -> Row \cup {NoRow}] /\ jobs'[c] = NoRow /\ \A d \in Documents \ {c} : jobs'[d] = jobs[d]
  BY <1>2, <1>4 DEF Types, RowTypes
<1>9. Types'
  <2>1. RowTypes'
    BY <1>2, <1>4, <1>6, <1>7, <1>8 DEF Types, RowTypes
  <2>2. LockTypes' /\ scrubbed' \in SUBSET Documents
    BY <1>2, <1>4, <1>5 DEF Types, LockTypes
  <2>. QED  BY <1>2, <1>4, <1>5, <2>1, <2>2, TypesKept DEF Types
<1>10. DeleteOf(r, c)
  <2>1. \A d \in Documents \ {c} : Kept(d)
    BY <1>4, <1>6, <1>7, <1>8 DEF Kept, StoresKept
  <2>. QED  BY <1>3, <1>4, <1>5, <1>6, <1>8, <2>1 DEF DeleteOf, Erased
<1>11. DocOk(c)'
  BY <1>1, <1>3, <1>4, <1>6, <1>7, <1>8 DEF DocOk, Erased
<1>12. EraseOk(r)'
  BY <1>5 DEF EraseOk
<1>. QED  BY <1>9, <1>10, <1>11, <1>12, DeleteKeeps

\* A delete that gives up, or is chosen as the victim of a deadlock.
LEMMA EndDeleteStep ==
  ASSUME IInv, NEW r \in Deleters, rpc[r] \in Erasing, EndDelete(r),
         UNCHANGED <<rowVars, jobLock, hashLock, storeVars, workerVars, scrubbed>>
  PROVE  IInv'
<1>. USE DEF rowVars, storeVars, workerVars
<1>1. rpc[r] # "idle"
  BY DEF Erasing
<1>2. Types
  BY <1>1, EraseFacts
<1>3. PICK c \in Documents : c = rdoc[r] /\ DocOk(c) /\ Erased(r, c)
  BY <1>1, EraseFacts
<1>4. /\ docLock' \in [Documents -> Workers \cup Requests \cup {Nobody}]
      /\ \A d \in Documents \ {c} : docLock'[d] = docLock[d]
      /\ RequestTypes' /\ rpc'[r] = "idle"
      /\ \A q \in Requests \ {r} : rpc'[q] = rpc[q] /\ rdoc'[q] = rdoc[q]
  BY <1>2, <1>3, EndDeleteFields
<1>5. Types'
  <2>1. LockTypes'
    BY <1>2, <1>4 DEF Types, LockTypes
  <2>. QED  BY <1>2, <1>4, <2>1, TypesKept DEF Types
<1>6. DeleteOf(r, c)
  <2>1. \A d \in Documents \ {c} : Kept(d)
    BY DEF Kept, StoresKept
  <2>. QED  BY <1>3, <1>4, <2>1 DEF DeleteOf, Erased
<1>7. DocOk(c)' /\ EraseOk(r)'
  BY <1>3, <1>4 DEF DocOk, EraseOk
<1>. QED  BY <1>5, <1>6, <1>7, DeleteKeeps

-----------------------------------------------------------------------------
(* Every step. *)

\* Nothing happens.
LEMMA StutterStep == ASSUME IInv, UNCHANGED vars PROVE IInv'
<1>. USE DEF vars, rowVars, lockVars, storeVars, workerVars, requestVars
<1>1. Types'
  BY TypesKept DEF IInv, Types
<1>2. ASSUME NEW d \in Documents PROVE DocOk(d)' /\ Kept(d)
  <2>1. Kept(d)
    BY DEF Kept, StoresKept
  <2>. QED  BY <2>1, KeptOk DEF IInv
<1>3. ASSUME NEW v \in Workers PROVE SameWorker(v)
  BY DEF SameWorker
<1>4. ASSUME NEW v \in Workers, NEW d \in Documents PROVE ClaimOk(v, d)'
  BY <1>3, SameClaim DEF IInv, Claims
<1>5. ASSUME NEW v \in Workers PROVE WorkerOk(v)'
  <2>1. ASSUME wpc[v] # "idle" PROVE AtHand(v, cur[v])'
    <3>1. PICK d \in Documents : d = cur[v] /\ AtHand(v, d)
      BY <2>1 DEF IInv, WorkerOk, AtHand
    <3>2. AtHand(v, d)'
      BY <1>2, <1>3, <3>1, SameAtHand
    <3>. QED  BY <3>1, <3>2
  <2>. QED  BY <2>1 DEF WorkerOk
<1>6. ASSUME NEW r \in Uploaders PROVE UploadOk(r)'
  BY DEF UploadOk, IInv
<1>7. ASSUME NEW r \in Deleters PROVE EraseOk(r)'
  BY DEF EraseOk, Erased, IInv
<1>. QED  BY <1>1, <1>2, <1>4, <1>5, <1>6, <1>7 DEF IInv, Claims

\* The invariant holds at first: nobody works, nothing is there.
LEMMA IInvInit == Init => IInv
<1>. SUFFICES ASSUME Init PROVE IInv
  OBVIOUS
<1>1. Types
  BY TypesInit
<1>2. \A d \in Documents : DocOk(d)
  BY DEF Init, DocOk
<1>3. Claims
  BY DEF Init, Claims, ClaimOk
<1>4. \A w \in Workers : WorkerOk(w)
  BY DEF Init, WorkerOk
<1>5. \A r \in Uploaders : UploadOk(r)
  BY DEF Init, UploadOk, Requests
<1>6. \A r \in Deleters : EraseOk(r)
  BY DEF Init, EraseOk, Requests
<1>. QED  BY <1>1, <1>2, <1>3, <1>4, <1>5, <1>6 DEF IInv

\* A deadlock is broken at the cost of either side.
LEMMA BreakDeadlockStep ==
  ASSUME IInv, NEW w \in Workers, NEW r \in Deleters, BreakDeadlock(w, r) PROVE IInv'
<1>1. Deadlock(w, r) /\ rpc[r] \in Erasing /\ UNCHANGED <<rowVars, hashLock, storeVars, scrubbed>>
  BY DEF BreakDeadlock, Deadlock, Erasing
<1>2. CASE jobLock' = Unlock(jobLock, cur[w]) /\ Die(w) /\ UNCHANGED <<docLock, requestVars>>
  BY <1>1, <1>2, AbortedWorkerStep
<1>3. CASE EndDelete(r) /\ UNCHANGED <<jobLock, workerVars>>
  BY <1>1, <1>3, EndDeleteStep
<1>. QED  BY <1>2, <1>3 DEF BreakDeadlock

\* The steps of a worker, together.
LEMMA JobStep ==
  ASSUME IInv, NEW w \in Workers, Claim(w) \/ JobProgress(w) \/ AttemptFails(w) \/ Crash(w) PROVE IInv'
<1>1. CASE JobProgress(w)
  <2>1. CASE \E d \in Documents : Merge(w, d)
    BY <2>1, MergeStep
  <2>2. CASE LockDocument(w)
    BY <2>2, LockDocumentStep
  <2>3. CASE StoreNormalized(w) \/ StoreMembers(w) \/ StoreAdapter(w) \/ ClearPoints(w) \/ UpsertPoints(w) \/ WriteVector(w)
    BY <2>3, StoreSteps
  <2>4. CASE CommitReady(w)
    BY <2>4, CommitReadyStep
  <2>5. CASE CommitSkip(w)
    BY <2>5, CommitSkipStep
  <2>6. CASE MergeFailed(w)
    BY <2>6, MergeFailedStep
  <2>7. CASE LockJob(w) \/ InsertJob(w)
    BY <2>7, LockJobStep
  <2>8. CASE JobGone(w)
    BY <2>8, JobGoneStep
  <2>9. CASE RecordFailure(w)
    BY <2>9, RecordFailureStep
  <2>. QED  BY <1>1, <2>1, <2>2, <2>3, <2>4, <2>5, <2>6, <2>7, <2>8, <2>9 DEF JobProgress
<1>. QED  BY <1>1, ClaimStep, AttemptFailsStep, CrashStep

\* Every step keeps the invariant.
LEMMA NextStep == IInv /\ [Next]_vars => IInv'
<1>. SUFFICES ASSUME IInv, [Next]_vars PROVE IInv'
  OBVIOUS
<1>1. CASE \E r \in Uploaders, d \in Documents : UploadBegin(r, d)
  BY <1>1, UploadBeginStep
<1>2. CASE \E r \in Uploaders : UploadStep(r)
  BY <1>2, UploadPutStep, UploadCommitStep, UploadFailsStep DEF UploadStep
<1>3. CASE \E w \in Workers : Claim(w) \/ JobProgress(w) \/ AttemptFails(w) \/ Crash(w)
  BY <1>3, JobStep
<1>4. CASE \E r \in Deleters, d \in Documents : DeleteBegin(r, d)
  BY <1>4, DeleteBeginStep
<1>5. CASE \E r \in Deleters : DeleteProgress(r)
  BY <1>5, EraseSteps, DeleteCommitStep DEF DeleteProgress
<1>6. CASE \E r \in Deleters : DeleteFails(r)
  <2>1. PICK r \in Deleters : DeleteFails(r)
    BY <1>6
  <2>. QED  BY <2>1, EndDeleteStep DEF DeleteFails
<1>7. CASE \E w \in Workers, r \in Deleters : BreakDeadlock(w, r)
  BY <1>7, BreakDeadlockStep
<1>8. CASE Rest \/ UNCHANGED vars
  BY <1>8, StutterStep DEF Rest
<1>. QED  BY <1>1, <1>2, <1>3, <1>4, <1>5, <1>6, <1>7, <1>8 DEF Next

\* The invariant holds throughout.
LEMMA Invariant == Spec => []IInv
  BY IInvInit, NextStep, PTL DEF Spec

-----------------------------------------------------------------------------
(* What it implies. *)

\* What a document reads `ready` with is what search finds (processing.py, process_job).
THEOREM ReadyMeansSearchable == Spec => []ReadyIsSearchable
<1>1. IInv => ReadyIsSearchable
  BY DEF IInv, DocOk, ReadyIsSearchable
<1>. QED  BY <1>1, Invariant, PTL

\* A deleted document has left nothing behind, and no worker brings anything back
\* (deletion.py, delete_document).
THEOREM DeletedMeansErased == Spec => []DeletedIsErased
<1>1. IInv => DeletedIsErased
  BY DEF IInv, DocOk, DeletedIsErased
<1>. QED  BY <1>1, Invariant, PTL

\* Document and job tell the same story (processing.py, mark_failed; jobs.py, finish and fail).
THEOREM StatusFollowsJob == Spec => []StatusAgreesWithJob
<1>1. IInv => StatusAgreesWithJob
  BY DEF IInv, DocOk, StatusAgreesWithJob
<1>. QED  BY <1>1, Invariant, PTL

\* What a live row points to is stored (ingestion.py, ingest_upload; processing.py, process_job).
THEOREM ReferencesAreStored == Spec => []NoDanglingReference
<1>1. IInv => NoDanglingReference
  BY DEF IInv, DocOk, NoDanglingReference
<1>. QED  BY <1>1, Invariant, PTL

-----------------------------------------------------------------------------
(* What a client sees is a path of the document lifecycle, if no answer to a *)
(* commit is lost.                                                           *)

Shown(d) == IF life[d] = "live" THEN status[d] ELSE life[d]

ShownPhase == [d \in Documents |-> Shown(d)]

\* A step that shows the document c in another phase.
LEMMA OneShown ==
  ASSUME NEW c \in Documents, \A d \in Documents \ {c} : life'[d] = life[d] /\ status'[d] = status[d],
         NEW p, Shown(c)' = p
  PROVE  ShownPhase' = [ShownPhase EXCEPT ![c] = p]
  BY DEF ShownPhase, Shown

\* Bytes no live document holds are accepted.
LEMMA CommitAccepts ==
  ASSUME IInv, NEW r \in Uploaders, UploadCommit(r)
  PROVE  Lifecycle!LifecycleNext
<1>1. Types /\ rpc[r] # "idle"
  BY DEF IInv, UploadCommit
<1>2. PICK c \in Documents :
        /\ c = rdoc[r] /\ life[c] = "absent"
        /\ \A e \in Documents : life[e] = "live" => HashOf[e] # HashOf[c]
  BY <1>1, UploadFacts
<1>3. life' = [life EXCEPT ![c] = "live"] /\ status' = [status EXCEPT ![c] = "queued"]
  BY <1>2 DEF UploadCommit
<1>4. Shown(c) = "absent" /\ Shown(c)' = "queued" /\ \A d \in Documents \ {c} : life'[d] = life[d] /\ status'[d] = status[d]
  BY <1>1, <1>2, <1>3 DEF Types, RowTypes, Shown
<1>5. ShownPhase' = [ShownPhase EXCEPT ![c] = "queued"] /\ ShownPhase[c] = "absent"
  BY <1>4, OneShown DEF ShownPhase
<1>6. \A e \in Documents : ShownPhase[e] \in {"queued", "ready", "failed"} => HashOf[e] # HashOf[c]
  BY <1>1, <1>2 DEF ShownPhase, Shown, Types, RowTypes
<1>7. Lifecycle!Accept(c)
  BY <1>5, <1>6 DEF Lifecycle!Accept, Lifecycle!Held, ShownPhase, Shown
<1>. QED  BY <1>7 DEF Lifecycle!LifecycleNext

\* A queued document settles.
LEMMA ShownSettles ==
  ASSUME NEW c \in Documents, Shown(c) = "queued", NEW p \in {"ready", "failed"}, Shown(c)' = p,
         \A d \in Documents \ {c} : life'[d] = life[d] /\ status'[d] = status[d]
  PROVE  Lifecycle!LifecycleNext
<1>1. ShownPhase' = [ShownPhase EXCEPT ![c] = p] /\ ShownPhase[c] = "queued"
  BY OneShown DEF ShownPhase
<1>2. Lifecycle!Settle(c)
  BY <1>1 DEF Lifecycle!Settle, ShownPhase, Shown
<1>. QED  BY <1>2 DEF Lifecycle!LifecycleNext

\* The commit of an attempt makes it ready.
LEMMA CommitSettles ==
  ASSUME IInv, NEW w \in Workers, CommitReady(w)
  PROVE  Lifecycle!LifecycleNext
<1>1. Types /\ wpc[w] \in Writing /\ wpc[w] # "idle"
  BY DEF IInv, CommitReady, Writing
<1>2. PICK c \in Documents : c = cur[w] /\ status[c] = "queued" /\ life[c] = "live"
  BY <1>1, AtHandFacts
<1>3. status' = [status EXCEPT ![c] = "ready"] /\ life' = life
  BY <1>2 DEF CommitReady
<1>4. /\ Shown(c) = "queued" /\ Shown(c)' = "ready"
      /\ \A d \in Documents \ {c} : life'[d] = life[d] /\ status'[d] = status[d]
  BY <1>1, <1>2, <1>3 DEF Types, RowTypes, Shown
<1>. QED  BY <1>4, ShownSettles

\* A recorded failure makes it failed, or leaves it queued for the next attempt.
LEMMA FailureSettles ==
  ASSUME IInv, "ambiguous" \notin Faults, NEW w \in Workers, RecordFailure(w)
  PROVE  Lifecycle!LifecycleNext \/ ShownPhase' = ShownPhase
<1>1. Types /\ wpc[w] = "recorded" /\ wpc[w] # "idle"
  BY DEF IInv, RecordFailure
<1>2. PICK c \in Documents : c = cur[w] /\ AtHand(w, c) /\ DocOk(c) /\ ClaimOk(w, c)
  BY <1>1, AtHandFacts
<1>. DEFINE row == FailedRow(Snapshot(w, c), 0)
            s == FailedStatus(row)
<1>3. s \in {"queued", "failed"}
  BY DEF FailedStatus
<1>4. status' = [status EXCEPT ![c] = s] /\ life' = life
  BY <1>1, <1>2, RecordedRow DEF RecordFailure
<1>. HIDE DEF row, s
<1>5. status'[c] = s /\ \A d \in Documents \ {c} : status'[d] = status[d]
  BY <1>1, <1>4 DEF Types, RowTypes
<1>6. CASE life[c] = "live"
  <2>1. jobs[c] = Snapshot(w, c)
    BY <1>2, <1>6 DEF AtHand, ClaimOk, Unanswered, DocOk
  <2>2. status[c] = "queued"
    BY <1>2, <1>6, <2>1 DEF DocOk, Snapshot, LiveStatus
  <2>3. Shown(c) = "queued" /\ Shown(c)' = s
    BY <1>4, <1>5, <1>6, <2>2 DEF Shown
  <2>4. CASE s = "failed"
    BY <1>4, <1>5, <2>3, <2>4, ShownSettles
  <2>5. CASE s = "queued"
    <3>1. \A d \in Documents : status'[d] = status[d]
      BY <1>5, <2>2, <2>5
    <3>. QED  BY <1>4, <3>1 DEF ShownPhase, Shown
  <2>. QED  BY <1>3, <2>4, <2>5
<1>7. CASE life[c] # "live"
  <2>1. \A d \in Documents : Shown(d)' = Shown(d)
    BY <1>4, <1>5, <1>7 DEF Shown
  <2>. QED  BY <2>1 DEF ShownPhase
<1>. QED  BY <1>6, <1>7

\* A delete removes a document that was there, or repeats itself.
LEMMA CommitRemoves ==
  ASSUME IInv, NEW r \in Deleters, DeleteCommit(r)
  PROVE  Lifecycle!LifecycleNext \/ ShownPhase' = ShownPhase
<1>1. Types /\ rpc[r] # "idle"
  BY DEF IInv, DeleteCommit
<1>2. PICK c \in Documents : c = rdoc[r] /\ Erased(r, c)
  BY <1>1, EraseFacts
<1>3. life' = [life EXCEPT ![c] = "deleted"] /\ status' = status /\ life[c] # "absent"
  BY <1>2 DEF DeleteCommit, Erased
<1>4. life'[c] = "deleted" /\ \A d \in Documents \ {c} : life'[d] = life[d]
  BY <1>1, <1>3 DEF Types, RowTypes
<1>5. Shown(c)' = "deleted"
  BY <1>4 DEF Shown
<1>6. CASE life[c] = "live"
  <2>1. ShownPhase' = [ShownPhase EXCEPT ![c] = "deleted"] /\ ShownPhase[c] \in {"queued", "ready", "failed"}
    BY <1>1, <1>3, <1>4, <1>5, <1>6, OneShown DEF ShownPhase, Shown, Types, RowTypes
  <2>2. Lifecycle!Remove(c)
    BY <2>1 DEF Lifecycle!Remove, Lifecycle!Held, ShownPhase, Shown
  <2>. QED  BY <2>2 DEF Lifecycle!LifecycleNext
<1>7. CASE life[c] = "deleted"
  <2>1. \A d \in Documents : life'[d] = life[d]
    BY <1>4, <1>7
  <2>. QED  BY <1>3, <2>1 DEF ShownPhase, Shown
<1>. QED  BY <1>1, <1>3, <1>6, <1>7 DEF Types, RowTypes

\* No other step is seen.
LEMMA OthersUnseen ==
  ASSUME [Next]_vars,
         ~ \E r \in Uploaders : UploadCommit(r), ~ \E w \in Workers : CommitReady(w) \/ RecordFailure(w),
         ~ \E r \in Deleters : DeleteCommit(r)
  PROVE  life' = life /\ status' = status
<1>. USE DEF vars, rowVars
<1>1. CASE \E r \in Uploaders, d \in Documents : UploadBegin(r, d)
  BY <1>1 DEF UploadBegin
<1>2. CASE \E r \in Uploaders : UploadStep(r)
  BY <1>2 DEF UploadStep, UploadPut, UploadFails
<1>3. ASSUME NEW w \in Workers, Claim(w) \/ JobProgress(w) \/ AttemptFails(w) \/ Crash(w) PROVE life' = life /\ status' = status
  <2>1. CASE JobProgress(w)
    BY <2>1 DEF JobProgress, Merge, LockDocument, StoreNormalized, StoreMembers, StoreAdapter, ClearPoints,
                UpsertPoints, WriteVector, CommitSkip, MergeFailed, LockJob, InsertJob, JobGone, Step
  <2>. QED  BY <1>3, <2>1 DEF Claim, AttemptFails, Crash
<1>4. CASE \E r \in Deleters, d \in Documents : DeleteBegin(r, d)
  BY <1>4 DEF DeleteBegin
<1>5. CASE \E r \in Deleters : DeleteProgress(r) \/ DeleteFails(r)
  BY <1>5 DEF DeleteProgress, DeletePoints, DeleteVector, DeleteOriginal, DeleteNormalized, DeleteAdapter, Erase, DeleteFails
<1>6. CASE \E w \in Workers, r \in Deleters : BreakDeadlock(w, r)
  BY <1>6 DEF BreakDeadlock
<1>7. CASE Rest \/ UNCHANGED vars
  BY <1>7 DEF Rest
<1>. QED  BY <1>1, <1>2, <1>3, <1>4, <1>5, <1>6, <1>7 DEF Next

\* Every step is one of the lifecycle, or is not seen.
LEMMA StepsMapped ==
  "ambiguous" \notin Faults => (IInv /\ [Next]_vars => Lifecycle!LifecycleNext \/ ShownPhase' = ShownPhase)
<1>. SUFFICES ASSUME "ambiguous" \notin Faults, IInv, [Next]_vars
              PROVE  Lifecycle!LifecycleNext \/ ShownPhase' = ShownPhase
  OBVIOUS
<1>1. CASE \E r \in Uploaders : UploadCommit(r)
  BY <1>1, CommitAccepts
<1>2. CASE \E w \in Workers : CommitReady(w)
  BY <1>2, CommitSettles
<1>3. CASE \E w \in Workers : RecordFailure(w)
  BY <1>3, FailureSettles
<1>4. CASE \E r \in Deleters : DeleteCommit(r)
  BY <1>4, CommitRemoves
<1>5. CASE /\ ~ \E r \in Uploaders : UploadCommit(r)
           /\ ~ \E w \in Workers : CommitReady(w) \/ RecordFailure(w)
           /\ ~ \E r \in Deleters : DeleteCommit(r)
  <2>1. life' = life /\ status' = status
    BY <1>5, OthersUnseen
  <2>. QED  BY <2>1 DEF ShownPhase, Shown
<1>. QED  BY <1>1, <1>2, <1>3, <1>4, <1>5

\* Retries, restarts and concurrent deletes never show a client anything but the
\* lifecycle, as long as no answer to a commit is lost.
THEOREM IngestionRefinesLifecycle == "ambiguous" \notin Faults => (Spec => ImplementsLifecycle)
<1>. SUFFICES ASSUME "ambiguous" \notin Faults PROVE Spec => ImplementsLifecycle
  OBVIOUS
<1>1. Init => Lifecycle!LifecycleInit
  BY DEF Init, Lifecycle!LifecycleInit
<1>2. IInv /\ [Next]_vars => [Lifecycle!LifecycleNext]_ShownPhase
  BY StepsMapped
<1>3. ShownPhase = [d \in Documents |-> IF life[d] = "live" THEN status[d] ELSE life[d]]
  BY DEF ShownPhase, Shown
<1>4. IInv /\ [Next]_vars => [Lifecycle!LifecycleNext]_([d \in Documents |-> IF life[d] = "live" THEN status[d] ELSE life[d]])
  BY <1>2 DEF ShownPhase, Shown
<1>. QED  BY <1>1, <1>4, Invariant, PTL DEF Spec, ImplementsLifecycle, Lifecycle!LifecycleSpec
=============================================================================
