---------------------------- MODULE VectorIndex ----------------------------
(***************************************************************************)
(* The chunk points and document vectors in Qdrant, and the embedding      *)
(* identity PostgreSQL keeps of them.                                      *)
(*                                                                         *)
(*   write    services/processing.py, indexing.py, vector_store.py         *)
(*   reindex  services/reindexing.py, api/documents.py                     *)
(*   delete   services/deletion.py                                         *)
(*   search   services/retrieval.py                                        *)
(*                                                                         *)
(* An embedding space is one (provider, model, version, dimensions).  Each *)
(* running program is configured for one space; a redeployment changes it. *)
(* Vectors are comparable only within a space, and Qdrant knows nothing    *)
(* but their width, so everything rests on documents.embedding_*, which is *)
(* committed after the vectors were written.                               *)
(*                                                                         *)
(* The rows hold committed values; an open transaction is a record in op.  *)
(* One tenant is modelled: every call and every filter names the tenant.   *)
(*                                                                         *)
(* A row of documents is locked in two modes: FOR UPDATE by every          *)
(* operation here, and FOR KEY SHARE by the foreign keys of the relations  *)
(* an ingestion inserts.  What the relations are is in Relations.          *)
(***************************************************************************)
EXTENDS JobRows, Sequences, FiniteSets

CONSTANTS
  Documents,     (* the documents of the tenant                            *)
  Created,       (* all of them, in the order of created_at                *)
  Textless,      (* documents that parse to no chunks                      *)
  Spaces,        (* embedding spaces                                       *)
  DimOf,         (* their number of dimensions                             *)
  Processes,     (* workers and requests that write                        *)
  Searches,      (* search requests                                        *)
  Rolling,       (* redeployments replace one program after the other      *)
  NoSpace,       (* embedding_* IS NULL, or no vector                      *)
  NoHit          (* the search holds no point                              *)

Programs == Processes \cup Searches

ASSUME VectorIndexAssumption ==
  /\ Created \in Seq(Documents) /\ {Created[i] : i \in DOMAIN Created} = Documents
  /\ Len(Created) = Cardinality(Documents)
  /\ Textless \subseteq Documents
  /\ DimOf \in [Spaces -> Nat \ {0}] /\ Spaces # {}
  /\ Processes \cap Searches = {} /\ Nobody \notin Processes
  /\ Rolling \in BOOLEAN
  /\ NoSpace \notin Spaces

VARIABLES
  (* PostgreSQL, committed *)
  life,          (* queued, ready, deleted                                 *)
  tries,         (* attempts the job has counted                           *)
  chunks,        (* attempt whose chunks are in the table, 0 for none      *)
  identity,      (* documents.embedding_*                                  *)
  lock,          (* who holds each document FOR UPDATE                     *)
  keyShared,     (* documents each process holds FOR KEY SHARE             *)
  candidates,    (* documents it is about to insert a relation to          *)
  (* Qdrant *)
  points,        (* chunk points of each document                          *)
  docVector,     (* space of its document vector                           *)
  width,         (* vector size of the chunk collection, 0: absent         *)
  docWidth,      (* vector size of the document collection                 *)
  (* programs *)
  space,         (* configured embedding provider                          *)
  op,            (* the operation each process is in                       *)
  found,         (* a point each search follows                            *)
  (* history *)
  torn           (* documents whose vectors were left behind by an aborted *)
                 (* operation or lost with the collection, until rewritten *)

rowVars == <<life, tries, chunks, identity>>
relating == <<keyShared, candidates>>
qdrantVars == <<points, docVector, width, docWidth>>
vars == <<rowVars, lock, relating, qdrantVars, space, op, found, torn>>

(***************************************************************************)
(* An operation works through the documents in todo.  same: those whose    *)
(* embedding_* the session loaded with the values it is about to assign,   *)
(* for which the ORM emits no UPDATE.  marked: those it has to update.     *)
(* touched: those whose points it has changed.                             *)
(***************************************************************************)
Idle == [kind |-> "none", at |-> "idle", todo |-> <<>>,
         same |-> {}, marked |-> {}, touched |-> {}]

Init ==
  /\ life = [d \in Documents |-> "queued"]
  /\ tries = [d \in Documents |-> 0]
  /\ chunks = [d \in Documents |-> 0]
  /\ identity = [d \in Documents |-> NoSpace]
  /\ lock = [d \in Documents |-> Nobody]
  /\ keyShared = [p \in Processes |-> {}]
  /\ candidates = [p \in Processes |-> << >>]
  /\ points = [d \in Documents |-> {}]
  /\ docVector = [d \in Documents |-> NoSpace]
  /\ width = 0 /\ docWidth = 0
  /\ \E e \in Spaces : space = [q \in Programs |-> e]
  /\ op = [p \in Processes |-> Idle]
  /\ found = [s \in Searches |-> NoHit]
  /\ torn = {}

-----------------------------------------------------------------------------
(* The beginning of an operation, before it locks anything.                *)

Begin(p, kind, todo, same) ==
  /\ op[p] = Idle
  /\ op' = [op EXCEPT ![p] = [Idle EXCEPT !.kind = kind, !.at = "lock",
                                          !.todo = todo, !.same = same]]
  /\ UNCHANGED <<life, chunks, identity, lock, relating, qdrantVars, space, found, torn>>

\* A worker has claimed the document's job (see JobQueue and Ingestion).
BeginIngest(p, d) ==
  /\ life[d] = "queued" /\ tries[d] < MaxAttempts
  /\ \A q \in Processes : op[q].kind = "ingest" => op[q].todo # <<d>>
  /\ tries' = [tries EXCEPT ![d] = @ + 1]
  /\ Begin(p, "ingest", <<d>>, {})

BeginReindex(p, d) ==
  /\ Begin(p, "reindex", <<d>>, {})
  /\ UNCHANGED tries

BeginDelete(p, d) ==
  /\ Begin(p, "delete", <<d>>, {})
  /\ UNCHANGED tries

\* The lists of some documents, in any order.  Mutant: that of the tenant's too.
AnyOrder(S) ==
  {t \in [1 .. Cardinality(S) -> S] : \A i, j \in DOMAIN t : t[i] = t[j] => i = j}

\* The place of a document in the order of created_at.
Age(d) == CHOOSE i \in DOMAIN Created : Created[i] = d

\* The list is ordered by created_at.
Ordered(S) ==
  {t \in [1 .. Cardinality(S) -> S] : \A i, j \in DOMAIN t : i < j => Age(t[i]) < Age(t[j])}

\* reindex_tenant loads the live ready documents, with their identity.
BeginTenant(p) ==
  LET ready == {d \in Documents : life[d] = "ready"}
  IN /\ ready # {}
     /\ \E todo \in Ordered(ready) :
          Begin(p, "tenant", todo, {d \in ready : identity[d] = space[p]})
     /\ UNCHANGED tries

-----------------------------------------------------------------------------
(* The ends of an operation.                                               *)

Doc(p) == Head(op[p].todo)
Dim(q) == DimOf[space[q]]
Released(p) == [d \in Documents |-> IF lock[d] = p THEN Nobody ELSE lock[d]]

\* Every operation has a session of its own.
Ended(p) == [op EXCEPT ![p] = Idle]

\* An exception reached the end of the request or of the attempt, or PostgreSQL
\* chose the transaction to end a circle of waits: the rows are rolled back and
\* their locks given back, Qdrant is not.
Abort(p) ==
  /\ op' = Ended(p)
  /\ lock' = Released(p)
  /\ keyShared' = [keyShared EXCEPT ![p] = {}]
  /\ candidates' = [candidates EXCEPT ![p] = << >>]
  /\ torn' = torn \cup op[p].touched
  /\ UNCHANGED <<rowVars, qdrantVars, space, found>>

Fails(p) ==
  /\ op[p] # Idle
  /\ Abort(p)

\* The operation after it is through with the document at hand.
Advanced(o) ==
  IF Len(o.todo) = 1 THEN [o EXCEPT !.at = "commit"]
                     ELSE [o EXCEPT !.todo = Tail(@), !.at = "lock"]

Continue(p, o) ==
  /\ op' = [op EXCEPT ![p] = o]
  /\ UNCHANGED <<rowVars, space, found>>

At(p, step) == op[p].at = step
Reindexing(p) == op[p].kind \in {"reindex", "tenant"}

\* The chunks the operation would embed: new ones or the ones in the table.
ChunksOf(p) ==
  IF op[p].kind = "ingest" THEN IF Doc(p) \in Textless THEN 0 ELSE tries[Doc(p)]
                           ELSE chunks[Doc(p)]

\* The transaction commits: embedding_* of what was marked, and what the kind of
\* operation does to the document.
Commit(p) ==
  LET o == op[p]
      Held(d) == lock[d] = p
  IN /\ o.at = "commit" /\ candidates[p] = << >>
     /\ identity' = [d \in Documents |-> IF d \in o.marked THEN space[p] ELSE identity[d]]
     /\ life' = [d \in Documents |->
                   IF ~ Held(d) THEN life[d]
                   ELSE IF o.kind = "delete" THEN "deleted"
                   ELSE IF o.kind = "ingest" THEN "ready" ELSE life[d]]
     /\ chunks' = [d \in Documents |->
                     IF ~ Held(d) THEN chunks[d]
                     ELSE IF o.kind = "delete" \/ d \in Textless THEN 0
                     ELSE IF o.kind = "ingest" THEN tries[d] ELSE chunks[d]]
     /\ lock' = Released(p)
     /\ keyShared' = [keyShared EXCEPT ![p] = {}]
     /\ op' = Ended(p)
     /\ found' = [s \in Searches |->
                    IF found[s] # NoHit /\ found[s].doc \in o.marked
                    THEN [found[s] EXCEPT !.stirred = TRUE] ELSE found[s]]
     /\ UNCHANGED <<tries, candidates, qdrantVars, space, torn>>

-----------------------------------------------------------------------------
(* One document: lock, look at the collections, clear, write, record.      *)

\* The embedding_* of a document this session had not loaded before are read
\* under the lock; the ones reindex_tenant loaded are not read again.
Loaded(p) ==
  IF op[p].kind = "tenant" THEN op[p].same
  ELSE {d \in {Doc(p)} : identity[d] = space[p]}

\* Mutant: the row is read without FOR UPDATE.
RowRead(p) == TRUE

RowFree(p) ==
  /\ lock[Doc(p)] = Nobody
  /\ \A q \in Processes \ {p} : Doc(p) \notin keyShared[q]

\* Wait for the row.  A deleted document is nothing to index: the worker and
\* the single reindex stop, the tenant's goes on with the next.
LockRow(p) ==
  LET o == op[p] IN
  /\ At(p, "lock") /\ RowFree(p)
  /\ IF life[Doc(p)] = "deleted" /\ o.kind # "delete"
     THEN IF o.kind = "tenant"
          THEN Continue(p, Advanced(o)) /\ UNCHANGED <<lock, relating, qdrantVars, torn>>
          ELSE Abort(p)
     ELSE /\ lock' = [lock EXCEPT ![Doc(p)] = p]
          /\ Continue(p, [o EXCEPT !.same = Loaded(p),
                            !.at = CASE Reindexing(p) -> "vectors"
                                     [] o.kind = "ingest" -> "ensure"
                                     [] o.kind = "delete" -> "clear"])
          /\ UNCHANGED <<relating, qdrantVars, torn>>

\* Mutant: the size of the document collection is not looked at.
EnsureVectorsLater(p) ==
  /\ At(p, "vectors")
  /\ Continue(p, [op[p] EXCEPT !.at = "ensure"])
  /\ UNCHANGED <<lock, relating, qdrantVars, torn>>

\* ensure_collection on the document vectors: made if missing, refused if it has
\* another size.  A reindex does so before it touches any point.
EnsureVectors(p) ==
  /\ At(p, "vectors")
  /\ IF docWidth \in {0, Dim(p)}
     THEN /\ docWidth' = Dim(p)
          /\ Continue(p, [op[p] EXCEPT !.at = "ensure"])
          /\ UNCHANGED <<lock, relating, points, docVector, width, torn>>
     ELSE Abort(p)

\* index_document: the same for the chunk collection.
EnsureChunks(p) ==
  /\ At(p, "ensure")
  /\ IF width \in {0, Dim(p)}
     THEN /\ width' = Dim(p)
          /\ Continue(p, [op[p] EXCEPT !.at = "clear"])
          /\ UNCHANGED <<lock, relating, points, docVector, docWidth, torn>>
     ELSE Abort(p)

\* The embedding call failed.  Only the tenant's reindex counts it and goes on.
EmbeddingFails(p) ==
  /\ At(p, "clear") /\ op[p].kind = "tenant" /\ ChunksOf(p) # 0
  /\ Continue(p, Advanced(op[p]))
  /\ UNCHANGED <<lock, relating, qdrantVars, torn>>

\* Mutant: nothing is recorded.
Unrecorded(o, d) == o

\* _record_provider: an UPDATE only where the loaded values differ.
Recorded(o, d) == [o EXCEPT !.marked = IF d \in o.same THEN @ ELSE @ \cup {d}]

\* The document's points are removed.  Without chunks this is all there is to do:
\* a single reindex is then refused, the tenant's goes on.
ClearPoints(p) ==
  LET d == Doc(p)
      o == [op[p] EXCEPT !.touched = @ \cup {d}]
      recorded == Recorded(o, d)
  IN /\ At(p, "clear")
     /\ points' = [points EXCEPT ![d] = {}]
     /\ IF o.kind = "reindex" /\ chunks[d] = 0
        THEN /\ op' = Ended(p)
             /\ lock' = Released(p)
             /\ torn' = torn \cup o.touched
             /\ UNCHANGED <<rowVars, space, found>>
        ELSE /\ Continue(p,
                  CASE o.kind = "delete" -> [o EXCEPT !.at = "vector"]
                    [] ChunksOf(p) # 0 /\ o.kind # "delete" -> [o EXCEPT !.at = "upsert"]
                    [] ChunksOf(p) = 0 /\ o.kind = "ingest" -> [recorded EXCEPT !.at = "vector"]
                    [] ChunksOf(p) = 0 /\ o.kind = "tenant" -> Advanced(recorded))
             /\ UNCHANGED <<lock, torn>>
     /\ UNCHANGED <<relating, docVector, width, docWidth>>

\* Qdrant takes the new points if they fit the collection.
UpsertPoints(p) ==
  LET d == Doc(p) IN
  /\ At(p, "upsert")
  /\ IF width = Dim(p)
     THEN /\ points' = [points EXCEPT ![d] = {[chunk |-> ChunksOf(p), space |-> space[p]]}]
          /\ torn' = torn \ {d}
          /\ Continue(p, [Recorded(op[p], d) EXCEPT !.at = "vector"])
          /\ UNCHANGED <<lock, relating, docVector, width, docWidth>>
     ELSE Abort(p)

\* The document vector is removed by a delete and when nothing was embedded,
\* otherwise replaced; whoever writes ensures the collection once more.
WriteVector(p) ==
  LET d == Doc(p)
      gone == op[p].kind = "delete" \/ ChunksOf(p) = 0
  IN /\ At(p, "vector")
     /\ IF op[p].kind = "delete" \/ docWidth \in {0, Dim(p)}
        THEN /\ docWidth' = IF op[p].kind = "delete" THEN docWidth ELSE Dim(p)
             /\ docVector' = [docVector EXCEPT ![d] = IF gone THEN NoSpace ELSE space[p]]
             /\ Continue(p, Advanced(op[p]))
             /\ UNCHANGED <<lock, relating, points, width, torn>>
        ELSE Abort(p)

-----------------------------------------------------------------------------
(* detect_relations, the last step of an ingestion.  A relation that is     *)
(* inserted, in either direction, checks its foreign keys under FOR KEY     *)
(* SHARE on both documents, one of which the ingestion holds anyway; one    *)
(* that is already there is only updated, and locks no document.            *)

\* gather_candidates: the live documents that have a vector near this one's, or the
\* same text.
Candidates(p) ==
  {e \in Documents \ {Doc(p)} :
     /\ life[e] # "deleted"
     /\ \/ docVector[e] # NoSpace /\ ChunksOf(p) # 0
        \/ life[e] = "ready"}

\* Those classify has a verdict on and no relation was drawn to before.
FindCandidates(p) ==
  /\ At(p, "commit") /\ op[p].kind = "ingest"
  /\ candidates[p] = << >> /\ keyShared[p] = {}
  /\ \E S \in SUBSET Candidates(p) \ {{}} :
       \E t \in AnyOrder(S) : candidates' = [candidates EXCEPT ![p] = t]
  /\ UNCHANGED <<rowVars, lock, keyShared, qdrantVars, space, op, found, torn>>

\* The INSERT waits for whoever holds the other document FOR UPDATE.
DrawRelation(p) ==
  /\ candidates[p] # << >>
  /\ lock[Head(candidates[p])] = Nobody
  /\ keyShared' = [keyShared EXCEPT ![p] = @ \cup {Head(candidates[p])}]
  /\ candidates' = [candidates EXCEPT ![p] = Tail(@)]
  /\ UNCHANGED <<rowVars, lock, qdrantVars, space, op, found, torn>>

-----------------------------------------------------------------------------
(* search: Qdrant is asked first, PostgreSQL second.  Every point the      *)
(* query returns is handled by itself; one of them is followed.            *)

Answered(s) == found[s] # NoHit => found[s].shown

\* The point is scored against a query embedded in the space of the search.
Query(s, d) ==
  /\ Answered(s)
  /\ width = Dim(s)
  /\ \E pt \in points[d] :
       found' = [found EXCEPT ![s] =
                   [doc |-> d, chunk |-> pt.chunk, scoredIn |-> pt.space,
                    shown |-> FALSE, stirred |-> d \in torn]]
  /\ UNCHANGED <<rowVars, lock, relating, qdrantVars, space, op, torn>>

\* Mutant: the embedding identity is not looked at.
IsLiveChunk(s, hit) == life[hit.doc] # "deleted" /\ chunks[hit.doc] = hit.chunk

\* Its row is of a live document whose identity is the one of the search.
IsCurrent(s, hit) ==
  /\ life[hit.doc] # "deleted" /\ chunks[hit.doc] = hit.chunk
  /\ identity[hit.doc] = space[s]

Hydrate(s) ==
  /\ ~ Answered(s)
  /\ found' = [found EXCEPT ![s] =
                 IF IsCurrent(s, found[s]) THEN [found[s] EXCEPT !.shown = TRUE] ELSE NoHit]
  /\ UNCHANGED <<rowVars, lock, relating, qdrantVars, space, op, torn>>

-----------------------------------------------------------------------------
(* What operators do.                                                      *)

Resting(q) == IF q \in Processes THEN op[q] = Idle ELSE Answered(q)

\* Programs are stopped and started with another embedding model: all at once,
\* or some while the others go on.  The answers they gave are history.
Redeploy(e) ==
  \E Q \in IF Rolling THEN SUBSET Programs ELSE {Programs} :
    /\ \A q \in Q : Resting(q)
    /\ space' = [q \in Programs |-> IF q \in Q THEN e ELSE space[q]]
    /\ found' = [s \in Searches |-> IF s \in Q THEN NoHit ELSE found[s]]
    /\ UNCHANGED <<rowVars, lock, relating, qdrantVars, op, torn>>

\* The collections are dropped, to be made again by the next write.
DropCollections ==
  /\ width' = 0 /\ docWidth' = 0
  /\ points' = [d \in Documents |-> {}]
  /\ docVector' = [d \in Documents |-> NoSpace]
  /\ torn' = Documents
  /\ UNCHANGED <<rowVars, lock, relating, space, op, found>>

-----------------------------------------------------------------------------
Next ==
  \/ \E p \in Processes, d \in Documents :
       BeginIngest(p, d) \/ BeginReindex(p, d) \/ BeginDelete(p, d)
  \/ \E p \in Processes :
       \/ BeginTenant(p) \/ LockRow(p)
       \/ EnsureVectors(p) \/ EnsureChunks(p) \/ EmbeddingFails(p)
       \/ ClearPoints(p) \/ UpsertPoints(p) \/ WriteVector(p)
       \/ FindCandidates(p) \/ DrawRelation(p)
       \/ Commit(p) \/ Fails(p)
  \/ \E s \in Searches, d \in Documents : Query(s, d)
  \/ \E s \in Searches : Hydrate(s)
  \/ \E e \in Spaces : Redeploy(e)
  \/ DropCollections

Spec == Init /\ [][Next]_vars

-----------------------------------------------------------------------------
(* Properties.                                                             *)

\* The vectors of a ready document are those of the chunks in the table and in
\* the space its row names, however ingestion, both reindexes, deletes, failures
\* and model changes follow each other; only an operation under way or one that
\* was aborted may show anything else.
IndexMatchesRows ==
  \A d \in Documents :
    life[d] = "ready" /\ d \notin torn /\ lock[d] = Nobody =>
      /\ points[d] = IF chunks[d] = 0 THEN {} ELSE {[chunk |-> chunks[d], space |-> identity[d]]}
      /\ docVector[d] = IF chunks[d] = 0 THEN NoSpace ELSE identity[d]
      /\ chunks[d] = 0 <=> d \in Textless

\* No reindex, alone or within the tenant's, brings vectors of a deleted
\* document back, even when it had listed the document before the delete.
DeletedNotIndexed ==
  \A d \in Documents : life[d] = "deleted" => points[d] = {} /\ docVector[d] = NoSpace

\* A reindex under a model of another size stops before it changes any point
\* (app/services/reindexing.py, "Fail closed on an incompatible document-vector
\* collection before rewriting chunk points").
MismatchTouchesNothing ==
  \A p \in Processes :
    Reindexing(p) /\ op[p].at \in {"clear", "upsert"} /\ Doc(p) \notin torn =>
      width = Dim(p) /\ docWidth = Dim(p)

Mixed(s) == found[s] # NoHit /\ found[s].shown /\ found[s].scoredIn # space[s]

\* A search shows a score from a foreign space only if the document was
\* committed by a reindex between the search's two reads, or had been left torn.
MixedOnlyAcrossReindex == \A s \in Searches : Mixed(s) => found[s].stirred

\* Those p waits for: the holder of the row it wants FOR UPDATE, in either mode, or
\* of the one its relation points to.
Awaited(p) ==
  {q \in Processes \ {p} :
     \/ At(p, "lock") /\ (lock[Doc(p)] = q \/ Doc(p) \in keyShared[q])
     \/ candidates[p] # << >> /\ lock[Head(candidates[p])] = q}

\* In every circle of operations that wait for each other's documents there is an
\* ingestion that draws relations.  The tenant's reindex keeps the row of every
\* document it has seen, and only the order of created_at keeps two of them, or one
\* and the reindexes and deletes of single documents, from ending in a circle.
CirclesGoThroughRelations ==
  \A S \in SUBSET Processes :
    S # {} /\ (\A p \in S : Awaited(p) \cap S # {}) => \E p \in S : candidates[p] # << >>
=============================================================================
