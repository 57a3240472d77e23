----------------------------- MODULE Relations -----------------------------
(****************************************************************************)
(* How the documents of a tenant come to be related:                        *)
(* app/services/relations.py and profiling.py inside the attempt of         *)
(* processing.py, and the delete of a document (deletion.py).               *)
(*                                                                          *)
(* An attempt holds FOR UPDATE on its own document. It puts the document's  *)
(* vector into Qdrant, where others see it before the attempt commits and   *)
(* after it fails; its content hash and its profile they see only when it   *)
(* has committed. Each relation is two rows, one for each direction, each   *)
(* written by a statement of its own. Any statement waits for those who     *)
(* have written or removed its row and are not yet committed; one that      *)
(* inserts it waits for the other document too (the foreign key), which     *)
(* another attempt or a delete may hold. So attempts and deletes can wait   *)
(* for each other in a circle; PostgreSQL then fails one of them, which is  *)
(* AttemptFail or DeleteFail here.                                          *)
(****************************************************************************)
EXTENDS Naturals, FiniteSets, Sequences, SequencesExt

CONSTANTS
  Docs,
  Text,             \* document -> its normalized text
  Similarity,       \* pair of documents -> similarity of their vectors, in hundredths
  Profiles,         \* document -> what the model may extract from it
  VERSION_SIMILARITY, RELATED_SIMILARITY, MIN_IDENTIFIERS, MIN_ENTITIES, MAX_CANDIDATES,
  MaxAttempts,      \* bound: attempts begun
  MaxDeletes,       \* bound: deletes begun
  Null

ASSUME RelationsAssumption ==
  /\ IsFiniteSet(Docs)
  /\ Text \in [Docs -> STRING]
  /\ \A d, e \in Docs : d # e => Similarity[{d, e}] \in 0..100
  /\ \A d \in Docs : \A p \in Profiles[d] : DOMAIN p = {"identifiers", "parties", "dates"}
  /\ RELATED_SIMILARITY \in 0..100 /\ VERSION_SIMILARITY \in 0..100
  /\ MIN_IDENTIFIERS \in Nat \ {0} /\ MIN_ENTITIES \in Nat \ {0} /\ MAX_CANDIDATES \in Nat \ {0}

VARIABLES
  docs,             \* document -> its committed row and profile
  vectors,          \* documents with a vector in Qdrant
  edges,            \* document_relations, committed: <<source, target, type>>
  job,              \* document -> the transaction that holds it
  attempts,         \* attempts begun
  deletes,          \* deletes begun
  unseen,           \* history: pairs that were both compared before the other was committed
  late,             \* history: pairs compared before a delete and related after it
  halfway           \* history: documents with a delete that failed

vars == <<docs, vectors, edges, job, attempts, deletes, unseen, late, halfway>>

----------------------------------------------------------------------------
(* The rules. *)

\* classify: the first rule that matches. A similarity of 0 stands for none too,
\* as it is below every threshold.
classify(c) ==
  LET entities == c.parties + c.dates
  IN  IF c.same_file THEN "exact_duplicate"
      ELSE IF c.same_content THEN "content_duplicate"
      ELSE IF c.similarity >= VERSION_SIMILARITY /\ entities >= MIN_ENTITIES THEN "possible_version"
      ELSE IF c.identifiers >= MIN_IDENTIFIERS THEN "same_case"
      ELSE IF c.parties > 0 /\ entities >= MIN_ENTITIES THEN "same_entity"
      ELSE IF c.similarity >= RELATED_SIMILARITY THEN "related"
      ELSE "none"

NoProfile == [identifiers |-> {}, parties |-> {}, dates |-> {}]

\* What documents d and e have in common, e with its committed row and profile.
\* No two live documents of a tenant have the same bytes.
Candidate(d, e, similar) ==
  LET own == job[d].profile
      other == IF docs[e].profile = Null THEN NoProfile ELSE docs[e].profile
  IN  [same_file |-> FALSE,
       same_content |-> docs[e].content = Text[d],
       similarity |-> IF e \in similar THEN Similarity[{d, e}] ELSE 0,
       identifiers |-> Cardinality(own.identifiers \cap other.identifiers),
       parties |-> Cardinality(own.parties \cap other.parties),
       dates |-> Cardinality(own.dates \cap other.dates)]

----------------------------------------------------------------------------
(* State. *)

\* todo: the verdicts that are not yet written, the first of them perhaps in one
\* direction; refers: the document whose row the last INSERT still has to lock;
\* shares: those it has locked; touched: the relations written or removed.
NoJob == [phase |-> "none", profile |-> NoProfile, similar |-> {}, matches |-> {}, todo |-> << >>,
          drawn |-> {}, refers |-> {}, shares |-> {}, touched |-> {}, missed |-> {}]

Held(d) == job[d].phase # "none"

Init ==
  /\ docs = [d \in Docs |-> [status |-> "queued", content |-> Null, profile |-> Null]]
  /\ vectors = {} /\ edges = {}
  /\ job = [d \in Docs |-> NoJob]
  /\ attempts = 0 /\ deletes = 0
  /\ unseen = {} /\ late = {} /\ halfway = {}

Live(d) == docs[d].status # "deleted"

\* FOR UPDATE on document d: nobody holds it, and no relation to it was inserted
\* by a transaction that is still open.
CanLock(d) == ~Held(d) /\ \A e \in Docs : d \notin job[e].shares

----------------------------------------------------------------------------
(* The attempt. *)

\* Mutant: the deletion is not looked at once the lock is there.
AttemptBegin_Deleted(d) ==
  /\ CanLock(d) /\ attempts < MaxAttempts
  /\ attempts' = attempts + 1
  /\ job' = [job EXCEPT ![d].phase = "begun"]
  /\ UNCHANGED <<docs, vectors, edges, deletes, unseen, late, halfway>>

\* The document is locked; one that was deleted is skipped. Its content hash
\* and its chunks are written.
AttemptBegin(d) ==
  /\ CanLock(d) /\ Live(d) /\ attempts < MaxAttempts
  /\ attempts' = attempts + 1
  /\ job' = [job EXCEPT ![d].phase = "begun"]
  /\ UNCHANGED <<docs, vectors, edges, deletes, unseen, late, halfway>>

\* What profile_document may store for the document: the model need not say the
\* same twice, and what it says is in the transaction of the attempt.
profile_document(d) == Profiles[d]

\* The document is profiled and its vector goes to Qdrant (DocumentVectorStore.upsert).
upsert(d) ==
  /\ job[d].phase = "begun"
  /\ vectors' = vectors \cup {d}
  /\ \E p \in profile_document(d) : job' = [job EXCEPT ![d].phase = "indexed", ![d].profile = p]
  /\ UNCHANGED <<docs, edges, attempts, deletes, unseen, late, halfway>>

\* DocumentVectorStore.similar: the nearest MAX_CANDIDATES of the others.
Nearest(d) ==
  LET others == vectors \ {d}
      n == IF Cardinality(others) < MAX_CANDIDATES THEN Cardinality(others) ELSE MAX_CANDIDATES
  IN  {S \in SUBSET others :
         /\ Cardinality(S) = n
         /\ \A e \in S, f \in others \ S : Similarity[{d, e}] >= Similarity[{d, f}]}

\* Mutant: only the nearest are compared.
HashMatches_None(d) == {}

HashMatches(d) == {e \in Docs \ {d} : Live(e) /\ docs[e].content = Text[d]}

\* gather_candidates, first part: who is worth comparing.
find_candidates(d) ==
  /\ job[d].phase = "indexed"
  /\ \E S \in Nearest(d) :
       job' = [job EXCEPT ![d].phase = "found", ![d].similar = S, ![d].matches = HashMatches(d),
                          ![d].missed = {e \in Docs \ {d} : docs[e].content = Null}]
  /\ UNCHANGED <<docs, vectors, edges, attempts, deletes, unseen, late, halfway>>

\* Mutant: the rows of deleted documents are read with the others.
Comparable_All(d) == job[d].similar \cup job[d].matches

Comparable(d) == {e \in job[d].similar \cup job[d].matches : Live(e)}

\* gather_candidates, second part, and the decisions of detect_relations.
compare(d) ==
  /\ job[d].phase = "found"
  /\ LET verdict(e) == classify(Candidate(d, e, job[d].similar))
         drawn == {<<e, verdict(e)>> : e \in {f \in Comparable(d) : verdict(f) # "none"}}
     IN  \E order \in SetToSeqs(drawn) :
           job' = [job EXCEPT ![d].phase = "drawing", ![d].todo = order, ![d].drawn = drawn]
  /\ UNCHANGED <<docs, vectors, edges, attempts, deletes, unseen, late, halfway>>

\* The relation the next statement writes: from the document, then to it.
Statement(d) ==
  LET v == Head(job[d].todo)
  IN  IF <<d, v[1], v[2]>> \in job[d].touched THEN <<v[1], d, v[2]>> ELSE <<d, v[1], v[2]>>

\* Nobody else has written or removed the relation and is still open.
Settled(d, x) == \A f \in Docs \ {d} : x \notin job[f].touched

\* One INSERT ... ON CONFLICT DO UPDATE.
draw(d) ==
  /\ job[d].phase = "drawing" /\ job[d].todo # << >> /\ job[d].refers = {}
  /\ LET x == Statement(d)
     IN  /\ Settled(d, x)
         /\ job' = [job EXCEPT ![d].touched = @ \cup {x},
                              ![d].todo = IF x[1] = d THEN @ ELSE Tail(@),
                              ![d].refers = IF x \in edges THEN {} ELSE {x[1], x[2]} \ ({d} \cup job[d].shares)]
  /\ UNCHANGED <<docs, vectors, edges, attempts, deletes, unseen, late, halfway>>

\* The foreign keys of the row it has inserted: FOR KEY SHARE on the other document.
CheckReferences(d) ==
  /\ \E e \in job[d].refers :
       /\ ~Held(e)
       /\ job' = [job EXCEPT ![d].refers = @ \ {e}, ![d].shares = @ \cup {e}]
  /\ UNCHANGED <<docs, vectors, edges, attempts, deletes, unseen, late, halfway>>

AttemptCommit(d) ==
  /\ job[d].phase = "drawing" /\ job[d].todo = << >> /\ job[d].refers = {}
  /\ docs' = [docs EXCEPT ![d] = [status |-> "ready", content |-> Text[d], profile |-> job[d].profile]]
  /\ edges' = edges \cup job[d].touched
  /\ unseen' = {p \in unseen : d \notin p} \cup {{d, e} : e \in {f \in job[d].missed : docs[f].status = "ready"}}
  /\ job' = [job EXCEPT ![d] = NoJob]
  /\ UNCHANGED <<vectors, attempts, deletes, late, halfway>>

\* A provider fails, or the process is lost: the transaction is rolled back, the
\* vector stays. An attempt that fails before it has stored one leaves nothing.
AttemptFail(d) ==
  /\ job[d].phase \in {"indexed", "drawing"}
  /\ job' = [job EXCEPT ![d] = NoJob]
  /\ UNCHANGED <<docs, vectors, edges, attempts, deletes, unseen, late, halfway>>

----------------------------------------------------------------------------
(* The delete. *)

\* The document is locked, and its vector goes at once.
DeleteBegin(d) ==
  /\ CanLock(d) /\ deletes < MaxDeletes
  /\ deletes' = deletes + 1
  /\ vectors' = vectors \ {d}
  /\ job' = [job EXCEPT ![d].phase = "deleting"]
  /\ UNCHANGED <<docs, edges, attempts, unseen, late, halfway>>

\* Mutant: those from the document.
EdgesFrom(d) == {x \in edges : x[1] = d}

EdgesOf(d) == {x \in edges : d \in {x[1], x[2]}}

\* The DELETE of its relations, in both directions, comes to one of them. While it
\* holds the document nobody can commit a new one.
RemoveRelation(d) ==
  /\ job[d].phase = "deleting"
  /\ \E x \in EdgesOf(d) \ job[d].touched :
       /\ Settled(d, x)
       /\ job' = [job EXCEPT ![d].touched = @ \cup {x}]
  /\ UNCHANGED <<docs, vectors, edges, attempts, deletes, unseen, late, halfway>>

\* The row stays, with its content hash; the profile goes.
DeleteCommit(d) ==
  /\ job[d].phase = "deleting" /\ EdgesOf(d) \subseteq job[d].touched
  /\ docs' = [docs EXCEPT ![d] = [status |-> "deleted", content |-> @.content, profile |-> Null]]
  /\ edges' = edges \ job[d].touched
  /\ late' = late \cup {{d, e} : e \in {f \in Docs : \E v \in job[f].drawn : v[1] = d}}
  /\ job' = [job EXCEPT ![d] = NoJob]
  /\ UNCHANGED <<vectors, attempts, deletes, unseen, halfway>>

DeleteFail(d) ==
  /\ job[d].phase = "deleting"
  /\ halfway' = halfway \cup {d}
  /\ job' = [job EXCEPT ![d] = NoJob]
  /\ UNCHANGED <<docs, vectors, edges, attempts, deletes, unseen, late>>

----------------------------------------------------------------------------

Step(d) ==
  \/ upsert(d) \/ find_candidates(d) \/ compare(d) \/ draw(d) \/ CheckReferences(d)
  \/ AttemptCommit(d) \/ RemoveRelation(d) \/ DeleteCommit(d)

Next ==
  \E d \in Docs :
    AttemptBegin(d) \/ Step(d) \/ AttemptFail(d) \/ DeleteBegin(d) \/ DeleteFail(d)

Spec == Init /\ [][Next]_vars

----------------------------------------------------------------------------
(* Properties. *)

\* relations.py: two documents with the same text that have both been processed
\* are recorded as duplicates, each of the other, however far apart their vectors
\* are ranked; unless neither was committed when the other looked.
DuplicatesFound ==
  \A d, e \in Docs :
    (d # e /\ docs[d].status = "ready" /\ docs[e].status = "ready" /\ Text[d] = Text[e]
     /\ {d, e} \notin unseen)
    => <<d, e, "content_duplicate">> \in edges

\* deletion.py: a deleted document has no relations, except with a document that
\* was compared with it before the delete and committed after it.
DeletedUnrelated ==
  \A x \in edges : (~Live(x[1]) \/ ~Live(x[2])) => {x[1], x[2]} \in late

\* processing.py, deletion.py: a document that is ready can be found by its vector,
\* unless a delete of it failed after the vector had gone; one that is deleted
\* cannot, whatever attempts and deletes of it failed, overlapped or came again.
VectorsFollowDocuments ==
  \A d \in Docs :
    /\ docs[d].status = "ready" /\ ~Held(d) /\ d \notin halfway => d \in vectors
    /\ docs[d].status = "deleted" => d \notin vectors

\* "Relations are written in both directions" (detect_relations): a document is related
\* to another one as the other is to it, although each direction is a row and a
\* statement of its own, and other attempts and deletes write and remove the same
\* rows between any two of them.
RelationsAreMutual == \A x \in edges : <<x[2], x[1], x[3]>> \in edges

\* relations.py, on detect_relations: "Draw this document's relations, replacing
\* the ones it had": after an attempt, the relations of its document are the ones
\* that it drew.
ReplacesTheOnesItHad ==
  [][\A d \in Docs :
      AttemptCommit(d) => \A x \in edges' : x[1] = d => <<x[2], x[3]>> \in job[d].drawn]_vars
=============================================================================
