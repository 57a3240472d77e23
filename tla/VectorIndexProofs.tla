-------------------------- MODULE VectorIndexProofs --------------------------
(***************************************************************************)
(* Proofs about VectorIndex, for any number of documents, embedding        *)
(* spaces, processes and searches.                                         *)
(*                                                                         *)
(* Everything rests on the row locks (LockInv): who writes a document's    *)
(* vectors holds its row, and whoever holds it without deleting it found   *)
(* the document alive.  On top of it the vectors a document has are those  *)
(* of its row, or those the holder of the row has written so far           *)
(* (IndexInv).                                                             *)
(***************************************************************************)
EXTENDS VectorIndex, FiniteSetTheorems, WellFoundedInduction, TLAPS

Steps == {"idle", "lock", "vectors", "ensure", "clear", "upsert", "vector", "commit"}
Kinds == {"none", "ingest", "reindex", "delete", "tenant"}

Op == [kind : Kinds, at : Steps, todo : Seq(Documents),
       same : SUBSET Documents, marked : SUBSET Documents, touched : SUBSET Documents]

Hit == [doc : Documents, chunk : Nat, scoredIn : Spaces, shown : BOOLEAN, stirred : BOOLEAN]

\* The types, and that an operation under way has something to do.
Types ==
  /\ life \in [Documents -> {"queued", "ready", "deleted"}]
  /\ tries \in [Documents -> Nat]
  /\ chunks \in [Documents -> Nat]
  /\ identity \in [Documents -> Spaces \cup {NoSpace}]
  /\ lock \in [Documents -> Processes \cup {Nobody}]
  /\ points \in [Documents -> SUBSET [chunk : Nat, space : Spaces]]
  /\ docVector \in [Documents -> Spaces \cup {NoSpace}]
  /\ width \in Nat /\ docWidth \in Nat
  /\ space \in [Programs -> Spaces]
  /\ op \in [Processes -> Op]
  /\ found \in [Searches -> Hit \cup {NoHit}]
  /\ torn \in SUBSET Documents
  /\ \A p \in Processes :
       IF op[p].at = "idle" THEN op[p] = Idle ELSE op[p].todo # << >> /\ op[p].kind # "none"

-----------------------------------------------------------------------------
(* Drawing relations changes nothing of the index. *)

indexVars == <<rowVars, lock, qdrantVars, space, op, found, torn>>

\* The steps of an operation that has its row.
Progress(p) ==
  \/ EnsureVectors(p) \/ EnsureChunks(p) \/ ClearPoints(p)
  \/ UpsertPoints(p) \/ WriteVector(p) \/ Commit(p)

\* The steps of Next but those that draw relations.
Indexes ==
  \/ \E p \in Processes, d \in Documents :
       BeginIngest(p, d) \/ BeginReindex(p, d) \/ BeginDelete(p, d)
  \/ \E p \in Processes :
       BeginTenant(p) \/ LockRow(p) \/ Progress(p) \/ EmbeddingFails(p) \/ Fails(p)
  \/ \E s \in Searches, d \in Documents : Query(s, d)
  \/ \E s \in Searches : Hydrate(s)
  \/ \E e \in Spaces : Redeploy(e)
  \/ DropCollections

\* The others leave the index as it is.
LEMMA NextMoves == [Next]_vars => Indexes \/ UNCHANGED indexVars
<1>1. ASSUME NEW p \in Processes, FindCandidates(p) \/ DrawRelation(p) PROVE UNCHANGED indexVars
  BY <1>1 DEF FindCandidates, DrawRelation, indexVars
<1>2. Next => Indexes \/ \E p \in Processes : FindCandidates(p) \/ DrawRelation(p)
  BY DEF Next, Indexes, Progress
<1>3. UNCHANGED vars => UNCHANGED indexVars
  BY DEF vars, indexVars
<1>. QED  BY <1>1, <1>2, <1>3

-----------------------------------------------------------------------------
(* What the steps do to the operation that takes them. *)

\* The fields of an operation, all at once.
Is(o, kind, at, todo, same, marked, touched) ==
  /\ o.kind = kind /\ o.at = at /\ o.todo = todo
  /\ o.same = same /\ o.marked = marked /\ o.touched = touched

\* The idle operation.
LEMMA IdleOp == Idle \in Op /\ Is(Idle, "none", "idle", << >>, {}, {}, {})
  BY DEF Idle, Op, Is, Kinds, Steps

\* To the next step.
LEMMA StepFields ==
  ASSUME NEW o \in Op, NEW a \in Steps
  PROVE  /\ [o EXCEPT !.at = a] \in Op
         /\ Is([o EXCEPT !.at = a], o.kind, a, o.todo, o.same, o.marked, o.touched)
  BY DEF Op, Is

\* The row was read.
LEMMA ReadFields ==
  ASSUME NEW o \in Op, NEW a \in Steps, NEW S \in SUBSET Documents
  PROVE  /\ [o EXCEPT !.same = S, !.at = a] \in Op
         /\ Is([o EXCEPT !.same = S, !.at = a], o.kind, a, o.todo, S, o.marked, o.touched)
  BY DEF Op, Is

\* The points were removed.
LEMMA TouchedFields ==
  ASSUME NEW o \in Op, NEW S \in SUBSET Documents
  PROVE  /\ [o EXCEPT !.touched = S] \in Op
         /\ Is([o EXCEPT !.touched = S], o.kind, o.at, o.todo, o.same, o.marked, S)
  BY DEF Op, Is

\* What _record_provider leaves in the session.
Marked(o, d) == IF d \in o.same THEN o.marked ELSE o.marked \cup {d}

\* _record_provider.
LEMMA RecordedFields ==
  ASSUME NEW o \in Op, NEW d \in Documents
  PROVE  /\ Recorded(o, d) \in Op
         /\ Is(Recorded(o, d), o.kind, o.at, o.todo, o.same, Marked(o, d), o.touched)
<1>1. Recorded(o, d) = [o EXCEPT !.marked = Marked(o, d)]
  BY DEF Recorded, Marked, Op
<1>2. Marked(o, d) \in SUBSET Documents
  BY DEF Marked, Op
<1>. QED  BY <1>1, <1>2 DEF Op, Is

\* A sequence is empty when it has no length.
LEMMA EmptySeq == ASSUME NEW t \in Seq(Documents) PROVE Len(t) \in Nat /\ (Len(t) = 0 <=> t = << >>)
  OBVIOUS

\* What is left after the first of several documents.
LEMMA TailSeq ==
  ASSUME NEW t \in Seq(Documents), t # << >>, Len(t) # 1
  PROVE  Tail(t) \in Seq(Documents) /\ Tail(t) # << >>
<1>1. Len(t) \in Nat /\ Len(t) # 0
  BY EmptySeq
<1>2. Tail(t) \in Seq(Documents)
  OBVIOUS
<1>3. Len(Tail(t)) = Len(t) - 1
  BY <1>1
<1>4. Len(Tail(t)) # 0
  BY <1>1, <1>3
<1>. QED  BY <1>2, <1>4, EmptySeq

\* On to the next document, or to the commit.
LEMMA AdvancedFields ==
  ASSUME NEW o \in Op, o.todo # << >>
  PROVE  /\ Advanced(o) \in Op
         /\ \/ /\ Len(o.todo) = 1
               /\ Is(Advanced(o), o.kind, "commit", o.todo, o.same, o.marked, o.touched)
            \/ /\ Len(o.todo) # 1 /\ Tail(o.todo) # << >> /\ Tail(o.todo) \in Seq(Documents)
               /\ Is(Advanced(o), o.kind, "lock", Tail(o.todo), o.same, o.marked, o.touched)
<1>1. o.todo \in Seq(Documents)
  BY DEF Op
<1>2. CASE Len(o.todo) = 1
  <2>1. Advanced(o) = [o EXCEPT !.at = "commit"]
    BY <1>2 DEF Advanced
  <2>. QED  BY <1>2, <2>1, StepFields DEF Steps
<1>3. CASE Len(o.todo) # 1
  <2>1. Tail(o.todo) \in Seq(Documents) /\ Tail(o.todo) # << >>
    BY <1>1, <1>3, TailSeq
  <2>2. Advanced(o) = [o EXCEPT !.todo = Tail(o.todo), !.at = "lock"]
    BY <1>3 DEF Advanced
  <2>3. Advanced(o) \in Op /\ Is(Advanced(o), o.kind, "lock", Tail(o.todo), o.same, o.marked, o.touched)
    BY <2>1, <2>2 DEF Op, Is, Steps
  <2>. QED  BY <1>3, <2>1, <2>3
<1>. QED  BY <1>2, <1>3

\* What Types says of one process and the document at hand.
LEMMA OpType ==
  ASSUME Types, NEW p \in Processes
  PROVE  /\ op[p] \in Op /\ space[p] \in Spaces /\ Dim(p) \in Nat /\ Dim(p) # 0
         /\ op[p].kind \in Kinds /\ op[p].todo \in Seq(Documents)
         /\ op[p].same \subseteq Documents /\ op[p].marked \subseteq Documents /\ op[p].touched \subseteq Documents
         /\ op[p].at # "idle" => /\ op[p].todo # << >> /\ op[p].kind # "none"
                                 /\ Doc(p) \in Documents /\ ChunksOf(p) \in Nat
         /\ op[p].at = "idle" => op[p] = Idle
<1>1. op[p] \in Op /\ space[p] \in Spaces
  BY DEF Types, Programs
<1>2. /\ op[p].kind \in Kinds /\ op[p].todo \in Seq(Documents)
      /\ op[p].same \subseteq Documents /\ op[p].marked \subseteq Documents /\ op[p].touched \subseteq Documents
  BY <1>1 DEF Op
<1>3. Dim(p) \in Nat /\ Dim(p) # 0
  BY <1>1, VectorIndexAssumption DEF Dim
<1>4. ASSUME op[p].at # "idle" PROVE op[p].todo # << >> /\ op[p].kind # "none" /\ Doc(p) \in Documents
  BY <1>2, <1>4 DEF Types, Doc
<1>5. ASSUME op[p].at # "idle" PROVE ChunksOf(p) \in Nat
  BY <1>4, <1>5 DEF Types, ChunksOf
<1>6. op[p].at = "idle" => op[p] = Idle
  BY DEF Types
<1>. QED  BY <1>1, <1>2, <1>3, <1>4, <1>5, <1>6

\* A step of p leaves the operations of the others alone.
Alone(p) == op' \in [Processes -> Op] /\ \A q \in Processes \ {p} : op'[q] = op[q]

\* p goes on to another step with the same document,
Onto(p, at, same, marked, touched) ==
  Alone(p) /\ Is(op'[p], op[p].kind, at, op[p].todo, same, marked, touched)

\* or is through with it,
Through(p, marked, touched) ==
  LET o == op[p] IN
  /\ Alone(p)
  /\ \/ Len(o.todo) = 1 /\ Is(op'[p], o.kind, "commit", o.todo, o.same, marked, touched)
     \/ /\ Len(o.todo) # 1 /\ Tail(o.todo) # << >>
        /\ Is(op'[p], o.kind, "lock", Tail(o.todo), o.same, marked, touched)

\* or ends, and gives back all rows it holds.
Ends(p) ==
  /\ Alone(p) /\ op'[p] = Idle
  /\ lock' \in [Documents -> Processes \cup {Nobody}]
  /\ \A d \in Documents : lock'[d] = IF lock[d] = p THEN Nobody ELSE lock[d]

\* One operation is replaced.
LEMMA Replaced ==
  ASSUME Types, NEW p \in Processes, NEW n \in Op, op' = [op EXCEPT ![p] = n]
  PROVE  Alone(p) /\ op'[p] = n
  BY DEF Types, Alone

\* An operation ends.
LEMMA EndsFields ==
  ASSUME Types, NEW p \in Processes, op' = Ended(p), lock' = Released(p)
  PROVE  Ends(p)
<1>1. Alone(p) /\ op'[p] = Idle
  BY IdleOp, Replaced DEF Ended
<1>2. lock' = [d \in Documents |-> IF lock[d] = p THEN Nobody ELSE lock[d]]
  BY DEF Released
<1>. QED  BY <1>1, <1>2 DEF Ends, Types

\* An operation that fails leaves rows and vectors as they are.
Gone(p) == Ends(p) /\ torn' = torn \cup op[p].touched /\ UNCHANGED <<rowVars, qdrantVars, space, found>>

\* Abort is that.
LEMMA AbortFields == ASSUME Types, NEW p \in Processes, Abort(p) PROVE Gone(p)
  BY EndsFields DEF Abort, Gone

\* An operation begins: it holds nothing.
Begins(p, kind, todo, same) ==
  /\ Alone(p) /\ op[p] = Idle /\ Is(op'[p], kind, "lock", todo, same, {}, {})
  /\ UNCHANGED <<life, chunks, identity, lock, qdrantVars, space, found, torn>>

\* Begin is that.
LEMMA BeginFields ==
  ASSUME Types, NEW p \in Processes, NEW kind \in Kinds, NEW todo \in Seq(Documents),
         NEW same \in SUBSET Documents, Begin(p, kind, todo, same)
  PROVE  Begins(p, kind, todo, same)
<1>. DEFINE n == [Idle EXCEPT !.kind = kind, !.at = "lock", !.todo = todo, !.same = same]
<1>1. n \in Op /\ Is(n, kind, "lock", todo, same, {}, {})
  BY IdleOp DEF Op, Is, Steps
<1>2. op' = [op EXCEPT ![p] = n]
  BY DEF Begin
<1>. HIDE DEF n
<1>3. Alone(p) /\ op'[p] = n
  BY <1>1, <1>2, Replaced
<1>. QED  BY <1>1, <1>3 DEF Begin, Begins

\* The documents are finitely many: they have an order.
LEMMA DocumentsFinite == IsFiniteSet(Documents)
<1>1. /\ Created \in Seq(Documents) /\ Len(Created) \in Nat /\ DOMAIN Created = 1 .. Len(Created)
      /\ {Created[i] : i \in DOMAIN Created} = Documents
  BY VectorIndexAssumption
<1>2. Created \in Surjection(1 .. Len(Created), Documents)
  BY <1>1 DEF Surjection
<1>3. IsFiniteSet(1 .. Len(Created))
  BY <1>1, FS_Interval
<1>. QED  BY <1>2, <1>3, FS_Surjection

\* What reindex_tenant lists is a list of documents, and not an empty one.
LEMMA OrderedType ==
  ASSUME NEW S \in SUBSET Documents, S # {}, NEW t \in Ordered(S)
  PROVE  t \in Seq(Documents) /\ t # << >>
<1>1. IsFiniteSet(S)
  BY DocumentsFinite, FS_Subset
<1>2. Cardinality(S) \in Nat /\ Cardinality(S) # 0
  BY <1>1, FS_CardinalityType, FS_EmptySet
<1>3. t \in [1 .. Cardinality(S) -> S]
  BY DEF Ordered
<1>4. t \in Seq(Documents) /\ Len(t) = Cardinality(S)
  BY <1>2, <1>3
<1>. QED  BY <1>2, <1>4, EmptySeq

\* What the beginnings have in common: an operation has documents, one of them unless
\* it is the tenant's; an attempt is counted before it begins, if it is the only one.
Starts(p, k, t, s) ==
  /\ Begins(p, k, t, s)
  /\ k # "none" /\ t # << >> /\ (k # "tenant" => Len(t) = 1)
  /\ \A d \in s : identity[d] = space[p]
  /\ tries' \in [Documents -> Nat]
  /\ k = "ingest" => tries'[Head(t)] # 0
  /\ \A d \in Documents : tries'[d] # tries[d] =>
       \A q \in Processes : op[q].kind = "ingest" => op[q].todo # <<d>>

\* Every beginning is such.
LEMMA BeginMoves ==
  ASSUME Types, NEW p \in Processes,
         BeginTenant(p) \/ \E d \in Documents : BeginIngest(p, d) \/ BeginReindex(p, d) \/ BeginDelete(p, d)
  PROVE  \E k \in Kinds, t \in Seq(Documents), s \in SUBSET Documents : Starts(p, k, t, s)
<1>. DEFINE Goal == \E k \in Kinds, t \in Seq(Documents), s \in SUBSET Documents : Starts(p, k, t, s)
<1>1. ASSUME BeginTenant(p) PROVE Goal
  <2>. DEFINE ready == {d \in Documents : life[d] = "ready"}
              s == {d \in ready : identity[d] = space[p]}
  <2>1. PICK t \in Ordered(ready) : Begin(p, "tenant", t, s)
    BY <1>1 DEF BeginTenant
  <2>2. t \in Seq(Documents) /\ t # << >>
    BY <1>1, OrderedType DEF BeginTenant
  <2>3. s \in SUBSET Documents /\ \A d \in s : identity[d] = space[p]
    OBVIOUS
  <2>4. tries' = tries /\ tries \in [Documents -> Nat]
    BY <1>1 DEF BeginTenant, Types
  <2>. HIDE DEF s, ready
  <2>5. Begins(p, "tenant", t, s)
    BY <2>1, <2>2, <2>3, BeginFields DEF Kinds
  <2>6. Starts(p, "tenant", t, s)
    BY <2>2, <2>3, <2>4, <2>5 DEF Starts
  <2>. QED  BY <2>2, <2>3, <2>6 DEF Kinds
<1>2. ASSUME NEW d \in Documents, BeginReindex(p, d) \/ BeginDelete(p, d) PROVE  Goal
  <2>1. PICK k \in {"reindex", "delete"} : Begin(p, k, <<d>>, {})
    BY <1>2 DEF BeginReindex, BeginDelete
  <2>2. tries' = tries /\ tries \in [Documents -> Nat]
    BY <1>2 DEF BeginReindex, BeginDelete, Types
  <2>3. <<d>> \in Seq(Documents) /\ <<d>> # << >> /\ Len(<<d>>) = 1
    OBVIOUS
  <2>4. Begins(p, k, <<d>>, {})
    BY <2>1, <2>3, BeginFields DEF Kinds
  <2>5. Starts(p, k, <<d>>, {})
    BY <2>2, <2>3, <2>4 DEF Starts
  <2>. QED  BY <2>3, <2>5 DEF Kinds
<1>3. ASSUME NEW d \in Documents, BeginIngest(p, d) PROVE  Goal
  <2>1. Begin(p, "ingest", <<d>>, {}) /\ \A q \in Processes : op[q].kind = "ingest" => op[q].todo # <<d>>
    BY <1>3 DEF BeginIngest
  <2>2. /\ tries' \in [Documents -> Nat] /\ tries'[d] # 0
        /\ \A e \in Documents \ {d} : tries'[e] = tries[e]
    BY <1>3 DEF BeginIngest, Types
  <2>3. <<d>> \in Seq(Documents) /\ <<d>> # << >> /\ Len(<<d>>) = 1 /\ Head(<<d>>) = d
    OBVIOUS
  <2>4. Begins(p, "ingest", <<d>>, {})
    BY <2>1, <2>3, BeginFields DEF Kinds
  <2>5. Starts(p, "ingest", <<d>>, {})
    BY <2>1, <2>2, <2>3, <2>4 DEF Starts
  <2>. QED  BY <2>3, <2>5 DEF Kinds
<1>. QED  BY <1>1, <1>2, <1>3

\* Continue, to another step of the same document or through with it.
LEMMA ContinueMoves ==
  ASSUME Types, NEW p \in Processes, NEW n \in Op, n.kind = op[p].kind, n.todo = op[p].todo, n.todo # << >>
  PROVE  /\ Continue(p, n) => Onto(p, n.at, n.same, n.marked, n.touched)
         /\ Continue(p, Advanced(n)) /\ n.same = op[p].same => Through(p, n.marked, n.touched)
<1>1. ASSUME Continue(p, n) PROVE Onto(p, n.at, n.same, n.marked, n.touched)
  <2>1. Alone(p) /\ op'[p] = n
    BY <1>1, Replaced DEF Continue
  <2>. QED  BY <2>1 DEF Onto, Is
<1>2. ASSUME Continue(p, Advanced(n)), n.same = op[p].same PROVE Through(p, n.marked, n.touched)
  <2>1. Advanced(n) \in Op
    BY AdvancedFields
  <2>2. Alone(p) /\ op'[p] = Advanced(n)
    BY <1>2, <2>1, Replaced DEF Continue
  <2>. QED  BY <1>2, <2>2, AdvancedFields DEF Through
<1>. QED  BY <1>1, <1>2

\* Nothing but the operation changes.
Still == UNCHANGED <<rowVars, qdrantVars, space, found, torn>>

\* The step a process goes to with a row it has locked.
FirstStep(kind) ==
  CASE kind = "delete" -> "clear" [] kind = "ingest" -> "ensure" [] OTHER -> "vectors"

\* LockRow passes a deleted document over, gives up, or takes the row.
LEMMA LockMoves ==
  ASSUME Types, NEW p \in Processes, LockRow(p)
  PROVE  /\ op[p].at = "lock" /\ lock[Doc(p)] = Nobody /\ Doc(p) \in Documents
         /\ \/ op[p].kind = "tenant" /\ Through(p, op[p].marked, op[p].touched) /\ Still /\ lock' = lock
            \/ Gone(p)
            \/ /\ op[p].kind = "delete" \/ life[Doc(p)] # "deleted"
               /\ lock' = [lock EXCEPT ![Doc(p)] = p] /\ Still
               /\ Onto(p, FirstStep(op[p].kind), Loaded(p), op[p].marked, op[p].touched)
<1>1. op[p].at = "lock" /\ lock[Doc(p)] = Nobody
  BY DEF LockRow, At, RowFree
<1>2. op[p] \in Op /\ op[p].todo # << >> /\ op[p].kind \in Kinds \ {"none"} /\ Doc(p) \in Documents
  BY <1>1, OpType
<1>3. CASE Abort(p)
  BY <1>1, <1>2, <1>3, AbortFields
<1>4. CASE op[p].kind = "tenant" /\ Continue(p, Advanced(op[p])) /\ UNCHANGED <<lock, qdrantVars, torn>>
  <2>1. Through(p, op[p].marked, op[p].touched)
    BY <1>2, <1>4, ContinueMoves
  <2>. QED  BY <1>1, <1>2, <1>4, <2>1 DEF Still, Continue
<1>5. ASSUME ~(life[Doc(p)] = "deleted" /\ op[p].kind # "delete") PROVE
               /\ op[p].kind = "delete" \/ life[Doc(p)] # "deleted"
               /\ lock' = [lock EXCEPT ![Doc(p)] = p] /\ Still
               /\ Onto(p, FirstStep(op[p].kind), Loaded(p), op[p].marked, op[p].touched)
  <2>. DEFINE a == CASE Reindexing(p) -> "vectors" [] op[p].kind = "ingest" -> "ensure"
                     [] op[p].kind = "delete" -> "clear"
              n == [op[p] EXCEPT !.same = Loaded(p), !.at = a]
  <2>1. /\ lock' = [lock EXCEPT ![Doc(p)] = p] /\ Continue(p, n) /\ UNCHANGED <<qdrantVars, torn>>
    BY <1>5 DEF LockRow
  <2>2. a = FirstStep(op[p].kind) /\ a \in Steps
    BY <1>2 DEF Reindexing, FirstStep, Kinds, Steps
  <2>3. Loaded(p) \in SUBSET Documents
    BY <1>2, OpType DEF Loaded
  <2>. HIDE DEF a
  <2>4. n \in Op /\ Is(n, op[p].kind, a, op[p].todo, Loaded(p), op[p].marked, op[p].touched)
    BY <1>2, <2>2, <2>3, ReadFields
  <2>. HIDE DEF n
  <2>5. Onto(p, a, Loaded(p), op[p].marked, op[p].touched)
    BY <1>2, <2>1, <2>4, ContinueMoves DEF Is
  <2>. QED  BY <1>5, <2>1, <2>2, <2>5 DEF Still, Continue
<1>. QED  BY <1>1, <1>2, <1>3, <1>4, <1>5 DEF LockRow

\* From one step to the next.
LEMMA StepMoves ==
  ASSUME Types, NEW p \in Processes, NEW a \in Steps, op[p].at # "idle",
         Continue(p, [op[p] EXCEPT !.at = a])
  PROVE  Onto(p, a, op[p].same, op[p].marked, op[p].touched)
<1>. DEFINE n == [op[p] EXCEPT !.at = a]
<1>1. op[p] \in Op /\ op[p].todo # << >>
  BY OpType
<1>2. n \in Op /\ Is(n, op[p].kind, a, op[p].todo, op[p].same, op[p].marked, op[p].touched)
  BY <1>1, StepFields
<1>. HIDE DEF n
<1>3. Continue(p, n)
  BY DEF n
<1>. QED  BY <1>1, <1>2, <1>3, ContinueMoves DEF Is

\* EnsureVectors refuses a collection of another size.
LEMMA EnsureVectorsMoves ==
  ASSUME Types, NEW p \in Processes, EnsureVectors(p)
  PROVE  /\ op[p].at = "vectors"
         /\ \/ Gone(p)
            \/ /\ docWidth \in {0, Dim(p)} /\ docWidth' = Dim(p)
               /\ Onto(p, "ensure", op[p].same, op[p].marked, op[p].touched)
               /\ UNCHANGED <<rowVars, lock, points, docVector, width, space, found, torn>>
<1>1. op[p].at = "vectors"
  BY DEF EnsureVectors, At
<1>2. CASE docWidth \in {0, Dim(p)}
  BY <1>1, <1>2, StepMoves DEF EnsureVectors, Continue, Steps
<1>3. CASE docWidth \notin {0, Dim(p)}
  BY <1>1, <1>3, AbortFields DEF EnsureVectors
<1>. QED  BY <1>2, <1>3

\* EnsureChunks does the same for the chunk collection.
LEMMA EnsureChunksMoves ==
  ASSUME Types, NEW p \in Processes, EnsureChunks(p)
  PROVE  /\ op[p].at = "ensure"
         /\ \/ Gone(p)
            \/ /\ width \in {0, Dim(p)} /\ width' = Dim(p)
               /\ Onto(p, "clear", op[p].same, op[p].marked, op[p].touched)
               /\ UNCHANGED <<rowVars, lock, points, docVector, docWidth, space, found, torn>>
<1>1. op[p].at = "ensure"
  BY DEF EnsureChunks, At
<1>2. CASE width \in {0, Dim(p)}
  BY <1>1, <1>2, StepMoves DEF EnsureChunks, Continue, Steps
<1>3. CASE width \notin {0, Dim(p)}
  BY <1>1, <1>3, AbortFields DEF EnsureChunks
<1>. QED  BY <1>2, <1>3

\* EmbeddingFails leaves the document as it is.
LEMMA EmbeddingFailsMoves ==
  ASSUME Types, NEW p \in Processes, EmbeddingFails(p)
  PROVE  /\ op[p].at = "clear" /\ op[p].kind = "tenant"
         /\ Through(p, op[p].marked, op[p].touched) /\ Still /\ lock' = lock
<1>1. op[p].at = "clear" /\ op[p].kind = "tenant"
  BY DEF EmbeddingFails, At
<1>2. op[p] \in Op /\ op[p].todo # << >>
  BY <1>1, OpType
<1>3. Through(p, op[p].marked, op[p].touched)
  BY <1>2, ContinueMoves DEF EmbeddingFails
<1>. QED  BY <1>1, <1>3 DEF EmbeddingFails, Continue, Still

\* ClearPoints empties the points. A reindex of a document without chunks ends there, a
\* tenant's goes on, a worker has recorded that nothing is embedded.
LEMMA ClearPointsMoves ==
  ASSUME Types, NEW p \in Processes, ClearPoints(p)
  PROVE  LET o == op[p]
             d == Doc(p)
             t == op[p].touched \cup {Doc(p)}
         IN  /\ o.at = "clear" /\ d \in Documents
             /\ points' = [points EXCEPT ![d] = {}]
             /\ UNCHANGED <<rowVars, docVector, width, docWidth, space, found>>
             /\ \/ o.kind = "reindex" /\ Ends(p) /\ torn' = torn \cup t
                \/ /\ UNCHANGED <<lock, torn>>
                   /\ \/ o.kind = "delete" /\ Onto(p, "vector", o.same, o.marked, t)
                      \/ o.kind # "delete" /\ ChunksOf(p) # 0 /\ Onto(p, "upsert", o.same, o.marked, t)
                      \/ o.kind = "ingest" /\ ChunksOf(p) = 0 /\ Onto(p, "vector", o.same, Marked(o, d), t)
                      \/ o.kind = "tenant" /\ ChunksOf(p) = 0 /\ Through(p, Marked(o, d), t)
<1>. DEFINE d == Doc(p)
            o == [op[p] EXCEPT !.touched = op[p].touched \cup {d}]
            r == Recorded(o, d)
            t == op[p].touched \cup {d}
<1>1. op[p].at = "clear"
  BY DEF ClearPoints, At
<1>2. /\ op[p] \in Op /\ op[p].todo # << >> /\ op[p].kind \in Kinds \ {"none"}
      /\ d \in Documents /\ t \in SUBSET Documents
  BY <1>1, OpType
<1>3. o \in Op /\ Is(o, op[p].kind, "clear", op[p].todo, op[p].same, op[p].marked, t)
  BY <1>1, <1>2, TouchedFields
<1>4. r \in Op /\ Is(r, op[p].kind, "clear", op[p].todo, op[p].same, Marked(op[p], d), t)
  <2>1. Marked(o, d) = Marked(op[p], d)
    BY <1>3 DEF Marked, Is
  <2>. HIDE DEF o
  <2>. QED  BY <1>2, <1>3, <2>1, RecordedFields DEF Is
<1>5. /\ points' = [points EXCEPT ![d] = {}]
      /\ IF o.kind = "reindex" /\ chunks[d] = 0
         THEN /\ op' = Ended(p) /\ lock' = Released(p) /\ torn' = torn \cup o.touched
              /\ UNCHANGED <<rowVars, space, found>>
         ELSE /\ Continue(p,
                   CASE o.kind = "delete" -> [o EXCEPT !.at = "vector"]
                     [] ChunksOf(p) # 0 /\ o.kind # "delete" -> [o EXCEPT !.at = "upsert"]
                     [] ChunksOf(p) = 0 /\ o.kind = "ingest" -> [r EXCEPT !.at = "vector"]
                     [] ChunksOf(p) = 0 /\ o.kind = "tenant" -> Advanced(r))
              /\ UNCHANGED <<lock, torn>>
      /\ UNCHANGED <<docVector, width, docWidth>>
  BY DEF ClearPoints
<1>. HIDE DEF o, r
<1>6. o.kind = op[p].kind /\ o.touched = t
  BY <1>3 DEF Is
<1>7. CASE op[p].kind = "reindex" /\ chunks[d] = 0
  BY <1>1, <1>2, <1>5, <1>6, <1>7, EndsFields
<1>8. CASE ~(op[p].kind = "reindex" /\ chunks[d] = 0)
  <2>1. /\ UNCHANGED <<rowVars, docVector, width, docWidth, space, found, lock, torn>>
    BY <1>5, <1>6, <1>8 DEF Continue
  <2>2. op[p].kind # "ingest" => ChunksOf(p) = chunks[d]
    BY DEF ChunksOf
  <2>3. CASE op[p].kind = "delete"
    <3>. DEFINE n == [o EXCEPT !.at = "vector"]
    <3>1. Continue(p, n)
      BY <1>5, <1>6, <2>3
    <3>2. n \in Op /\ Is(n, op[p].kind, "vector", op[p].todo, op[p].same, op[p].marked, t)
      BY <1>3, StepFields DEF Is, Steps
    <3>. HIDE DEF n
    <3>3. Onto(p, "vector", op[p].same, op[p].marked, t)
      BY <1>2, <3>1, <3>2, ContinueMoves DEF Is
    <3>. QED  BY <1>1, <1>2, <1>5, <2>1, <2>3, <3>3
  <2>4. CASE op[p].kind # "delete" /\ ChunksOf(p) # 0
    <3>. DEFINE n == [o EXCEPT !.at = "upsert"]
    <3>1. Continue(p, n)
      BY <1>5, <1>6, <1>8, <2>4
    <3>2. n \in Op /\ Is(n, op[p].kind, "upsert", op[p].todo, op[p].same, op[p].marked, t)
      BY <1>3, StepFields DEF Is, Steps
    <3>. HIDE DEF n
    <3>3. Onto(p, "upsert", op[p].same, op[p].marked, t)
      BY <1>2, <3>1, <3>2, ContinueMoves DEF Is
    <3>. QED  BY <1>1, <1>2, <1>5, <2>1, <2>4, <3>3
  <2>5. CASE op[p].kind = "ingest" /\ ChunksOf(p) = 0
    <3>. DEFINE n == [r EXCEPT !.at = "vector"]
    <3>1. Continue(p, n)
      BY <1>5, <1>6, <2>5
    <3>2. n \in Op /\ Is(n, op[p].kind, "vector", op[p].todo, op[p].same, Marked(op[p], d), t)
      BY <1>4, StepFields DEF Is, Steps
    <3>. HIDE DEF n
    <3>3. Onto(p, "vector", op[p].same, Marked(op[p], d), t)
      BY <1>2, <3>1, <3>2, ContinueMoves DEF Is
    <3>. QED  BY <1>1, <1>2, <1>5, <2>1, <2>5, <3>3
  <2>6. CASE op[p].kind = "tenant" /\ ChunksOf(p) = 0
    <3>1. Continue(p, Advanced(r))
      BY <1>5, <1>6, <2>6
    <3>2. Through(p, Marked(op[p], d), t)
      BY <1>2, <1>4, <3>1, ContinueMoves DEF Is
    <3>. QED  BY <1>1, <1>2, <1>5, <2>1, <2>6, <3>2
  <2>. QED  BY <1>2, <1>8, <2>2, <2>3, <2>4, <2>5, <2>6 DEF Kinds
<1>. QED  BY <1>7, <1>8

\* UpsertPoints writes the points of the chunks in the space of the program.
LEMMA UpsertPointsMoves ==
  ASSUME Types, NEW p \in Processes, UpsertPoints(p)
  PROVE  LET o == op[p]
             d == Doc(p)
         IN  /\ o.at = "upsert" /\ d \in Documents
             /\ \/ Gone(p)
                \/ /\ width = Dim(p)
                   /\ points' = [points EXCEPT ![d] = {[chunk |-> ChunksOf(p), space |-> space[p]]}]
                   /\ torn' = torn \ {d}
                   /\ Onto(p, "vector", o.same, Marked(o, d), o.touched)
                   /\ UNCHANGED <<rowVars, lock, docVector, width, docWidth, space, found>>
<1>. DEFINE d == Doc(p)
            r == Recorded(op[p], d)
            n == [r EXCEPT !.at = "vector"]
<1>1. op[p].at = "upsert"
  BY DEF UpsertPoints, At
<1>2. op[p] \in Op /\ op[p].todo # << >> /\ d \in Documents
  BY <1>1, OpType
<1>3. CASE width # Dim(p)
  BY <1>1, <1>2, <1>3, AbortFields DEF UpsertPoints
<1>4. CASE width = Dim(p)
  <2>1. /\ points' = [points EXCEPT ![d] = {[chunk |-> ChunksOf(p), space |-> space[p]]}]
        /\ torn' = torn \ {d}
        /\ Continue(p, n)
        /\ UNCHANGED <<lock, docVector, width, docWidth>>
    BY <1>4 DEF UpsertPoints
  <2>2. r \in Op /\ Is(r, op[p].kind, op[p].at, op[p].todo, op[p].same, Marked(op[p], d), op[p].touched)
    BY <1>2, RecordedFields
  <2>. HIDE DEF r
  <2>3. n \in Op /\ Is(n, op[p].kind, "vector", op[p].todo, op[p].same, Marked(op[p], d), op[p].touched)
    BY <2>2, StepFields DEF Is, Steps
  <2>. HIDE DEF n
  <2>4. Onto(p, "vector", op[p].same, Marked(op[p], d), op[p].touched)
    BY <1>2, <2>1, <2>3, ContinueMoves DEF Is
  <2>. QED  BY <1>1, <1>2, <1>4, <2>1, <2>4 DEF Continue
<1>. QED  BY <1>3, <1>4

\* WriteVector replaces or removes the document vector.
LEMMA WriteVectorMoves ==
  ASSUME Types, NEW p \in Processes, WriteVector(p)
  PROVE  LET o == op[p]
             d == Doc(p)
         IN  /\ o.at = "vector" /\ d \in Documents
             /\ \/ Gone(p)
                \/ /\ o.kind = "delete" \/ docWidth \in {0, Dim(p)}
                   /\ docWidth' = IF o.kind = "delete" THEN docWidth ELSE Dim(p)
                   /\ docVector' = [docVector EXCEPT ![d] =
                        IF o.kind = "delete" \/ ChunksOf(p) = 0 THEN NoSpace ELSE space[p]]
                   /\ Through(p, o.marked, o.touched)
                   /\ UNCHANGED <<rowVars, lock, points, width, space, found, torn>>
<1>1. op[p].at = "vector"
  BY DEF WriteVector, At
<1>2. op[p] \in Op /\ op[p].todo # << >> /\ Doc(p) \in Documents
  BY <1>1, OpType
<1>3. CASE op[p].kind = "delete" \/ docWidth \in {0, Dim(p)}
  <2>1. Continue(p, Advanced(op[p]))
    BY <1>3 DEF WriteVector
  <2>2. Through(p, op[p].marked, op[p].touched)
    BY <1>2, <2>1, ContinueMoves
  <2>. QED  BY <1>1, <1>2, <1>3, <2>1, <2>2 DEF WriteVector, Continue
<1>4. CASE ~(op[p].kind = "delete" \/ docWidth \in {0, Dim(p)})
  BY <1>1, <1>2, <1>4, AbortFields DEF WriteVector
<1>. QED  BY <1>3, <1>4

\* What a commit of p makes of the row of d.
Committed(p, d) ==
  LET o == op[p] IN
  /\ identity'[d] = IF d \in o.marked THEN space[p] ELSE identity[d]
  /\ lock[d] # p => life'[d] = life[d] /\ chunks'[d] = chunks[d]
  /\ lock[d] = p =>
       /\ life'[d] = CASE o.kind = "delete" -> "deleted" [] o.kind = "ingest" -> "ready" [] OTHER -> life[d]
       /\ chunks'[d] = IF o.kind = "delete" \/ d \in Textless THEN 0
                       ELSE IF o.kind = "ingest" THEN tries[d] ELSE chunks[d]

\* Commit, and what it does to the searches under way.
LEMMA CommitMoves ==
  ASSUME Types, NEW p \in Processes, Commit(p)
  PROVE  /\ op[p].at = "commit" /\ Ends(p)
         /\ UNCHANGED <<tries, qdrantVars, space, torn>>
         /\ \A d \in Documents : Committed(p, d)
         /\ life' \in [Documents -> {"queued", "ready", "deleted"}]
         /\ chunks' \in [Documents -> Nat]
         /\ identity' \in [Documents -> Spaces \cup {NoSpace}]
         /\ found' \in [Searches -> Hit \cup {NoHit}]
         /\ \A s \in Searches :
              \/ found[s] = NoHit /\ found'[s] = NoHit
              \/ /\ found[s] \in Hit /\ found'[s] \in Hit
                 /\ found'[s].doc = found[s].doc /\ found'[s].shown = found[s].shown
                 /\ found'[s].scoredIn = found[s].scoredIn
                 /\ found'[s].stirred = (found[s].stirred \/ found[s].doc \in op[p].marked)
<1>1. op[p].at = "commit" /\ UNCHANGED <<tries, qdrantVars, space, torn>>
  BY DEF Commit
<1>2. Ends(p)
  BY EndsFields DEF Commit
<1>3. ASSUME NEW d \in Documents PROVE Committed(p, d)
  BY DEF Commit, Committed
<1>4. ASSUME NEW s \in Searches
      PROVE  \/ found[s] = NoHit /\ found'[s] = NoHit
             \/ /\ found[s] \in Hit /\ found'[s] \in Hit
                /\ found'[s].doc = found[s].doc /\ found'[s].shown = found[s].shown
                /\ found'[s].scoredIn = found[s].scoredIn
                /\ found'[s].stirred = (found[s].stirred \/ found[s].doc \in op[p].marked)
  <2>1. found'[s] = IF found[s] # NoHit /\ found[s].doc \in op[p].marked
                    THEN [found[s] EXCEPT !.stirred = TRUE] ELSE found[s]
    BY DEF Commit
  <2>2. found[s] = NoHit \/ found[s] \in Hit
    BY DEF Types
  <2>3. CASE found[s] = NoHit
    BY <2>1, <2>3
  <2>4. CASE found[s] # NoHit /\ found[s].doc \in op[p].marked
    <3>1. found'[s] = [found[s] EXCEPT !.stirred = TRUE] /\ found[s] \in Hit
      BY <2>1, <2>2, <2>4
    <3>2. found'[s] \in Hit
      BY <3>1 DEF Hit
    <3>3. /\ found'[s].doc = found[s].doc /\ found'[s].shown = found[s].shown
          /\ found'[s].scoredIn = found[s].scoredIn /\ found'[s].stirred = TRUE
      BY <3>1 DEF Hit
    <3>. QED  BY <2>4, <3>1, <3>2, <3>3
  <2>5. CASE found[s] # NoHit /\ found[s].doc \notin op[p].marked
    <3>1. found'[s] = found[s] /\ found[s] \in Hit /\ found[s].stirred \in BOOLEAN
      BY <2>1, <2>2, <2>5 DEF Hit
    <3>. QED  BY <2>5, <3>1
  <2>. QED  BY <2>3, <2>4, <2>5
<1>5. life' \in [Documents -> {"queued", "ready", "deleted"}]
  BY DEF Commit, Types
<1>6. chunks' \in [Documents -> Nat]
  BY DEF Commit, Types
<1>7. identity' \in [Documents -> Spaces \cup {NoSpace}]
  BY OpType DEF Commit, Types
<1>8. found' \in [Searches -> Hit \cup {NoHit}]
  <2>1. found' = [s \in Searches |-> found'[s]]
    BY DEF Commit
  <2>2. \A s \in Searches : found'[s] \in Hit \cup {NoHit}
    BY <1>4
  <2>. QED  BY <2>1, <2>2
<1>. QED  BY <1>1, <1>2, <1>3, <1>4, <1>5, <1>6, <1>7, <1>8

-----------------------------------------------------------------------------
(* Types. *)

\* The conjuncts of Types that speak of operations.
OpTypes ==
  /\ op \in [Processes -> Op]
  /\ \A p \in Processes :
       IF op[p].at = "idle" THEN op[p] = Idle ELSE op[p].todo # << >> /\ op[p].kind # "none"

\* Whatever a process does to its operation, it has its type.
LEMMA OpTypesKept ==
  ASSUME Types, NEW p \in Processes, Alone(p),
         \/ op'[p] = Idle
         \/ op'[p].at # "idle" /\ op'[p].todo # << >> /\ op'[p].kind # "none"
  PROVE  OpTypes'
<1>1. Idle.at = "idle"
  BY IdleOp DEF Is
<1>2. ASSUME NEW q \in Processes
      PROVE  IF op'[q].at = "idle" THEN op'[q] = Idle ELSE op'[q].todo # << >> /\ op'[q].kind # "none"
  <2>1. CASE q = p
    BY <1>1, <2>1
  <2>2. CASE q # p
    BY <2>2 DEF Types, Alone
  <2>. QED  BY <2>1, <2>2
<1>. QED  BY <1>2 DEF OpTypes, Alone

\* It goes on, is through with a document, or ends.
LEMMA MovesKeepOpTypes ==
  ASSUME Types, NEW p \in Processes, NEW m, NEW c, NEW s
  PROVE  /\ op[p].at # "idle" => \A a : Onto(p, a, s, m, c) /\ a # "idle" => OpTypes'
         /\ op[p].at # "idle" /\ Through(p, m, c) => OpTypes'
         /\ Ends(p) => OpTypes'
<1>1. op[p].at # "idle" => op[p].todo # << >> /\ op[p].kind # "none"
  BY OpType
<1>2. ASSUME op[p].at # "idle", NEW a, Onto(p, a, s, m, c), a # "idle" PROVE OpTypes'
  BY <1>1, <1>2, OpTypesKept DEF Onto, Is
<1>3. ASSUME op[p].at # "idle", Through(p, m, c) PROVE OpTypes'
  BY <1>1, <1>3, OpTypesKept DEF Through, Is
<1>4. Ends(p) => OpTypes'
  BY OpTypesKept DEF Ends
<1>. QED  BY <1>2, <1>3, <1>4

\* The first state has its type.
LEMMA TypesInit == Init => Types
<1>. SUFFICES ASSUME Init PROVE Types
  OBVIOUS
<1>1. Idle \in Op /\ Idle.at = "idle"
  BY IdleOp DEF Is
<1>2. op = [p \in Processes |-> Idle]
  BY DEF Init
<1>3. OpTypes
  BY <1>1, <1>2 DEF OpTypes
<1>4. space \in [Programs -> Spaces]
  BY DEF Init
<1>. QED  BY <1>3, <1>4 DEF Init, Types, OpTypes

\* An operation that fails keeps the types.
LEMMA GoneTypes == ASSUME Types, NEW p \in Processes, Gone(p) PROVE Types'
<1>1. OpTypes'
  BY MovesKeepOpTypes DEF Gone
<1>2. lock' \in [Documents -> Processes \cup {Nobody}]
  BY DEF Gone, Ends
<1>3. torn' \in SUBSET Documents
  BY OpType DEF Gone, Types
<1>. QED  BY <1>1, <1>2, <1>3 DEF Gone, Types, OpTypes, rowVars, qdrantVars

\* Every step of an operation keeps them.
LEMMA OperationTypes ==
  ASSUME Types, NEW p \in Processes,
         \/ BeginTenant(p) \/ \E d \in Documents : BeginIngest(p, d) \/ BeginReindex(p, d) \/ BeginDelete(p, d)
         \/ LockRow(p) \/ Progress(p) \/ EmbeddingFails(p) \/ Fails(p)
  PROVE  Types'
<1>. USE DEF rowVars, qdrantVars
<1>1. ASSUME BeginTenant(p) \/ \E d \in Documents : BeginIngest(p, d) \/ BeginReindex(p, d) \/ BeginDelete(p, d)
      PROVE  Types'
  <2>1. PICK k \in Kinds, t \in Seq(Documents), s \in SUBSET Documents : Starts(p, k, t, s)
    BY <1>1, BeginMoves
  <2>2. OpTypes'
    BY <2>1, OpTypesKept DEF Starts, Begins, Is
  <2>. QED  BY <2>1, <2>2 DEF Starts, Begins, Types, OpTypes
<1>2. CASE Gone(p)
  BY <1>2, GoneTypes
<1>3. CASE LockRow(p)
  <2>1. op[p].at = "lock" /\ Doc(p) \in Documents
    BY <1>3, LockMoves
  <2>2. CASE Through(p, op[p].marked, op[p].touched) /\ Still /\ lock' = lock
    <3>1. OpTypes'
      BY <2>1, <2>2, MovesKeepOpTypes
    <3>. QED  BY <2>2, <3>1 DEF Still, Types, OpTypes
  <2>3. CASE /\ lock' = [lock EXCEPT ![Doc(p)] = p] /\ Still
             /\ Onto(p, FirstStep(op[p].kind), Loaded(p), op[p].marked, op[p].touched)
    <3>1. FirstStep(op[p].kind) # "idle"
      BY DEF FirstStep
    <3>2. OpTypes'
      BY <2>1, <2>3, <3>1, MovesKeepOpTypes
    <3>3. lock' \in [Documents -> Processes \cup {Nobody}]
      BY <2>3 DEF Types
    <3>. QED  BY <2>3, <3>2, <3>3 DEF Still, Types, OpTypes
  <2>. QED  BY <1>2, <1>3, <2>2, <2>3, LockMoves
<1>4. CASE EnsureVectors(p)
  <2>1. CASE /\ docWidth' = Dim(p)
             /\ Onto(p, "ensure", op[p].same, op[p].marked, op[p].touched)
             /\ UNCHANGED <<rowVars, lock, points, docVector, width, space, found, torn>>
    <3>1. OpTypes' /\ Dim(p) \in Nat
      BY <1>4, <2>1, EnsureVectorsMoves, MovesKeepOpTypes, OpType
    <3>. QED  BY <2>1, <3>1 DEF Types, OpTypes
  <2>. QED  BY <1>2, <1>4, <2>1, EnsureVectorsMoves
<1>5. CASE EnsureChunks(p)
  <2>1. CASE /\ width' = Dim(p)
             /\ Onto(p, "clear", op[p].same, op[p].marked, op[p].touched)
             /\ UNCHANGED <<rowVars, lock, points, docVector, docWidth, space, found, torn>>
    <3>1. OpTypes' /\ Dim(p) \in Nat
      BY <1>5, <2>1, EnsureChunksMoves, MovesKeepOpTypes, OpType
    <3>. QED  BY <2>1, <3>1 DEF Types, OpTypes
  <2>. QED  BY <1>2, <1>5, <2>1, EnsureChunksMoves
<1>6. CASE EmbeddingFails(p)
  <2>1. OpTypes'
    BY <1>6, EmbeddingFailsMoves, MovesKeepOpTypes
  <2>. QED  BY <1>6, <2>1, EmbeddingFailsMoves DEF Still, Types, OpTypes
<1>7. CASE ClearPoints(p)
  <2>. DEFINE t == op[p].touched \cup {Doc(p)}
  <2>1. /\ op[p].at = "clear" /\ Doc(p) \in Documents /\ points' = [points EXCEPT ![Doc(p)] = {}]
        /\ UNCHANGED <<rowVars, docVector, width, docWidth, space, found>>
    BY <1>7, ClearPointsMoves
  <2>2. t \in SUBSET Documents
    BY <2>1, OpType
  <2>3. \/ Ends(p) /\ torn' = torn \cup t
        \/ UNCHANGED <<lock, torn>> /\ OpTypes'
    BY <1>7, <2>1, ClearPointsMoves, MovesKeepOpTypes
  <2>4. OpTypes'
    BY <2>3, MovesKeepOpTypes
  <2>5. lock' \in [Documents -> Processes \cup {Nobody}] /\ torn' \in SUBSET Documents
    BY <2>2, <2>3 DEF Ends, Types
  <2>6. points' \in [Documents -> SUBSET [chunk : Nat, space : Spaces]]
    BY <2>1 DEF Types
  <2>. QED  BY <2>1, <2>4, <2>5, <2>6 DEF Types, OpTypes
<1>8. CASE UpsertPoints(p)
  <2>. DEFINE pt == [chunk |-> ChunksOf(p), space |-> space[p]]
  <2>1. CASE /\ points' = [points EXCEPT ![Doc(p)] = {pt}]
             /\ torn' = torn \ {Doc(p)}
             /\ Onto(p, "vector", op[p].same, Marked(op[p], Doc(p)), op[p].touched)
             /\ UNCHANGED <<rowVars, lock, docVector, width, docWidth, space, found>>
    <3>1. op[p].at = "upsert" /\ Doc(p) \in Documents
      BY <1>8, UpsertPointsMoves
    <3>2. OpTypes'
      BY <2>1, <3>1, MovesKeepOpTypes
    <3>3. pt \in [chunk : Nat, space : Spaces]
      BY <3>1, OpType
    <3>. HIDE DEF pt
    <3>4. points' \in [Documents -> SUBSET [chunk : Nat, space : Spaces]]
      BY <2>1, <3>3 DEF Types
    <3>. QED  BY <2>1, <3>2, <3>4 DEF Types, OpTypes
  <2>. QED  BY <1>2, <1>8, <2>1, UpsertPointsMoves
<1>9. CASE WriteVector(p)
  <2>. DEFINE v == IF op[p].kind = "delete" \/ ChunksOf(p) = 0 THEN NoSpace ELSE space[p]
              w == IF op[p].kind = "delete" THEN docWidth ELSE Dim(p)
  <2>1. CASE /\ docWidth' = w /\ docVector' = [docVector EXCEPT ![Doc(p)] = v]
             /\ Through(p, op[p].marked, op[p].touched)
             /\ UNCHANGED <<rowVars, lock, points, width, space, found, torn>>
    <3>1. op[p].at = "vector" /\ Doc(p) \in Documents
      BY <1>9, WriteVectorMoves
    <3>2. OpTypes'
      BY <2>1, <3>1, MovesKeepOpTypes
    <3>3. v \in Spaces \cup {NoSpace} /\ w \in Nat
      BY OpType DEF Types
    <3>. HIDE DEF v, w
    <3>4. docVector' \in [Documents -> Spaces \cup {NoSpace}] /\ docWidth' \in Nat
      BY <2>1, <3>3 DEF Types
    <3>. QED  BY <2>1, <3>2, <3>4 DEF Types, OpTypes
  <2>. QED  BY <1>2, <1>9, <2>1, WriteVectorMoves
<1>10. CASE Commit(p)
  <2>1. OpTypes' /\ lock' \in [Documents -> Processes \cup {Nobody}]
    BY <1>10, CommitMoves, MovesKeepOpTypes DEF Ends
  <2>. QED  BY <1>10, <2>1, CommitMoves DEF Types, OpTypes
<1>11. CASE Fails(p)
  BY <1>2, <1>11, AbortFields DEF Fails
<1>. QED
  BY <1>1, <1>3, <1>4, <1>5, <1>6, <1>7, <1>8, <1>9, <1>10, <1>11 DEF Progress

\* What searches see and operators do.
LEMMA OtherMoves ==
  ASSUME Types
  PROVE  /\ \A s \in Searches, d \in Documents : Query(s, d) =>
              /\ UNCHANGED <<rowVars, lock, qdrantVars, space, op, torn>>
              /\ \A r \in Searches \ {s} : found'[r] = found[r]
              /\ found' \in [Searches -> Hit \cup {NoHit}] /\ found'[s] \in Hit
              /\ found'[s].doc = d /\ found'[s].shown = FALSE /\ found'[s].stirred = (d \in torn)
              /\ \E pt \in points[d] : found'[s].scoredIn = pt.space
         /\ \A s \in Searches : Hydrate(s) =>
              /\ UNCHANGED <<rowVars, lock, qdrantVars, space, op, torn>>
              /\ \A r \in Searches \ {s} : found'[r] = found[r]
              /\ found' \in [Searches -> Hit \cup {NoHit}]
              /\ found[s] \in Hit
              /\ \/ found'[s] = NoHit
                 \/ /\ IsCurrent(s, found[s]) /\ found'[s] \in Hit
                    /\ found'[s].doc = found[s].doc /\ found'[s].stirred = found[s].stirred
                    /\ found'[s].scoredIn = found[s].scoredIn
         /\ \A e \in Spaces : Redeploy(e) =>
              /\ UNCHANGED <<rowVars, lock, qdrantVars, op, torn>>
              /\ space' \in [Programs -> Spaces] /\ found' \in [Searches -> Hit \cup {NoHit}]
              /\ \A p \in Processes : op[p] # Idle => space'[p] = space[p]
<1>1. ASSUME NEW s \in Searches, NEW d \in Documents, Query(s, d)
      PROVE  /\ UNCHANGED <<rowVars, lock, qdrantVars, space, op, torn>>
             /\ \A r \in Searches \ {s} : found'[r] = found[r]
             /\ found' \in [Searches -> Hit \cup {NoHit}] /\ found'[s] \in Hit
             /\ found'[s].doc = d /\ found'[s].shown = FALSE /\ found'[s].stirred = (d \in torn)
             /\ \E pt \in points[d] : found'[s].scoredIn = pt.space
  <2>1. PICK pt \in points[d] :
          found' = [found EXCEPT ![s] = [doc |-> d, chunk |-> pt.chunk, scoredIn |-> pt.space,
                                         shown |-> FALSE, stirred |-> d \in torn]]
    BY <1>1 DEF Query
  <2>. DEFINE h == [doc |-> d, chunk |-> pt.chunk, scoredIn |-> pt.space, shown |-> FALSE, stirred |-> d \in torn]
  <2>2. pt \in [chunk : Nat, space : Spaces]
    BY DEF Types
  <2>3. /\ h \in Hit /\ h.doc = d /\ h.shown = FALSE /\ h.stirred = (d \in torn) /\ h.scoredIn = pt.space
    BY <2>2 DEF Hit
  <2>. HIDE DEF h
  <2>4. found' = [found EXCEPT ![s] = h]
    BY <2>1 DEF h
  <2>5. /\ \A r \in Searches \ {s} : found'[r] = found[r]
        /\ found' \in [Searches -> Hit \cup {NoHit}] /\ found'[s] = h
    BY <2>3, <2>4 DEF Types
  <2>. QED  BY <1>1, <2>3, <2>5 DEF Query
<1>2. ASSUME NEW s \in Searches, Hydrate(s)
      PROVE  /\ UNCHANGED <<rowVars, lock, qdrantVars, space, op, torn>>
             /\ \A r \in Searches \ {s} : found'[r] = found[r]
             /\ found' \in [Searches -> Hit \cup {NoHit}]
             /\ found[s] \in Hit
             /\ \/ found'[s] = NoHit
                \/ /\ IsCurrent(s, found[s]) /\ found'[s] \in Hit
                   /\ found'[s].doc = found[s].doc /\ found'[s].stirred = found[s].stirred
                   /\ found'[s].scoredIn = found[s].scoredIn
  <2>. DEFINE h == [found[s] EXCEPT !.shown = TRUE]
              n == IF IsCurrent(s, found[s]) THEN h ELSE NoHit
  <2>1. found[s] \in Hit /\ found' = [found EXCEPT ![s] = n]
    BY <1>2 DEF Hydrate, Answered, Types
  <2>2. /\ h \in Hit /\ h.doc = found[s].doc /\ h.stirred = found[s].stirred /\ h.scoredIn = found[s].scoredIn
    BY <2>1 DEF Hit
  <2>. HIDE DEF h
  <2>3. n \in Hit \cup {NoHit}
    BY <2>2
  <2>. HIDE DEF n
  <2>4. /\ \A r \in Searches \ {s} : found'[r] = found[r]
        /\ found' \in [Searches -> Hit \cup {NoHit}] /\ found'[s] = n
    BY <2>1, <2>3 DEF Types
  <2>. QED  BY <1>2, <2>1, <2>2, <2>4 DEF Hydrate, n
<1>3. ASSUME NEW e \in Spaces, Redeploy(e)
      PROVE  /\ UNCHANGED <<rowVars, lock, qdrantVars, op, torn>>
             /\ space' \in [Programs -> Spaces] /\ found' \in [Searches -> Hit \cup {NoHit}]
             /\ \A p \in Processes : op[p] # Idle => space'[p] = space[p]
  <2>1. PICK Q \in SUBSET Programs :
          /\ \A q \in Q : Resting(q)
          /\ space' = [q \in Programs |-> IF q \in Q THEN e ELSE space[q]]
          /\ found' = [s \in Searches |-> IF s \in Q THEN NoHit ELSE found[s]]
          /\ UNCHANGED <<rowVars, lock, qdrantVars, op, torn>>
    BY <1>3 DEF Redeploy
  <2>2. space' \in [Programs -> Spaces] /\ found' \in [Searches -> Hit \cup {NoHit}]
    BY <2>1 DEF Types
  <2>3. \A p \in Processes : op[p] # Idle => space'[p] = space[p]
    BY <2>1 DEF Resting, Programs
  <2>. QED  BY <2>1, <2>2, <2>3
<1>. QED  BY <1>1, <1>2, <1>3

\* Every step keeps the types.
LEMMA TypesNext == Types /\ [Next]_vars => Types'
<1>. SUFFICES ASSUME Types, [Next]_vars PROVE Types'
  OBVIOUS
<1>. USE DEF rowVars, qdrantVars
<1>1. ASSUME NEW p \in Processes,
             \/ BeginTenant(p) \/ \E d \in Documents : BeginIngest(p, d) \/ BeginReindex(p, d) \/ BeginDelete(p, d)
             \/ LockRow(p) \/ Progress(p) \/ EmbeddingFails(p) \/ Fails(p)
      PROVE  Types'
  BY <1>1, OperationTypes
<1>2. ASSUME NEW s \in Searches, Hydrate(s) \/ \E d \in Documents : Query(s, d) PROVE Types'
  <2>1. UNCHANGED <<rowVars, lock, qdrantVars, space, op, torn>> /\ found' \in [Searches -> Hit \cup {NoHit}]
    BY <1>2, OtherMoves
  <2>. QED  BY <2>1 DEF Types
<1>3. ASSUME NEW e \in Spaces, Redeploy(e) PROVE Types'
  <2>1. /\ UNCHANGED <<rowVars, lock, qdrantVars, op, torn>>
        /\ space' \in [Programs -> Spaces] /\ found' \in [Searches -> Hit \cup {NoHit}]
    BY <1>3, OtherMoves
  <2>. QED  BY <2>1 DEF Types
<1>4. CASE DropCollections
  BY <1>4 DEF DropCollections, Types
<1>5. CASE UNCHANGED indexVars
  BY <1>5 DEF indexVars, Types
<1>. QED  BY <1>1, <1>2, <1>3, <1>4, <1>5, NextMoves DEF Indexes

-----------------------------------------------------------------------------
(* The row locks. *)

\* The steps before the points of the document at hand are changed, and those after.
Before == {"vectors", "ensure", "clear"}
After == {"upsert", "vector"}

\* Of an operation: it has one document unless it is the tenant's; it holds the row of
\* the document at hand and of all whose points it has changed; what it has to record
\* is among them.
OpInv(p) ==
  LET o == op[p] IN
  /\ o.at # "idle" /\ o.kind # "tenant" => Len(o.todo) = 1
  /\ o.at \in Before => lock[Doc(p)] = p /\ Doc(p) \notin o.touched
  /\ o.at \in After \/ (o.at = "commit" /\ o.kind # "tenant") => Doc(p) \in o.touched
  /\ o.at \in {"vectors", "ensure", "upsert"} => o.kind # "delete"
  /\ o.marked \subseteq o.touched
  /\ \A d \in o.touched : lock[d] = p

\* Of a locked row: somebody is at work on it, and on nothing else unless he reindexes
\* the tenant; the document is alive unless he deletes it.
RowInv(d) ==
  lock[d] # Nobody =>
    LET o == op[lock[d]] IN
    /\ o.at # "idle"
    /\ o.kind # "tenant" => Head(o.todo) = d /\ o.at # "lock"
    /\ o.kind # "delete" => life[d] # "deleted"

LockInv == (\A p \in Processes : OpInv(p)) /\ (\A d \in Documents : RowInv(d))

\* A step of one process is looked at for this process and the rows it holds.
LEMMA LockInvBy ==
  ASSUME Types, Types', LockInv, NEW p \in Processes, Alone(p),
         \A d \in Documents, q \in Processes \ {p} : lock'[d] = q <=> lock[d] = q,
         \A d \in Documents : lock[d] # p => life'[d] = life[d],
         OpInv(p)', \A d \in Documents : lock'[d] = p => RowInv(d)'
  PROVE  LockInv'
<1>1. ASSUME NEW q \in Processes \ {p} PROVE OpInv(q)'
  <2>1. OpInv(q) /\ op'[q] = op[q]
    BY DEF LockInv, Alone
  <2>2. op[q].touched \subseteq Documents /\ (op[q].at # "idle" => Doc(q) \in Documents)
    BY OpType
  <2>3. Doc(q)' = Doc(q)
    BY <2>1 DEF Doc
  <2>4. op[q].at \in Before => lock'[Doc(q)] = q
    BY <2>1, <2>2 DEF OpInv, Before
  <2>5. \A d \in op[q].touched : lock'[d] = q
    BY <2>1, <2>2 DEF OpInv
  <2>. QED  BY <2>1, <2>3, <2>4, <2>5 DEF OpInv
<1>2. ASSUME NEW d \in Documents, lock'[d] # p PROVE RowInv(d)'
  <2>1. lock'[d] = Nobody \/ lock'[d] \in Processes \ {p}
    BY <1>2 DEF Types
  <2>2. CASE lock'[d] \in Processes \ {p}
    <3>. DEFINE q == lock[d]
    <3>1. q \in Processes \ {p} /\ lock'[d] = q /\ op'[q] = op[q] /\ life'[d] = life[d] /\ q # Nobody
      BY <2>2, VectorIndexAssumption DEF Alone
    <3>. QED  BY <3>1 DEF LockInv, RowInv
  <2>. QED  BY <2>1, <2>2 DEF RowInv
<1>. QED  BY <1>1, <1>2 DEF LockInv

\* The end of an operation keeps LockInv.
LEMMA EndsLockInv ==
  ASSUME Types, Types', LockInv, NEW p \in Processes, Ends(p),
         \A d \in Documents : lock[d] # p => life'[d] = life[d]
  PROVE  LockInv'
<1>1. p # Nobody
  BY VectorIndexAssumption
<1>2. \A d \in Documents, q \in Processes \ {p} : lock'[d] = q <=> lock[d] = q
  BY VectorIndexAssumption DEF Ends
<1>3. \A d \in Documents : lock'[d] # p
  BY <1>1 DEF Ends
<1>4. Is(op'[p], "none", "idle", << >>, {}, {}, {})
  BY IdleOp DEF Ends
<1>5. OpInv(p)'
  BY <1>4 DEF OpInv, Is, Before, After
<1>. QED  BY <1>2, <1>3, <1>5, LockInvBy DEF Ends

\* Going on with the document at hand keeps LockInv.
LEMMA OntoLockInv ==
  ASSUME Types, Types', LockInv, NEW p \in Processes, UNCHANGED <<lock, life>>,
         NEW a, NEW s, NEW m, NEW c, Onto(p, a, s, m, c),
         op[p].at \in Before \cup After,
         \/ a \in Before \ {"vectors"} /\ op[p].at \in Before /\ m = op[p].marked /\ c = op[p].touched
         \/ a \in After /\ c = op[p].touched \cup {Doc(p)} /\ m \subseteq op[p].marked \cup {Doc(p)},
         a \in {"ensure", "upsert"} => op[p].kind # "delete"
  PROVE  LockInv'
<1>1. OpInv(p) /\ Doc(p) \in Documents
  BY OpType DEF LockInv, Before, After
<1>2. lock[Doc(p)] = p
  <2>1. CASE op[p].at \in Before
    BY <1>1, <2>1 DEF OpInv
  <2>2. CASE op[p].at \in After
    <3>1. Doc(p) \in op[p].touched
      BY <1>1, <2>2 DEF OpInv
    <3>. QED  BY <1>1, <3>1 DEF OpInv
  <2>. QED  BY <2>1, <2>2
<1>3. /\ op'[p].kind = op[p].kind /\ op'[p].at = a /\ op'[p].todo = op[p].todo
      /\ op'[p].marked = m /\ op'[p].touched = c /\ Doc(p)' = Doc(p)
  BY DEF Onto, Is, Doc
<1>4. OpInv(p)'
  <2>1. CASE a \in Before \ {"vectors"} /\ op[p].at \in Before /\ m = op[p].marked /\ c = op[p].touched
    BY <1>1, <1>3, <2>1 DEF OpInv, Before, After
  <2>2. CASE a \in After /\ c = op[p].touched \cup {Doc(p)} /\ m \subseteq op[p].marked \cup {Doc(p)}
    <3>1. op'[p].marked \subseteq op'[p].touched /\ \A d \in op'[p].touched : lock'[d] = p
      BY <1>1, <1>2, <1>3, <2>2 DEF OpInv
    <3>2. op'[p].kind # "tenant" => Len(op'[p].todo) = 1
      BY <1>1, <1>3 DEF OpInv, Before, After
    <3>. QED  BY <1>3, <2>2, <3>1, <3>2 DEF OpInv, Before, After
  <2>. QED  BY <2>1, <2>2
<1>5. ASSUME NEW d \in Documents, lock'[d] = p PROVE RowInv(d)'
  <2>1. RowInv(d) /\ lock[d] = p /\ p # Nobody
    BY <1>5, VectorIndexAssumption DEF LockInv
  <2>2. a # "idle" /\ a # "lock"
    BY DEF Before, After
  <2>. QED  BY <1>3, <1>5, <2>1, <2>2 DEF RowInv
<1>. QED  BY <1>4, <1>5, LockInvBy DEF Onto

\* So does being through with it.
LEMMA ThroughLockInv ==
  ASSUME Types, Types', LockInv, NEW p \in Processes, UNCHANGED <<lock, life>>,
         NEW m, NEW c, Through(p, m, c),
         \/ op[p].at \in {"lock", "clear"} /\ op[p].kind = "tenant" /\ m = op[p].marked /\ c = op[p].touched
         \/ /\ op[p].at \in {"clear", "vector"} /\ c = op[p].touched \cup {Doc(p)}
            /\ m \subseteq op[p].marked \cup {Doc(p)}
  PROVE  LockInv'
<1>1. OpInv(p) /\ Doc(p) \in Documents /\ op[p].todo # << >> /\ op[p].todo \in Seq(Documents)
  BY OpType DEF LockInv
<1>2. /\ op'[p].kind = op[p].kind /\ op'[p].marked = m /\ op'[p].touched = c
      /\ \/ Len(op[p].todo) = 1 /\ op'[p].at = "commit" /\ op'[p].todo = op[p].todo
         \/ Len(op[p].todo) # 1 /\ op'[p].at = "lock"
  BY DEF Through, Is
<1>3. op[p].kind # "tenant" => /\ Len(op[p].todo) = 1 /\ c = op[p].touched \cup {Doc(p)}
                               /\ op'[p].at = "commit" /\ op'[p].todo = op[p].todo /\ Doc(p)' = Doc(p)
  BY <1>1, <1>2 DEF OpInv, Doc
<1>4. m \subseteq c /\ \A d \in c : lock[d] = p
  <2>1. op[p].marked \subseteq op[p].touched /\ \A d \in op[p].touched : lock[d] = p
    BY <1>1 DEF OpInv
  <2>2. op[p].at = "clear" => lock[Doc(p)] = p
    BY <1>1 DEF OpInv, Before
  <2>3. op[p].at = "vector" => lock[Doc(p)] = p
    BY <1>1, <2>1 DEF OpInv, After
  <2>. QED  BY <2>1, <2>2, <2>3
<1>5. OpInv(p)'
  BY <1>1, <1>2, <1>3, <1>4 DEF OpInv, Before, After
<1>6. ASSUME NEW d \in Documents, lock'[d] = p PROVE RowInv(d)'
  <2>1. RowInv(d) /\ lock[d] = p /\ p # Nobody
    BY <1>6, VectorIndexAssumption DEF LockInv
  <2>2. op'[p].at # "idle"
    BY <1>2
  <2>3. op'[p].kind # "tenant" => Head(op'[p].todo) = d /\ op'[p].at # "lock"
    BY <1>2, <1>3, <2>1 DEF RowInv
  <2>4. op'[p].kind # "delete" => life'[d] # "deleted"
    BY <1>2, <2>1 DEF RowInv
  <2>. QED  BY <1>6, <2>2, <2>3, <2>4 DEF RowInv
<1>. QED  BY <1>5, <1>6, LockInvBy DEF Through

\* The beginning of an operation keeps LockInv: it holds nothing yet.
LEMMA BeginsLockInv ==
  ASSUME Types, Types', LockInv, NEW p \in Processes,
         NEW k \in Kinds, NEW t \in Seq(Documents), NEW s \in SUBSET Documents, Starts(p, k, t, s)
  PROVE  LockInv'
<1>1. /\ op'[p].kind = k /\ op'[p].at = "lock" /\ op'[p].todo = t /\ op'[p].marked = {} /\ op'[p].touched = {}
      /\ op[p].at = "idle" /\ UNCHANGED <<lock, life>> /\ (k # "tenant" => Len(t) = 1)
  BY IdleOp DEF Starts, Begins, Is
<1>2. OpInv(p)'
  BY <1>1 DEF OpInv, Before, After
<1>3. \A d \in Documents : lock[d] # p
  BY <1>1, VectorIndexAssumption DEF LockInv, RowInv
<1>. QED  BY <1>1, <1>2, <1>3, LockInvBy DEF Starts, Begins

\* Taking a free row keeps LockInv.
LEMMA TakesLockInv ==
  ASSUME Types, Types', LockInv, NEW p \in Processes, life' = life,
         op[p].at = "lock", lock[Doc(p)] = Nobody, lock' = [lock EXCEPT ![Doc(p)] = p],
         op[p].kind = "delete" \/ life[Doc(p)] # "deleted",
         Onto(p, FirstStep(op[p].kind), Loaded(p), op[p].marked, op[p].touched)
  PROVE  LockInv'
<1>1. OpInv(p) /\ Doc(p) \in Documents /\ p # Nobody /\ op[p].kind \in Kinds
  BY OpType, VectorIndexAssumption DEF LockInv
<1>2. /\ op'[p].kind = op[p].kind /\ op'[p].at = FirstStep(op[p].kind) /\ op'[p].todo = op[p].todo
      /\ op'[p].marked = op[p].marked /\ op'[p].touched = op[p].touched /\ Doc(p)' = Doc(p)
  BY DEF Onto, Is, Doc
<1>3. lock'[Doc(p)] = p /\ \A d \in Documents \ {Doc(p)} : lock'[d] = lock[d]
  BY <1>1 DEF Types
<1>4. FirstStep(op[p].kind) \in Before /\ (op[p].kind = "delete" => FirstStep(op[p].kind) = "clear")
  BY DEF FirstStep, Before
<1>5. Doc(p) \notin op[p].touched /\ op[p].touched \subseteq Documents
  BY <1>1, OpType DEF OpInv
<1>6. OpInv(p)'
  <2>1. op'[p].kind # "tenant" => Len(op'[p].todo) = 1
    BY <1>1, <1>2 DEF OpInv
  <2>2. op'[p].marked \subseteq op'[p].touched /\ \A d \in op'[p].touched : lock'[d] = p
    BY <1>1, <1>2, <1>3, <1>5 DEF OpInv
  <2>. QED  BY <1>2, <1>3, <1>4, <1>5, <2>1, <2>2 DEF OpInv, Before, After
<1>7. ASSUME NEW d \in Documents, lock'[d] = p PROVE RowInv(d)'
  <2>1. d = Doc(p) \/ (lock[d] = p /\ op[p].kind = "tenant")
    BY <1>1, <1>3, <1>7 DEF LockInv, RowInv
  <2>2. op'[p].at # "idle" /\ op'[p].at # "lock" /\ (op'[p].kind # "tenant" => Head(op'[p].todo) = d)
    BY <1>2, <1>4, <2>1 DEF Before, Doc
  <2>3. op'[p].kind # "delete" => life'[d] # "deleted"
    BY <1>1, <1>2, <2>1 DEF LockInv, RowInv
  <2>. QED  BY <1>7, <2>2, <2>3 DEF RowInv
<1>8. \A d \in Documents, q \in Processes \ {p} : lock'[d] = q <=> lock[d] = q
  BY <1>1, <1>3, VectorIndexAssumption
<1>. QED  BY <1>6, <1>7, <1>8, LockInvBy DEF Onto

\* Every step keeps LockInv.
LEMMA LockInvNext == Types /\ LockInv /\ [Next]_vars => LockInv'
<1>. SUFFICES ASSUME Types, LockInv, [Next]_vars PROVE LockInv'
  OBVIOUS
<1>1. Types'
  BY TypesNext
<1>. USE <1>1 DEF rowVars, qdrantVars
<1>2. ASSUME NEW p \in Processes, Gone(p) PROVE LockInv'
  BY <1>2, EndsLockInv DEF Gone
<1>3. ASSUME NEW p \in Processes,
             BeginTenant(p) \/ \E d \in Documents : BeginIngest(p, d) \/ BeginReindex(p, d) \/ BeginDelete(p, d)
      PROVE  LockInv'
  BY <1>3, BeginMoves, BeginsLockInv
<1>4. ASSUME NEW p \in Processes, LockRow(p) PROVE LockInv'
  <2>1. op[p].at = "lock" /\ lock[Doc(p)] = Nobody
    BY <1>4, LockMoves
  <2>2. CASE Gone(p)
    BY <1>2, <2>2
  <2>3. CASE /\ op[p].kind = "delete" \/ life[Doc(p)] # "deleted"
             /\ lock' = [lock EXCEPT ![Doc(p)] = p] /\ Still
             /\ Onto(p, FirstStep(op[p].kind), Loaded(p), op[p].marked, op[p].touched)
    BY <2>1, <2>3, TakesLockInv DEF Still
  <2>4. CASE op[p].kind = "tenant" /\ Through(p, op[p].marked, op[p].touched) /\ Still /\ lock' = lock
    BY <2>1, <2>4, ThroughLockInv DEF Still
  <2>. QED  BY <1>4, <2>2, <2>3, <2>4, LockMoves
<1>5. ASSUME NEW p \in Processes, EnsureVectors(p) PROVE LockInv'
  <2>1. op[p].at = "vectors" /\ op[p].kind # "delete"
    BY <1>5, EnsureVectorsMoves DEF LockInv, OpInv
  <2>2. CASE Onto(p, "ensure", op[p].same, op[p].marked, op[p].touched) /\ UNCHANGED <<lock, life>>
    BY <2>1, <2>2, OntoLockInv DEF Before
  <2>. QED  BY <1>2, <1>5, <2>2, EnsureVectorsMoves
<1>6. ASSUME NEW p \in Processes, EnsureChunks(p) PROVE LockInv'
  <2>1. op[p].at = "ensure"
    BY <1>6, EnsureChunksMoves
  <2>2. CASE Onto(p, "clear", op[p].same, op[p].marked, op[p].touched) /\ UNCHANGED <<lock, life>>
    BY <2>1, <2>2, OntoLockInv DEF Before
  <2>. QED  BY <1>2, <1>6, <2>2, EnsureChunksMoves
<1>7. ASSUME NEW p \in Processes, EmbeddingFails(p) PROVE LockInv'
  BY <1>7, EmbeddingFailsMoves, ThroughLockInv DEF Still
<1>8. ASSUME NEW p \in Processes, ClearPoints(p) PROVE LockInv'
  <2>. DEFINE t == op[p].touched \cup {Doc(p)}
              m == Marked(op[p], Doc(p))
  <2>1. op[p].at = "clear" /\ life' = life
    BY <1>8, ClearPointsMoves
  <2>2. m \subseteq op[p].marked \cup {Doc(p)}
    BY DEF Marked
  <2>. HIDE DEF m
  <2>3. CASE Ends(p)
    BY <2>1, <2>3, EndsLockInv
  <2>4. CASE Onto(p, "vector", op[p].same, op[p].marked, t) /\ UNCHANGED lock
    BY <2>1, <2>4, OntoLockInv DEF Before, After
  <2>5. CASE op[p].kind # "delete" /\ Onto(p, "upsert", op[p].same, op[p].marked, t) /\ UNCHANGED lock
    BY <2>1, <2>5, OntoLockInv DEF Before, After
  <2>6. CASE Onto(p, "vector", op[p].same, m, t) /\ UNCHANGED lock
    BY <2>1, <2>2, <2>6, OntoLockInv DEF Before, After
  <2>7. CASE Through(p, m, t) /\ UNCHANGED lock
    BY <2>1, <2>2, <2>7, ThroughLockInv
  <2>. QED  BY <1>8, <2>3, <2>4, <2>5, <2>6, <2>7, ClearPointsMoves DEF m
<1>9. ASSUME NEW p \in Processes, UpsertPoints(p) PROVE LockInv'
  <2>. DEFINE m == Marked(op[p], Doc(p))
  <2>1. op[p].at = "upsert" /\ op[p].touched = op[p].touched \cup {Doc(p)}
    BY <1>9, UpsertPointsMoves DEF LockInv, OpInv, After
  <2>2. m \subseteq op[p].marked \cup {Doc(p)}
    BY DEF Marked
  <2>. HIDE DEF m
  <2>3. CASE Onto(p, "vector", op[p].same, m, op[p].touched) /\ UNCHANGED <<lock, life>>
    BY <2>1, <2>2, <2>3, OntoLockInv DEF Before, After
  <2>. QED  BY <1>2, <1>9, <2>3, UpsertPointsMoves DEF m
<1>10. ASSUME NEW p \in Processes, WriteVector(p) PROVE LockInv'
  <2>1. op[p].at = "vector" /\ op[p].touched = op[p].touched \cup {Doc(p)}
    BY <1>10, WriteVectorMoves DEF LockInv, OpInv, After
  <2>2. CASE Through(p, op[p].marked, op[p].touched) /\ UNCHANGED <<lock, life>>
    BY <2>1, <2>2, ThroughLockInv
  <2>. QED  BY <1>2, <1>10, <2>2, WriteVectorMoves
<1>11. ASSUME NEW p \in Processes, Commit(p) PROVE LockInv'
  BY <1>11, CommitMoves, EndsLockInv DEF Committed
<1>12. ASSUME NEW p \in Processes, Fails(p) PROVE LockInv'
  BY <1>2, <1>12, AbortFields DEF Fails
<1>13. CASE UNCHANGED <<op, lock, life>>
  BY <1>13 DEF LockInv, OpInv, RowInv, Doc
<1>14. ASSUME NEW s \in Searches, Hydrate(s) \/ \E d \in Documents : Query(s, d) PROVE LockInv'
  BY <1>13, <1>14, OtherMoves
<1>15. ASSUME NEW e \in Spaces, Redeploy(e) PROVE LockInv'
  BY <1>13, <1>15, OtherMoves
<1>16. CASE DropCollections
  BY <1>13, <1>16 DEF DropCollections
<1>17. CASE UNCHANGED indexVars
  BY <1>13, <1>17 DEF indexVars
<1>. QED
  BY <1>3, <1>4, <1>5, <1>6, <1>7, <1>8, <1>9, <1>10, <1>11, <1>12, <1>14, <1>15, <1>16, <1>17, NextMoves DEF Indexes, Progress

-----------------------------------------------------------------------------
(* Deleted documents are not indexed. *)

\* What a delete has removed so far.
Erased(p) ==
  op[p].kind = "delete" =>
    /\ op[p].at \in {"vector", "commit"} => points[Doc(p)] = {}
    /\ op[p].at = "commit" => docVector[Doc(p)] = NoSpace

EraseInv == DeletedNotIndexed /\ \A p \in Processes : Erased(p)

\* A step of one process is looked at for this process and the rows it holds.
LEMMA EraseInvBy ==
  ASSUME Types, LockInv, EraseInv, NEW p \in Processes, Alone(p),
         \A d \in Documents : lock[d] # p =>
           life'[d] = life[d] /\ points'[d] = points[d] /\ docVector'[d] = docVector[d],
         \A d \in Documents : lock[d] = p =>
           (life'[d] = "deleted" => points'[d] = {} /\ docVector'[d] = NoSpace),
         Erased(p)'
  PROVE  EraseInv'
<1>1. DeletedNotIndexed'
  BY DEF EraseInv, DeletedNotIndexed
<1>2. ASSUME NEW q \in Processes \ {p} PROVE Erased(q)'
  <2>1. Erased(q) /\ op'[q] = op[q] /\ Doc(q)' = Doc(q)
    BY DEF EraseInv, Alone, Doc
  <2>2. ASSUME op[q].kind = "delete", op[q].at \in {"vector", "commit"}
        PROVE  Doc(q) \in Documents /\ lock[Doc(q)] # p
    <3>1. OpInv(q) /\ Doc(q) \in Documents
      BY <2>2, OpType DEF LockInv
    <3>2. Doc(q) \in op[q].touched
      BY <2>2, <3>1 DEF OpInv, After
    <3>. QED  BY <3>1, <3>2 DEF OpInv
  <2>. QED  BY <2>1, <2>2 DEF Erased
<1>. QED  BY <1>1, <1>2 DEF EraseInv

\* Nothing happens to rows and vectors.
LEMMA EraseInvQuiet ==
  ASSUME Types, LockInv, EraseInv, NEW p \in Processes, Alone(p), UNCHANGED <<life, points, docVector>>,
         op'[p].kind = "delete" => op'[p].at \notin {"vector", "commit"}
  PROVE  EraseInv'
<1>1. Erased(p)'
  BY DEF Erased
<1>. QED  BY <1>1, EraseInvBy DEF EraseInv, DeletedNotIndexed

\* Every step keeps EraseInv.
LEMMA EraseInvNext == Types /\ LockInv /\ EraseInv /\ [Next]_vars => EraseInv'
<1>. SUFFICES ASSUME Types, LockInv, EraseInv, [Next]_vars PROVE EraseInv'
  OBVIOUS
<1>. USE DEF rowVars, qdrantVars
<1>1. ASSUME NEW p \in Processes, Ends(p) PROVE Alone(p) /\ op'[p].kind # "delete"
  BY <1>1, IdleOp DEF Ends, Is
<1>2. ASSUME NEW p \in Processes, Gone(p) PROVE EraseInv'
  BY <1>1, <1>2, EraseInvQuiet DEF Gone
<1>3. ASSUME NEW p \in Processes,
             BeginTenant(p) \/ \E d \in Documents : BeginIngest(p, d) \/ BeginReindex(p, d) \/ BeginDelete(p, d)
      PROVE  EraseInv'
  <2>1. Alone(p) /\ op'[p].at = "lock" /\ UNCHANGED <<life, points, docVector>>
    BY <1>3, BeginMoves DEF Starts, Begins, Is
  <2>. QED  BY <2>1, EraseInvQuiet
<1>4. ASSUME NEW p \in Processes, LockRow(p) PROVE EraseInv'
  <2>1. CASE op[p].kind = "tenant" /\ Through(p, op[p].marked, op[p].touched) /\ Still
    BY <2>1, EraseInvQuiet DEF Through, Is, Still
  <2>2. CASE Still /\ Onto(p, FirstStep(op[p].kind), Loaded(p), op[p].marked, op[p].touched)
    BY <2>2, EraseInvQuiet DEF Onto, Is, Still, FirstStep
  <2>. QED  BY <1>2, <1>4, <2>1, <2>2, LockMoves
<1>5. ASSUME NEW p \in Processes, EnsureVectors(p) PROVE EraseInv'
  <2>1. CASE Onto(p, "ensure", op[p].same, op[p].marked, op[p].touched) /\ UNCHANGED <<life, points, docVector>>
    BY <2>1, EraseInvQuiet DEF Onto, Is
  <2>. QED  BY <1>2, <1>5, <2>1, EnsureVectorsMoves
<1>6. ASSUME NEW p \in Processes, EnsureChunks(p) PROVE EraseInv'
  <2>1. CASE Onto(p, "clear", op[p].same, op[p].marked, op[p].touched) /\ UNCHANGED <<life, points, docVector>>
    BY <2>1, EraseInvQuiet DEF Onto, Is
  <2>. QED  BY <1>2, <1>6, <2>1, EnsureChunksMoves
<1>7. ASSUME NEW p \in Processes, EmbeddingFails(p) PROVE EraseInv'
  BY <1>7, EmbeddingFailsMoves, EraseInvQuiet DEF Through, Is, Still
<1>8. ASSUME NEW p \in Processes, ClearPoints(p) PROVE EraseInv'
  <2>1. /\ op[p].at = "clear" /\ Doc(p) \in Documents /\ points' = [points EXCEPT ![Doc(p)] = {}]
        /\ UNCHANGED <<life, docVector>>
    BY <1>8, ClearPointsMoves
  <2>2. lock[Doc(p)] = p
    BY <2>1 DEF LockInv, OpInv, Before
  <2>3. points'[Doc(p)] = {} /\ \A d \in Documents \ {Doc(p)} : points'[d] = points[d]
    BY <2>1 DEF Types
  <2>4. /\ Alone(p)
        /\ op'[p].kind = "delete" => op'[p].at # "commit" /\ Doc(p)' = Doc(p)
    BY <1>1, <1>8, ClearPointsMoves DEF Onto, Through, Is, Doc
  <2>5. Erased(p)'
    BY <2>3, <2>4 DEF Erased
  <2>. QED  BY <2>1, <2>2, <2>3, <2>4, <2>5, EraseInvBy DEF EraseInv, DeletedNotIndexed
<1>9. ASSUME NEW p \in Processes, UpsertPoints(p) PROVE EraseInv'
  <2>1. op[p].at = "upsert" /\ Doc(p) \in Documents
    BY <1>9, UpsertPointsMoves
  <2>2. op[p].kind # "delete" /\ Doc(p) \in op[p].touched
    BY <2>1 DEF LockInv, OpInv, After
  <2>3. lock[Doc(p)] = p /\ p # Nobody
    BY <2>2, VectorIndexAssumption DEF LockInv, OpInv
  <2>4. \A d \in Documents : lock[d] = p => life[d] # "deleted"
    BY <2>2, <2>3 DEF LockInv, RowInv
  <2>5. CASE /\ points' = [points EXCEPT ![Doc(p)] = {[chunk |-> ChunksOf(p), space |-> space[p]]}]
             /\ Onto(p, "vector", op[p].same, Marked(op[p], Doc(p)), op[p].touched)
             /\ UNCHANGED <<life, docVector>>
    <3>1. \A d \in Documents \ {Doc(p)} : points'[d] = points[d]
      BY <2>5 DEF Types
    <3>2. Alone(p) /\ Erased(p)'
      BY <2>2, <2>5 DEF Erased, Onto, Is
    <3>. QED  BY <2>3, <2>4, <2>5, <3>1, <3>2, EraseInvBy
  <2>. QED  BY <1>2, <1>9, <2>5, UpsertPointsMoves
<1>10. ASSUME NEW p \in Processes, WriteVector(p) PROVE EraseInv'
  <2>. DEFINE v == IF op[p].kind = "delete" \/ ChunksOf(p) = 0 THEN NoSpace ELSE space[p]
  <2>1. op[p].at = "vector" /\ Doc(p) \in Documents
    BY <1>10, WriteVectorMoves
  <2>2. OpInv(p) /\ Doc(p) \in op[p].touched
    BY <2>1 DEF LockInv, OpInv, After
  <2>3. lock[Doc(p)] = p /\ p # Nobody
    BY <2>2, VectorIndexAssumption DEF OpInv
  <2>4. CASE /\ docVector' = [docVector EXCEPT ![Doc(p)] = v]
             /\ Through(p, op[p].marked, op[p].touched)
             /\ UNCHANGED <<life, points>>
    <3>1. docVector'[Doc(p)] = v /\ \A d \in Documents \ {Doc(p)} : docVector'[d] = docVector[d]
      BY <2>1, <2>4 DEF Types
    <3>2. Alone(p) /\ op'[p].kind = op[p].kind
      BY <2>4 DEF Through, Is
    <3>3. ASSUME op[p].kind = "delete" PROVE Doc(p)' = Doc(p) /\ points[Doc(p)] = {} /\ v = NoSpace
      <4>1. Len(op[p].todo) = 1
        BY <2>1, <2>2, <3>3 DEF OpInv
      <4>2. Erased(p)
        BY DEF EraseInv
      <4>. QED  BY <2>1, <2>4, <3>3, <4>1, <4>2 DEF Through, Is, Doc, Erased
    <3>4. Erased(p)'
      BY <2>4, <3>1, <3>2, <3>3 DEF Erased
    <3>5. ASSUME NEW d \in Documents, lock[d] = p, life[d] = "deleted"
          PROVE  points'[d] = {} /\ docVector'[d] = NoSpace
      <4>1. op[p].kind = "delete"
        BY <2>3, <3>5 DEF LockInv, RowInv
      <4>2. points[d] = {} /\ docVector[d] = NoSpace
        BY <3>5 DEF EraseInv, DeletedNotIndexed
      <4>. QED  BY <2>4, <3>1, <3>3, <4>1, <4>2
    <3>. HIDE DEF v
    <3>. QED  BY <2>3, <2>4, <3>1, <3>2, <3>4, <3>5, EraseInvBy
  <2>. QED  BY <1>2, <1>10, <2>4, WriteVectorMoves
<1>11. ASSUME NEW p \in Processes, Commit(p) PROVE EraseInv'
  <2>1. /\ op[p].at = "commit" /\ Alone(p) /\ op'[p].kind # "delete"
        /\ UNCHANGED <<points, docVector>> /\ \A d \in Documents : Committed(p, d)
    BY <1>1, <1>11, CommitMoves
  <2>2. Erased(p)'
    BY <2>1 DEF Erased
  <2>3. ASSUME NEW d \in Documents, lock[d] = p, life'[d] = "deleted"
        PROVE  points[d] = {} /\ docVector[d] = NoSpace
    <3>1. RowInv(d) /\ p # Nobody
      BY VectorIndexAssumption DEF LockInv
    <3>2. op[p].kind = "delete"
      BY <2>1, <2>3, <3>1 DEF Committed, RowInv
    <3>3. d = Doc(p) /\ Erased(p)
      BY <2>3, <3>1, <3>2 DEF RowInv, Doc, EraseInv
    <3>. QED  BY <2>1, <3>2, <3>3 DEF Erased
  <2>. QED  BY <2>1, <2>2, <2>3, EraseInvBy DEF Committed
<1>12. ASSUME NEW p \in Processes, Fails(p) PROVE EraseInv'
  BY <1>2, <1>12, AbortFields DEF Fails
<1>13. CASE UNCHANGED <<op, life, points, docVector>>
  BY <1>13 DEF EraseInv, DeletedNotIndexed, Erased, Doc
<1>14. ASSUME NEW s \in Searches, Hydrate(s) \/ \E d \in Documents : Query(s, d) PROVE EraseInv'
  BY <1>13, <1>14, OtherMoves
<1>15. ASSUME NEW e \in Spaces, Redeploy(e) PROVE EraseInv'
  BY <1>13, <1>15, OtherMoves
<1>16. CASE DropCollections
  <2>1. /\ UNCHANGED <<op, life>>
        /\ \A d \in Documents : points'[d] = {} /\ docVector'[d] = NoSpace
    BY <1>16 DEF DropCollections
  <2>2. ASSUME NEW p \in Processes PROVE Erased(p)'
    BY <2>1, OpType DEF Erased, Doc
  <2>. QED  BY <2>1, <2>2 DEF EraseInv, DeletedNotIndexed
<1>17. CASE UNCHANGED indexVars
  BY <1>13, <1>17 DEF indexVars
<1>. QED
  BY <1>3, <1>4, <1>5, <1>6, <1>7, <1>8, <1>9, <1>10, <1>11, <1>12, <1>14, <1>15, <1>16, <1>17, NextMoves DEF Indexes, Progress

\* The row locks in the first state.
LEMMA LockInvInit == Init => LockInv
<1>. SUFFICES ASSUME Init PROVE LockInv
  OBVIOUS
<1>1. \A p \in Processes : op[p] = Idle
  BY DEF Init
<1>2. \A d \in Documents : lock[d] = Nobody
  BY DEF Init
<1>. QED  BY <1>1, <1>2, IdleOp DEF LockInv, OpInv, RowInv, Is, Before, After

\* A document that was deleted has no vectors, whatever reindexes had listed it before,
\* whatever failed, and whatever models the programs ran (reindexing.py, deletion.py).
THEOREM DeletedStaysOut == Spec => []DeletedNotIndexed
<1>1. Init => EraseInv
  BY IdleOp DEF Init, EraseInv, DeletedNotIndexed, Erased, Is
<1>2. EraseInv => DeletedNotIndexed
  BY DEF EraseInv
<1>. QED
  BY <1>1, <1>2, TypesInit, TypesNext, LockInvInit, LockInvNext, EraseInvNext, PTL DEF Spec

-----------------------------------------------------------------------------
(* A reindex under a model of another size touches nothing. *)

\* A reindex that has looked at the collections finds them of its size, unless they
\* were dropped meanwhile.
WidthOf(p) ==
  Reindexing(p) /\ op[p].at \in {"ensure", "clear", "upsert"} /\ Doc(p) \notin torn =>
    docWidth = Dim(p) /\ (op[p].at # "ensure" => width = Dim(p))

WidthInv == \A p \in Processes : WidthOf(p)

\* A step of one process is looked at for this process; a collection that is there keeps
\* its size, and another one's document stays torn.
LEMMA WidthInvBy ==
  ASSUME Types, LockInv, WidthInv, NEW p \in Processes, Alone(p), space' = space,
         docWidth # 0 => docWidth' = docWidth, width # 0 => width' = width,
         \A d \in Documents : lock[d] # p /\ d \in torn => d \in torn',
         WidthOf(p)'
  PROVE  WidthInv'
<1>1. ASSUME NEW q \in Processes \ {p} PROVE WidthOf(q)'
  <2>1. WidthOf(q) /\ op'[q] = op[q] /\ Doc(q)' = Doc(q) /\ Dim(q)' = Dim(q) /\ Dim(q) # 0
    BY OpType DEF WidthInv, Alone, Doc, Dim
  <2>2. ASSUME op[q].at \in {"ensure", "clear", "upsert"}
        PROVE  Doc(q) \in Documents /\ lock[Doc(q)] # p
    <3>1. OpInv(q) /\ Doc(q) \in Documents
      BY <2>2, OpType DEF LockInv
    <3>2. op[q].at \in Before \/ Doc(q) \in op[q].touched
      BY <2>2, <3>1 DEF OpInv, Before, After
    <3>3. lock[Doc(q)] = q
      BY <3>1, <3>2 DEF OpInv
    <3>. QED  BY <3>1, <3>3
  <2>3. Reindexing(q)' = Reindexing(q)
    BY <2>1 DEF Reindexing
  <2>. QED  BY <2>1, <2>2, <2>3 DEF WidthOf
<1>. QED  BY <1>1 DEF WidthInv

\* Steps after which the process is at none of the steps in question.
LEMMA WidthInvQuiet ==
  ASSUME Types, LockInv, WidthInv, NEW p \in Processes, Alone(p), space' = space,
         docWidth # 0 => docWidth' = docWidth, width # 0 => width' = width,
         \A d \in Documents : lock[d] # p /\ d \in torn => d \in torn',
         \/ op'[p].at \notin {"ensure", "clear", "upsert"}
         \/ op'[p].kind \notin {"reindex", "tenant"}
  PROVE  WidthInv'
<1>1. WidthOf(p)'
  BY DEF WidthOf, Reindexing
<1>. QED  BY <1>1, WidthInvBy

\* Every step keeps WidthInv.
LEMMA WidthInvNext == Types /\ LockInv /\ WidthInv /\ [Next]_vars => WidthInv'
<1>. SUFFICES ASSUME Types, LockInv, WidthInv, [Next]_vars PROVE WidthInv'
  OBVIOUS
<1>. USE DEF rowVars, qdrantVars
<1>1. ASSUME NEW p \in Processes, Ends(p) PROVE Alone(p) /\ op'[p].at = "idle"
  BY <1>1, IdleOp DEF Ends, Is
<1>2. ASSUME NEW p \in Processes, Gone(p) PROVE WidthInv'
  BY <1>1, <1>2, WidthInvQuiet DEF Gone
<1>3. ASSUME NEW p \in Processes,
             BeginTenant(p) \/ \E d \in Documents : BeginIngest(p, d) \/ BeginReindex(p, d) \/ BeginDelete(p, d)
      PROVE  WidthInv'
  <2>1. Alone(p) /\ op'[p].at = "lock" /\ UNCHANGED <<width, docWidth, space, torn>>
    BY <1>3, BeginMoves DEF Starts, Begins, Is
  <2>. QED  BY <2>1, WidthInvQuiet
<1>4. ASSUME NEW p \in Processes, LockRow(p) PROVE WidthInv'
  <2>1. CASE Through(p, op[p].marked, op[p].touched) /\ Still
    BY <2>1, WidthInvQuiet DEF Through, Is, Still
  <2>2. CASE Still /\ Onto(p, FirstStep(op[p].kind), Loaded(p), op[p].marked, op[p].touched)
    BY <2>2, WidthInvQuiet DEF Onto, Is, Still, FirstStep
  <2>. QED  BY <1>2, <1>4, <2>1, <2>2, LockMoves
<1>5. ASSUME NEW p \in Processes, EnsureVectors(p) PROVE WidthInv'
  <2>1. CASE /\ docWidth \in {0, Dim(p)} /\ docWidth' = Dim(p)
             /\ Onto(p, "ensure", op[p].same, op[p].marked, op[p].touched)
             /\ UNCHANGED <<width, space, torn>>
    <3>1. Alone(p) /\ WidthOf(p)'
      BY <2>1 DEF WidthOf, Onto, Is, Dim
    <3>. QED  BY <2>1, <3>1, WidthInvBy
  <2>. QED  BY <1>2, <1>5, <2>1, EnsureVectorsMoves
<1>6. ASSUME NEW p \in Processes, EnsureChunks(p) PROVE WidthInv'
  <2>1. op[p].at = "ensure" /\ WidthOf(p)
    BY <1>6, EnsureChunksMoves DEF WidthInv
  <2>2. CASE /\ width \in {0, Dim(p)} /\ width' = Dim(p)
             /\ Onto(p, "clear", op[p].same, op[p].marked, op[p].touched)
             /\ UNCHANGED <<docWidth, space, torn>>
    <3>1. Alone(p) /\ op'[p].kind = op[p].kind /\ Doc(p)' = Doc(p) /\ Dim(p)' = Dim(p)
      BY <2>2 DEF Onto, Is, Doc, Dim
    <3>2. WidthOf(p)'
      BY <2>1, <2>2, <3>1 DEF WidthOf, Reindexing
    <3>. QED  BY <2>2, <3>1, <3>2, WidthInvBy
  <2>. QED  BY <1>2, <1>6, <2>2, EnsureChunksMoves
<1>7. ASSUME NEW p \in Processes, EmbeddingFails(p) PROVE WidthInv'
  BY <1>7, EmbeddingFailsMoves, WidthInvQuiet DEF Through, Is, Still
<1>8. ASSUME NEW p \in Processes, ClearPoints(p) PROVE WidthInv'
  <2>. DEFINE t == op[p].touched \cup {Doc(p)}
              m == Marked(op[p], Doc(p))
  <2>1. op[p].at = "clear" /\ UNCHANGED <<width, docWidth, space>> /\ WidthOf(p)
    BY <1>8, ClearPointsMoves DEF WidthInv
  <2>2. CASE Ends(p) /\ torn' = torn \cup t
    BY <1>1, <2>1, <2>2, WidthInvQuiet
  <2>3. CASE \/ Onto(p, "vector", op[p].same, op[p].marked, t) /\ UNCHANGED torn
             \/ Onto(p, "vector", op[p].same, m, t) /\ UNCHANGED torn
             \/ Through(p, m, t) /\ UNCHANGED torn
    BY <2>1, <2>3, WidthInvQuiet DEF Onto, Through, Is
  <2>4. CASE Onto(p, "upsert", op[p].same, op[p].marked, t) /\ UNCHANGED torn
    <3>1. Alone(p) /\ op'[p].kind = op[p].kind /\ Doc(p)' = Doc(p) /\ Dim(p)' = Dim(p)
      BY <2>1, <2>4 DEF Onto, Is, Doc, Dim
    <3>2. WidthOf(p)'
      BY <2>1, <2>4, <3>1 DEF WidthOf, Reindexing
    <3>. QED  BY <2>1, <2>4, <3>1, <3>2, WidthInvBy
  <2>. QED  BY <1>8, <2>2, <2>3, <2>4, ClearPointsMoves
<1>9. ASSUME NEW p \in Processes, UpsertPoints(p) PROVE WidthInv'
  <2>1. op[p].at = "upsert" /\ Doc(p) \in Documents /\ Doc(p) \in op[p].touched
    BY <1>9, UpsertPointsMoves DEF LockInv, OpInv, After
  <2>2. lock[Doc(p)] = p
    BY <2>1 DEF LockInv, OpInv
  <2>3. CASE /\ torn' = torn \ {Doc(p)}
             /\ Onto(p, "vector", op[p].same, Marked(op[p], Doc(p)), op[p].touched)
             /\ UNCHANGED <<width, docWidth, space>>
    BY <2>2, <2>3, WidthInvQuiet DEF Onto, Is
  <2>. QED  BY <1>2, <1>9, <2>3, UpsertPointsMoves
<1>10. ASSUME NEW p \in Processes, WriteVector(p) PROVE WidthInv'
  <2>1. CASE /\ op[p].kind = "delete" \/ docWidth \in {0, Dim(p)}
             /\ docWidth' = IF op[p].kind = "delete" THEN docWidth ELSE Dim(p)
             /\ Through(p, op[p].marked, op[p].touched)
             /\ UNCHANGED <<width, space, torn>>
    BY <2>1, WidthInvQuiet DEF Through, Is
  <2>. QED  BY <1>2, <1>10, <2>1, WriteVectorMoves
<1>11. ASSUME NEW p \in Processes, Commit(p) PROVE WidthInv'
  BY <1>1, <1>11, CommitMoves, WidthInvQuiet
<1>12. ASSUME NEW p \in Processes, Fails(p) PROVE WidthInv'
  BY <1>2, <1>12, AbortFields DEF Fails
<1>13. CASE UNCHANGED <<op, width, docWidth, torn>> /\ \A p \in Processes : op[p] # Idle => space'[p] = space[p]
  <2>1. ASSUME NEW p \in Processes PROVE WidthOf(p)'
    <3>1. WidthOf(p) /\ Doc(p)' = Doc(p) /\ Reindexing(p)' = Reindexing(p)
      BY <1>13 DEF WidthInv, Doc, Reindexing
    <3>2. op[p].at # "idle" => Dim(p)' = Dim(p)
      BY <1>13, IdleOp DEF Dim, Is
    <3>. QED  BY <1>13, <3>1, <3>2 DEF WidthOf
  <2>. QED  BY <2>1 DEF WidthInv
<1>14. ASSUME NEW s \in Searches, Hydrate(s) \/ \E d \in Documents : Query(s, d) PROVE WidthInv'
  BY <1>13, <1>14, OtherMoves
<1>15. ASSUME NEW e \in Spaces, Redeploy(e) PROVE WidthInv'
  BY <1>13, <1>15, OtherMoves
<1>16. CASE DropCollections
  <2>1. op' = op /\ torn' = Documents
    BY <1>16 DEF DropCollections
  <2>2. ASSUME NEW p \in Processes PROVE WidthOf(p)'
    BY <2>1, OpType DEF WidthOf, Doc
  <2>. QED  BY <2>2 DEF WidthInv
<1>17. CASE UNCHANGED indexVars
  BY <1>13, <1>17 DEF indexVars
<1>. QED
  BY <1>3, <1>4, <1>5, <1>6, <1>7, <1>8, <1>9, <1>10, <1>11, <1>12, <1>14, <1>15, <1>16, <1>17, NextMoves DEF Indexes, Progress

\* A reindex, of a document or of the tenant, changes points only while both collections
\* have the size of its model; whatever other programs run (reindexing.py).
THEOREM MismatchStops == Spec => []MismatchTouchesNothing
<1>1. Init => WidthInv
  BY IdleOp DEF Init, WidthInv, WidthOf, Is
<1>2. WidthInv => MismatchTouchesNothing
  BY DEF WidthInv, WidthOf, MismatchTouchesNothing
<1>. QED
  BY <1>1, <1>2, TypesInit, TypesNext, LockInvInit, LockInvNext, WidthInvNext, PTL DEF Spec

-----------------------------------------------------------------------------
(* The rows: how many chunks a document has. *)

\* A document without text never has chunks; one that is ready has them otherwise.
ChunksFit(d) ==
  /\ d \in Textless => chunks[d] = 0
  /\ life[d] = "ready" /\ d \notin Textless => chunks[d] # 0

\* An attempt was counted.
Counted(p) == op[p].kind = "ingest" => tries[Doc(p)] # 0

RowsInv == (\A d \in Documents : ChunksFit(d)) /\ (\A p \in Processes : Counted(p))

\* A list of one document.
LEMMA OneDocument ==
  ASSUME NEW t \in Seq(Documents), Len(t) = 1 PROVE t = <<Head(t)>>
  OBVIOUS

\* While an attempt is under way no other one of its document is counted.
LEMMA TriesKept ==
  ASSUME Types, LockInv, NEW p \in Processes, NEW k \in Kinds, NEW t \in Seq(Documents),
         NEW s \in SUBSET Documents, Starts(p, k, t, s), NEW q \in Processes, op[q].kind = "ingest"
  PROVE  Doc(q) \in Documents /\ tries'[Doc(q)] = tries[Doc(q)]
<1>1. op[q].at # "idle"
  BY OpType, IdleOp DEF Is
<1>2. OpInv(q) /\ Doc(q) \in Documents /\ op[q].todo \in Seq(Documents)
  BY <1>1, OpType DEF LockInv
<1>3. op[q].todo = <<Doc(q)>>
  BY <1>1, <1>2, OneDocument DEF OpInv, Doc
<1>. QED  BY <1>2, <1>3 DEF Starts

\* A step that counts nothing and commits nothing.
LEMMA RowsInvQuiet ==
  ASSUME Types, RowsInv, NEW p \in Processes, Alone(p), UNCHANGED rowVars,
         \/ op'[p].kind # "ingest"
         \/ op'[p].kind = op[p].kind /\ Doc(p)' = Doc(p)
  PROVE  RowsInv'
<1>. USE DEF rowVars
<1>1. \A d \in Documents : ChunksFit(d)'
  BY DEF RowsInv, ChunksFit
<1>2. ASSUME NEW q \in Processes PROVE Counted(q)'
  <2>1. CASE q = p
    BY <2>1 DEF RowsInv, Counted
  <2>2. CASE q # p
    BY <2>2 DEF RowsInv, Counted, Alone, Doc
  <2>. QED  BY <2>1, <2>2
<1>. QED  BY <1>1, <1>2 DEF RowsInv

\* Every step keeps RowsInv.
LEMMA RowsInvNext == Types /\ LockInv /\ RowsInv /\ [Next]_vars => RowsInv'
<1>. SUFFICES ASSUME Types, LockInv, RowsInv, [Next]_vars PROVE RowsInv'
  OBVIOUS
<1>1. ASSUME NEW p \in Processes, Ends(p) PROVE Alone(p) /\ op'[p].kind # "ingest"
  BY <1>1, IdleOp DEF Ends, Is
<1>2. ASSUME NEW p \in Processes, Gone(p) PROVE RowsInv'
  BY <1>1, <1>2, RowsInvQuiet DEF Gone
<1>3. ASSUME NEW p \in Processes,
             BeginTenant(p) \/ \E d \in Documents : BeginIngest(p, d) \/ BeginReindex(p, d) \/ BeginDelete(p, d)
      PROVE  RowsInv'
  <2>1. PICK k \in Kinds, t \in Seq(Documents), s \in SUBSET Documents : Starts(p, k, t, s)
    BY <1>3, BeginMoves
  <2>2. \A d \in Documents : ChunksFit(d)'
    BY <2>1 DEF Starts, Begins, RowsInv, ChunksFit
  <2>3. Counted(p)'
    BY <2>1 DEF Starts, Begins, Is, Counted, Doc
  <2>4. ASSUME NEW q \in Processes \ {p} PROVE Counted(q)'
    <3>1. op'[q] = op[q] /\ Doc(q)' = Doc(q)
      BY <2>1 DEF Starts, Begins, Alone, Doc
    <3>. QED  BY <2>1, <3>1, TriesKept DEF RowsInv, Counted
  <2>. QED  BY <2>2, <2>3, <2>4 DEF RowsInv
<1>4. ASSUME NEW p \in Processes, NEW m, NEW c, Through(p, m, c), op[p].at # "idle"
      PROVE  Alone(p) /\ (op'[p].kind # "ingest" \/ (op'[p].kind = op[p].kind /\ Doc(p)' = Doc(p)))
  <2>1. op[p].kind = "ingest" => Len(op[p].todo) = 1
    BY <1>4 DEF LockInv, OpInv
  <2>. QED  BY <1>4, <2>1 DEF Through, Is, Doc
<1>5. ASSUME NEW p \in Processes, NEW a, NEW s, NEW m, NEW c, Onto(p, a, s, m, c)
      PROVE  Alone(p) /\ op'[p].kind = op[p].kind /\ Doc(p)' = Doc(p)
  BY <1>5 DEF Onto, Is, Doc
<1>6. ASSUME NEW p \in Processes, LockRow(p) PROVE RowsInv'
  BY <1>2, <1>4, <1>5, <1>6, LockMoves, RowsInvQuiet DEF Still
<1>7. ASSUME NEW p \in Processes, EnsureVectors(p) PROVE RowsInv'
  BY <1>2, <1>5, <1>7, EnsureVectorsMoves, RowsInvQuiet
<1>8. ASSUME NEW p \in Processes, EnsureChunks(p) PROVE RowsInv'
  BY <1>2, <1>5, <1>8, EnsureChunksMoves, RowsInvQuiet
<1>9. ASSUME NEW p \in Processes, EmbeddingFails(p) PROVE RowsInv'
  BY <1>4, <1>9, EmbeddingFailsMoves, RowsInvQuiet DEF Still
<1>10. ASSUME NEW p \in Processes, ClearPoints(p) PROVE RowsInv'
  <2>1. /\ Alone(p) /\ UNCHANGED rowVars
        /\ op'[p].kind # "ingest" \/ (op'[p].kind = op[p].kind /\ Doc(p)' = Doc(p))
    BY <1>1, <1>4, <1>5, <1>10, ClearPointsMoves
  <2>. QED  BY <2>1, RowsInvQuiet
<1>11. ASSUME NEW p \in Processes, UpsertPoints(p) PROVE RowsInv'
  BY <1>2, <1>5, <1>11, UpsertPointsMoves, RowsInvQuiet
<1>12. ASSUME NEW p \in Processes, WriteVector(p) PROVE RowsInv'
  BY <1>2, <1>4, <1>12, WriteVectorMoves, RowsInvQuiet
<1>13. ASSUME NEW p \in Processes, Commit(p) PROVE RowsInv'
  <2>1. Alone(p) /\ op'[p].kind # "ingest" /\ tries' = tries /\ \A d \in Documents : Committed(p, d)
    BY <1>1, <1>13, CommitMoves
  <2>2. ASSUME NEW d \in Documents PROVE ChunksFit(d)'
    <3>1. ChunksFit(d)
      BY DEF RowsInv
    <3>2. CASE lock[d] # p
      BY <2>1, <3>1, <3>2 DEF Committed, ChunksFit
    <3>3. CASE lock[d] = p /\ op[p].kind = "ingest"
      <4>1. Doc(p) = d
        BY <3>3, VectorIndexAssumption DEF LockInv, RowInv, Doc
      <4>2. tries[d] # 0
        BY <3>3, <4>1 DEF RowsInv, Counted
      <4>. QED  BY <2>1, <3>3, <4>2 DEF Committed, ChunksFit
    <3>4. CASE lock[d] = p /\ op[p].kind # "ingest"
      BY <2>1, <3>1, <3>4 DEF Committed, ChunksFit
    <3>. QED  BY <3>2, <3>3, <3>4
  <2>3. ASSUME NEW q \in Processes PROVE Counted(q)'
    <3>1. CASE q = p
      BY <2>1, <3>1 DEF Counted
    <3>2. CASE q # p
      BY <2>1, <3>2 DEF RowsInv, Counted, Alone, Doc
    <3>. QED  BY <3>1, <3>2
  <2>. QED  BY <2>2, <2>3 DEF RowsInv
<1>14. ASSUME NEW p \in Processes, Fails(p) PROVE RowsInv'
  BY <1>2, <1>14, AbortFields DEF Fails
<1>15. CASE UNCHANGED <<op, rowVars>>
  BY <1>15 DEF RowsInv, ChunksFit, Counted, Doc, rowVars
<1>16. ASSUME NEW s \in Searches, Hydrate(s) \/ \E d \in Documents : Query(s, d) PROVE RowsInv'
  BY <1>15, <1>16, OtherMoves
<1>17. ASSUME NEW e \in Spaces, Redeploy(e) PROVE RowsInv'
  BY <1>15, <1>17, OtherMoves
<1>18. CASE DropCollections
  BY <1>15, <1>18 DEF DropCollections
<1>19. CASE UNCHANGED indexVars
  BY <1>15, <1>19 DEF indexVars
<1>. QED
  BY <1>3, <1>6, <1>7, <1>8, <1>9, <1>10, <1>11, <1>12, <1>13, <1>14, <1>16, <1>17, <1>18, <1>19, NextMoves DEF Indexes, Progress

-----------------------------------------------------------------------------
(* The vectors are those of the rows.  Programs are replaced all at once:  *)
(* with Rolling they are not, see README.                                  *)

\* All programs embed alike.
OneSpace == \A q, r \in Programs : space[q] = space[r]

\* Every step keeps it, when programs are replaced all at once.
LEMMA OneSpaceNext == Rolling = FALSE => (Types /\ OneSpace /\ [Next]_vars => OneSpace')
<1>. SUFFICES ASSUME Rolling = FALSE, Types, OneSpace, [Next]_vars PROVE OneSpace'
  OBVIOUS
<1>1. CASE space' = space
  BY <1>1 DEF OneSpace
<1>2. ASSUME NEW e \in Spaces, Redeploy(e) PROVE OneSpace'
  <2>1. space' = [q \in Programs |-> e]
    BY <1>2 DEF Redeploy
  <2>. QED  BY <2>1 DEF OneSpace
<1>. USE DEF rowVars, qdrantVars
<1>3. ASSUME NEW p \in Processes, Gone(p) PROVE OneSpace'
  BY <1>1, <1>3 DEF Gone
<1>4. ASSUME NEW p \in Processes,
             BeginTenant(p) \/ \E d \in Documents : BeginIngest(p, d) \/ BeginReindex(p, d) \/ BeginDelete(p, d)
      PROVE  OneSpace'
  BY <1>1, <1>4, BeginMoves DEF Starts, Begins
<1>5. ASSUME NEW p \in Processes, LockRow(p) PROVE OneSpace'
  BY <1>1, <1>3, <1>5, LockMoves DEF Still
<1>6. ASSUME NEW p \in Processes, Progress(p) PROVE OneSpace'
  BY <1>1, <1>3, <1>6, EnsureVectorsMoves, EnsureChunksMoves, ClearPointsMoves, UpsertPointsMoves,
     WriteVectorMoves, CommitMoves DEF Progress
<1>7. ASSUME NEW p \in Processes, EmbeddingFails(p) \/ Fails(p) PROVE OneSpace'
  BY <1>1, <1>3, <1>7, EmbeddingFailsMoves, AbortFields DEF Still, Fails
<1>8. ASSUME NEW s \in Searches, Hydrate(s) \/ \E d \in Documents : Query(s, d) PROVE OneSpace'
  BY <1>1, <1>8, OtherMoves
<1>9. CASE DropCollections
  BY <1>1, <1>9 DEF DropCollections
<1>10. CASE UNCHANGED indexVars
  BY <1>1, <1>10 DEF indexVars
<1>. QED  BY <1>2, <1>4, <1>5, <1>6, <1>7, <1>8, <1>9, <1>10, NextMoves DEF Indexes

\* The points, and the document vector, of c chunks in the space e.
Shows(d, c, e) == points[d] = IF c = 0 THEN {} ELSE {[chunk |-> c, space |-> e]}
Carries(d, c, e) == docVector[d] = IF c = 0 THEN NoSpace ELSE e

\* The chunks the row of d will have when p commits.
NewChunks(p, d) ==
  CASE op[p].kind = "delete" -> 0
    [] op[p].kind = "ingest" -> IF d \in Textless THEN 0 ELSE tries[d]
    [] OTHER -> chunks[d]

\* As long as nobody has changed the vectors of a document they are those of its row.
Settled(d) ==
  d \notin torn /\ (lock[d] = Nobody \/ d \notin op[lock[d]].touched) =>
    Shows(d, chunks[d], identity[d]) /\ Carries(d, chunks[d], identity[d])

\* What p believes to be in the row is in the row.
Reads(p) == \A d \in op[p].same : identity[d] = space[p]

\* The row will name the space of p.
Records(p, d) == op[p].kind = "delete" \/ d \in op[p].same \cup op[p].marked

\* The vectors of a document p is through with are those its row will have.
Done(p, d) ==
  /\ Records(p, d)
  /\ d \in torn \/ (Shows(d, NewChunks(p, d), space[p]) /\ Carries(d, NewChunks(p, d), space[p]))

\* The vectors of a document p has changed.
Written(p, d) ==
  LET now == Doc(p) = d IN
  /\ now /\ op[p].at = "upsert" => NewChunks(p, d) # 0 /\ points[d] = {}
  /\ now /\ op[p].at = "vector" => Records(p, d) /\ (d \in torn \/ Shows(d, NewChunks(p, d), space[p]))
  /\ ~(now /\ op[p].at \in After) => Done(p, d)

IndexInv ==
  /\ \A d \in Documents : Settled(d)
  /\ \A p \in Processes : Reads(p) /\ \A d \in op[p].touched : Written(p, d)

\* What a step of p may do to a document whose row another one holds, or nobody.
Untouched(p, d) ==
  /\ points'[d] = points[d] /\ docVector'[d] = docVector[d] /\ chunks'[d] = chunks[d]
  /\ identity'[d] = identity[d] /\ (d \in torn' <=> d \in torn)
  /\ \/ lock'[d] = lock[d]
     \/ lock[d] = Nobody /\ lock'[d] = p /\ d \notin op'[p].touched

\* A step of one process is looked at for this process and the rows it holds.
LEMMA IndexInvBy ==
  ASSUME Types, LockInv, OneSpace, IndexInv, NEW p \in Processes, Alone(p), space' = space,
         \A d \in Documents : lock[d] # p => Untouched(p, d),
         \A d \in Documents : identity'[d] \in {identity[d], space[p]},
         \A q \in Processes : op[q].kind = "ingest" => tries'[Doc(q)] = tries[Doc(q)],
         \A d \in Documents : lock[d] = p => Settled(d)',
         Reads(p)', \A d \in op'[p].touched : Written(p, d)'
  PROVE  IndexInv'
<1>1. ASSUME NEW d \in Documents, lock[d] # p PROVE Settled(d)'
  <2>1. Settled(d) /\ Untouched(p, d)
    BY <1>1 DEF IndexInv
  <2>2. CASE lock'[d] = lock[d]
    <3>1. lock[d] # Nobody => lock[d] \in Processes \ {p} /\ op'[lock[d]] = op[lock[d]]
      BY <1>1 DEF Types, Alone
    <3>. QED  BY <2>1, <2>2, <3>1 DEF Settled, Untouched, Shows, Carries
  <2>3. CASE lock[d] = Nobody /\ lock'[d] = p
    BY <2>1, <2>3 DEF Settled, Untouched, Shows, Carries
  <2>. QED  BY <2>1, <2>2, <2>3 DEF Untouched
<1>2. ASSUME NEW q \in Processes \ {p}
      PROVE  Reads(q)' /\ \A d \in op'[q].touched : Written(q, d)'
  <2>1. op'[q] = op[q] /\ Doc(q)' = Doc(q) /\ space[q] = space[p] /\ Reads(q) /\ OpInv(q)
    BY DEF Alone, Doc, OneSpace, Programs, IndexInv, LockInv
  <2>2. op[q].same \subseteq Documents /\ op[q].touched \subseteq Documents
    BY OpType
  <2>3. Reads(q)'
    BY <2>1, <2>2 DEF Reads
  <2>4. ASSUME NEW d \in op[q].touched PROVE Written(q, d)'
    <3>1. Written(q, d) /\ d \in Documents /\ lock[d] = q
      BY <2>1, <2>2 DEF IndexInv, OpInv
    <3>2. Untouched(p, d)
      BY <3>1
    <3>3. NewChunks(q, d)' = NewChunks(q, d)
      <4>1. op[q].kind = "ingest" => Doc(q) = d
        BY <3>1, VectorIndexAssumption DEF LockInv, RowInv, Doc
      <4>. QED  BY <2>1, <3>2, <4>1 DEF NewChunks, Untouched
    <3>4. Records(q, d)' = Records(q, d)
      BY <2>1 DEF Records
    <3>5. Shows(d, NewChunks(q, d), space[q])' <=> Shows(d, NewChunks(q, d), space[q])
      BY <3>2, <3>3 DEF Shows, Untouched
    <3>6. Carries(d, NewChunks(q, d), space[q])' <=> Carries(d, NewChunks(q, d), space[q])
      BY <3>2, <3>3 DEF Carries, Untouched
    <3>. QED  BY <2>1, <3>1, <3>2, <3>3, <3>4, <3>5, <3>6 DEF Written, Done, Untouched
  <2>. QED  BY <2>1, <2>3, <2>4
<1>. QED  BY <1>1, <1>2 DEF IndexInv

\* The chunks of the document at hand.
LEMMA NewChunksAtHand ==
  ASSUME NEW p \in Processes, op[p].kind # "delete" PROVE NewChunks(p, Doc(p)) = ChunksOf(p)
  BY DEF NewChunks, ChunksOf

\* The end of an operation that failed: what it has changed is torn.
LEMMA IndexInvEnds ==
  ASSUME Types, LockInv, OneSpace, IndexInv, NEW p \in Processes, Ends(p), space' = space,
         op[p].touched \subseteq torn', torn \subseteq torn',
         \A d \in Documents : lock[d] # p => (d \in torn' <=> d \in torn),
         UNCHANGED <<rowVars, docVector>>, \A d \in Documents : d \notin torn' => points'[d] = points[d],
         \A d \in Documents : lock[d] # p => points'[d] = points[d]
  PROVE  IndexInv'
<1>. USE DEF rowVars
<1>1. Alone(p) /\ op'[p].same = {} /\ op'[p].touched = {}
  BY IdleOp DEF Ends, Is
<1>2. \A d \in Documents : lock[d] # p => Untouched(p, d)
  BY DEF Untouched, Ends
<1>3. ASSUME NEW d \in Documents, lock[d] = p PROVE Settled(d)'
  <2>1. Settled(d) /\ lock'[d] = Nobody
    BY <1>3 DEF IndexInv, Ends
  <2>. QED  BY <1>3, <2>1 DEF Settled, Shows, Carries
<1>4. Reads(p)' /\ \A d \in op'[p].touched : Written(p, d)'
  BY <1>1 DEF Reads
<1>. QED  BY <1>1, <1>2, <1>3, <1>4, IndexInvBy

\* A step that changes no vectors and no row, of a process that is between documents or
\* before the points of the one at hand.
LEMMA IndexInvQuiet ==
  ASSUME Types, LockInv, OneSpace, IndexInv, NEW p \in Processes, Alone(p),
         UNCHANGED <<rowVars, points, docVector, space, torn>>,
         \A d \in Documents : lock'[d] = lock[d] \/ (lock[d] = Nobody /\ lock'[d] = p /\ d \notin op'[p].touched),
         op[p].at \notin After, op'[p].at \notin After,
         op'[p].kind = op[p].kind, op'[p].touched = op[p].touched, op'[p].marked = op[p].marked,
         Reads(p)', op'[p].same = op[p].same \/ op[p].touched = {}
  PROVE  IndexInv'
<1>. USE DEF rowVars
<1>1. \A d \in Documents : lock[d] # p => Untouched(p, d)
  BY DEF Untouched
<1>2. ASSUME NEW d \in Documents, lock[d] = p PROVE Settled(d)'
  <2>1. Settled(d) /\ lock'[d] = p
    BY <1>2, VectorIndexAssumption DEF IndexInv
  <2>. QED  BY <1>2, <2>1 DEF Settled, Shows, Carries
<1>3. ASSUME NEW d \in op'[p].touched PROVE Written(p, d)'
  <2>1. Done(p, d) /\ op'[p].same = op[p].same
    BY <1>3 DEF IndexInv, Written
  <2>2. NewChunks(p, d)' = NewChunks(p, d)
    BY DEF NewChunks
  <2>3. Done(p, d)'
    BY <2>1, <2>2 DEF Done, Records, Shows, Carries
  <2>. QED  BY <2>3, <1>3 DEF Written, After
<1>. QED  BY <1>1, <1>2, <1>3, IndexInvBy DEF Doc

\* The beginning of an operation.
LEMMA IndexInvBegins ==
  ASSUME Types, LockInv, OneSpace, IndexInv, NEW p \in Processes, NEW k \in Kinds,
         NEW t \in Seq(Documents), NEW s \in SUBSET Documents, Starts(p, k, t, s)
  PROVE  IndexInv'
<1>. USE DEF rowVars, qdrantVars
<1>1. /\ Alone(p) /\ op[p].at = "idle" /\ op'[p].same = s /\ op'[p].touched = {}
      /\ UNCHANGED <<life, chunks, identity, lock, points, docVector, space, torn>>
  BY IdleOp DEF Starts, Begins, Is
<1>2. \A d \in Documents : lock[d] # p => Untouched(p, d)
  BY <1>1 DEF Untouched
<1>3. \A d \in Documents : lock[d] # p
  BY <1>1, VectorIndexAssumption DEF LockInv, RowInv
<1>4. \A q \in Processes : op[q].kind = "ingest" => tries'[Doc(q)] = tries[Doc(q)]
  BY TriesKept
<1>5. Reads(p)' /\ \A d \in op'[p].touched : Written(p, d)'
  BY <1>1 DEF Reads, Starts
<1>. QED  BY <1>1, <1>2, <1>3, <1>4, <1>5, IndexInvBy

\* A step that changes the vectors of the document at hand, and no row.
LEMMA IndexInvWrites ==
  ASSUME Types, LockInv, OneSpace, IndexInv, NEW p \in Processes, Alone(p),
         UNCHANGED <<rowVars, lock, space>>, op[p].at # "idle",
         NEW h \in Documents, h = Doc(p), lock[h] = p,
         \A e \in Documents \ {h} :
           points'[e] = points[e] /\ docVector'[e] = docVector[e] /\ (e \in torn' <=> e \in torn),
         op'[p].kind = op[p].kind, op'[p].same = op[p].same, op[p].marked \subseteq op'[p].marked,
         op'[p].touched = op[p].touched \cup {h},
         op'[p].at \in After => Doc(p)' = h,
         Written(p, h)'
  PROVE  IndexInv'
<1>. USE DEF rowVars
<1>1. op[p].same \subseteq Documents /\ op[p].touched \subseteq Documents
  BY OpType
<1>2. ASSUME NEW d \in Documents, lock[d] # p PROVE Untouched(p, d)
  BY <1>2 DEF Untouched
<1>3. ASSUME NEW d \in Documents, lock[d] = p PROVE Settled(d)'
  <2>1. CASE d = h
    BY <2>1, <1>3, VectorIndexAssumption DEF Settled
  <2>2. CASE d # h
    <3>1. Settled(d) /\ lock'[d] = p /\ p # Nobody
      BY <1>3, VectorIndexAssumption DEF IndexInv
    <3>. QED  BY <1>3, <2>2, <3>1 DEF Settled, Shows, Carries
  <2>. QED  BY <2>1, <2>2
<1>4. Reads(p)'
  BY <1>1 DEF IndexInv, Reads
<1>5. ASSUME NEW e \in op'[p].touched PROVE Written(p, e)'
  <2>1. CASE e = h
    BY <2>1
  <2>2. CASE e # h
    <3>1. e \in Documents /\ Done(p, e)
      BY <1>1, <2>2 DEF IndexInv, Written
    <3>2. NewChunks(p, e)' = NewChunks(p, e)
      BY DEF NewChunks
    <3>3. Records(p, e)'
      BY <3>1 DEF Done, Records
    <3>4. Done(p, e)'
      BY <2>2, <3>1, <3>2, <3>3 DEF Done, Shows, Carries
    <3>5. ~(Doc(p)' = e /\ op'[p].at \in After)
      BY <2>2
    <3>6. ~(Doc(p)' = e /\ op'[p].at = "upsert") /\ ~(Doc(p)' = e /\ op'[p].at = "vector")
      BY <3>5 DEF After
    <3>. QED  BY <3>4, <3>5, <3>6 DEF Written
  <2>. QED  BY <2>1, <2>2
<1>. QED  BY <1>2, <1>3, <1>4, <1>5, IndexInvBy

\* Every step keeps IndexInv.
LEMMA IndexInvNext ==
  Types /\ LockInv /\ RowsInv /\ OneSpace /\ IndexInv /\ [Next]_vars => IndexInv'
<1>. SUFFICES ASSUME Types, LockInv, RowsInv, OneSpace, IndexInv, [Next]_vars PROVE IndexInv'
  OBVIOUS
<1>. USE DEF rowVars, qdrantVars
<1>1. ASSUME NEW p \in Processes PROVE p # Nobody /\ OpInv(p) /\ Reads(p)
  BY VectorIndexAssumption DEF LockInv, IndexInv
<1>2. ASSUME NEW p \in Processes, Gone(p) PROVE IndexInv'
  <2>1. \A d \in op[p].touched : lock[d] = p
    BY <1>1 DEF OpInv
  <2>. QED  BY <1>2, <2>1, IndexInvEnds DEF Gone
<1>3. ASSUME NEW p \in Processes,
             BeginTenant(p) \/ \E d \in Documents : BeginIngest(p, d) \/ BeginReindex(p, d) \/ BeginDelete(p, d)
      PROVE  IndexInv'
  BY <1>3, BeginMoves, IndexInvBegins
<1>4. ASSUME NEW p \in Processes, NEW m, NEW c, Through(p, m, c)
      PROVE  /\ Alone(p) /\ op'[p].at \notin After /\ op'[p].kind = op[p].kind /\ op'[p].same = op[p].same
             /\ op'[p].marked = m /\ op'[p].touched = c
  BY <1>4 DEF Through, Is, After
<1>5. ASSUME NEW p \in Processes, NEW a, NEW s, NEW m, NEW c, Onto(p, a, s, m, c)
      PROVE  /\ Alone(p) /\ op'[p].at = a /\ op'[p].kind = op[p].kind /\ op'[p].same = s
             /\ op'[p].marked = m /\ op'[p].touched = c /\ Doc(p)' = Doc(p)
  BY <1>5 DEF Onto, Is, Doc
<1>6. ASSUME NEW p \in Processes, LockRow(p) PROVE IndexInv'
  <2>1. op[p].at = "lock" /\ lock[Doc(p)] = Nobody /\ Doc(p) \in Documents /\ Doc(p) \notin op[p].touched
    BY <1>1, <1>6, LockMoves DEF OpInv
  <2>2. CASE Through(p, op[p].marked, op[p].touched) /\ Still /\ lock' = lock
    <3>1. Reads(p)'
      BY <1>1, <1>4, <2>2 DEF Reads, Still
    <3>. QED  BY <1>4, <2>1, <2>2, <3>1, IndexInvQuiet DEF Still, After
  <2>3. CASE /\ lock' = [lock EXCEPT ![Doc(p)] = p] /\ Still
             /\ Onto(p, FirstStep(op[p].kind), Loaded(p), op[p].marked, op[p].touched)
    <3>1. /\ Alone(p) /\ op'[p].at \notin After /\ op'[p].kind = op[p].kind /\ op'[p].same = Loaded(p)
          /\ op'[p].marked = op[p].marked /\ op'[p].touched = op[p].touched
      BY <1>5, <2>3 DEF FirstStep, After
    <3>2. Reads(p)'
      BY <1>1, <2>3, <3>1 DEF Reads, Loaded, Still
    <3>3. op'[p].same = op[p].same \/ op[p].touched = {}
      <4>1. CASE op[p].kind = "tenant"
        BY <3>1, <4>1 DEF Loaded
      <4>2. CASE op[p].kind # "tenant"
        <5>1. \A d \in op[p].touched : d \in Documents /\ lock[d] = p
          BY <1>1, OpType DEF OpInv
        <5>2. \A d \in Documents : lock[d] # p
          BY <1>1, <2>1, <4>2 DEF LockInv, RowInv
        <5>. QED  BY <5>1, <5>2
      <4>. QED  BY <4>1, <4>2
    <3>4. \A d \in Documents : lock'[d] = lock[d] \/ (lock[d] = Nobody /\ lock'[d] = p /\ d \notin op'[p].touched)
      BY <2>1, <2>3, <3>1 DEF Types
    <3>. QED  BY <2>1, <2>3, <3>1, <3>2, <3>3, <3>4, IndexInvQuiet DEF Still, After
  <2>. QED  BY <1>2, <1>6, <2>2, <2>3, LockMoves
<1>7. ASSUME NEW p \in Processes, EnsureVectors(p) PROVE IndexInv'
  <2>1. CASE /\ Onto(p, "ensure", op[p].same, op[p].marked, op[p].touched)
             /\ UNCHANGED <<rowVars, lock, points, docVector, space, torn>>
    <3>1. Reads(p)'
      BY <1>1, <1>5, <2>1 DEF Reads
    <3>2. op[p].at = "vectors"
      BY <1>7, EnsureVectorsMoves
    <3>. QED  BY <1>5, <2>1, <3>1, <3>2, IndexInvQuiet DEF After
  <2>. QED  BY <1>2, <1>7, <2>1, EnsureVectorsMoves
<1>8. ASSUME NEW p \in Processes, EnsureChunks(p) PROVE IndexInv'
  <2>1. CASE /\ Onto(p, "clear", op[p].same, op[p].marked, op[p].touched)
             /\ UNCHANGED <<rowVars, lock, points, docVector, space, torn>>
    <3>1. Reads(p)'
      BY <1>1, <1>5, <2>1 DEF Reads
    <3>2. op[p].at = "ensure"
      BY <1>8, EnsureChunksMoves
    <3>. QED  BY <1>5, <2>1, <3>1, <3>2, IndexInvQuiet DEF After
  <2>. QED  BY <1>2, <1>8, <2>1, EnsureChunksMoves
<1>9. ASSUME NEW p \in Processes, EmbeddingFails(p) PROVE IndexInv'
  <2>1. Reads(p)'
    BY <1>1, <1>4, <1>9, EmbeddingFailsMoves DEF Reads, Still
  <2>. QED  BY <1>4, <1>9, <2>1, EmbeddingFailsMoves, IndexInvQuiet DEF Still, After
<1>10. ASSUME NEW p \in Processes, ClearPoints(p) PROVE IndexInv'
  <2>. DEFINE t == op[p].touched \cup {Doc(p)}
              m == Marked(op[p], Doc(p))
  <2>1. PICK h \in Documents : h = Doc(p)
    BY <1>10, ClearPointsMoves
  <2>2. /\ op[p].at = "clear" /\ points' = [points EXCEPT ![h] = {}] /\ points'[h] = {}
        /\ UNCHANGED <<rowVars, docVector, space>>
        /\ lock[h] = p /\ h \notin op[p].touched
    <3>1. op[p].at = "clear" /\ points' = [points EXCEPT ![h] = {}] /\ UNCHANGED <<rowVars, docVector, space>>
      BY <1>10, <2>1, ClearPointsMoves
    <3>2. points'[h] = {}
      BY <3>1 DEF Types
    <3>3. lock[h] = p /\ h \notin op[p].touched
      BY <1>1, <2>1, <3>1 DEF OpInv, Before
    <3>. QED  BY <3>1, <3>2, <3>3
  <2>3. \A e \in Documents \ {h} : points'[e] = points[e]
    BY <2>2 DEF Types
  <2>4. op[p].marked \subseteq m /\ h \in op[p].same \cup m
    BY <2>1 DEF Marked
  <2>5. CASE Ends(p) /\ torn' = torn \cup t
    <3>1. \A d \in op[p].touched : lock[d] = p
      BY <1>1 DEF OpInv
    <3>. QED  BY <2>1, <2>2, <2>3, <2>5, <3>1, IndexInvEnds
  <2>6. CASE op[p].kind = "delete" /\ Onto(p, "vector", op[p].same, op[p].marked, t) /\ UNCHANGED <<lock, torn>>
    <3>1. op'[p].at = "vector" /\ op'[p].kind = "delete" /\ Doc(p)' = h
      BY <1>5, <2>1, <2>6
    <3>2. Records(p, h)' /\ Shows(h, NewChunks(p, h), space[p])'
      BY <2>2, <3>1 DEF Records, Shows, NewChunks
    <3>3. Written(p, h)'
      BY <3>1, <3>2 DEF Written, After
    <3>. QED  BY <1>5, <2>1, <2>2, <2>3, <2>6, <3>3, IndexInvWrites
  <2>7. CASE /\ op[p].kind # "delete" /\ ChunksOf(p) # 0 /\ Onto(p, "upsert", op[p].same, op[p].marked, t)
             /\ UNCHANGED <<lock, torn>>
    <3>1. NewChunks(p, h)' = NewChunks(p, h) /\ NewChunks(p, h) # 0
      BY <1>5, <2>1, <2>2, <2>7, NewChunksAtHand DEF NewChunks
    <3>2. Written(p, h)'
      BY <1>5, <2>1, <2>2, <2>7, <3>1 DEF Written, After
    <3>. QED  BY <1>5, <2>1, <2>2, <2>3, <2>7, <3>2, IndexInvWrites
  <2>8. CASE /\ op[p].kind = "ingest" /\ ChunksOf(p) = 0 /\ Onto(p, "vector", op[p].same, m, t)
             /\ UNCHANGED <<lock, torn>>
    <3>1. NewChunks(p, h)' = NewChunks(p, h) /\ NewChunks(p, h) = 0
      BY <1>5, <2>1, <2>2, <2>8, NewChunksAtHand DEF NewChunks
    <3>2. Records(p, h)' /\ Shows(h, NewChunks(p, h), space[p])'
      BY <1>5, <2>2, <2>4, <2>8, <3>1 DEF Records, Shows
    <3>3. op'[p].at = "vector" /\ Doc(p)' = h
      BY <1>5, <2>1, <2>8
    <3>4. Written(p, h)'
      BY <3>2, <3>3 DEF Written, After
    <3>. QED  BY <1>5, <2>1, <2>2, <2>3, <2>4, <2>8, <3>4, IndexInvWrites
  <2>9. CASE /\ op[p].kind = "tenant" /\ ChunksOf(p) = 0 /\ Through(p, m, t)
             /\ UNCHANGED <<lock, torn>>
    <3>1. NewChunks(p, h)' = NewChunks(p, h) /\ NewChunks(p, h) = 0 /\ chunks[h] = 0
      BY <1>4, <2>1, <2>2, <2>9, NewChunksAtHand DEF NewChunks
    <3>2. Records(p, h)' /\ Shows(h, NewChunks(p, h), space[p])'
      BY <1>4, <2>2, <2>4, <2>9, <3>1 DEF Records, Shows
    <3>3. h \notin torn => docVector[h] = NoSpace
      BY <2>2, <3>1 DEF IndexInv, Settled, Carries
    <3>4. Done(p, h)'
      BY <2>2, <2>9, <3>1, <3>2, <3>3 DEF Done, Carries
    <3>5. Written(p, h)'
      BY <1>4, <2>9, <3>4 DEF Written, After
    <3>. QED  BY <1>4, <2>1, <2>2, <2>3, <2>4, <2>9, <3>5, IndexInvWrites
  <2>. QED  BY <1>10, <2>5, <2>6, <2>7, <2>8, <2>9, ClearPointsMoves
<1>11. ASSUME NEW p \in Processes, UpsertPoints(p) PROVE IndexInv'
  <2>. DEFINE m == Marked(op[p], Doc(p))
              pt == [chunk |-> ChunksOf(p), space |-> space[p]]
  <2>1. PICK h \in Documents : h = Doc(p)
    BY <1>11, UpsertPointsMoves
  <2>2. op[p].at = "upsert" /\ h \in op[p].touched /\ lock[h] = p /\ op[p].kind # "delete"
    BY <1>1, <1>11, <2>1, UpsertPointsMoves DEF OpInv, After
  <2>3. NewChunks(p, h) # 0 /\ NewChunks(p, h) = ChunksOf(p)
    BY <2>1, <2>2, NewChunksAtHand DEF IndexInv, Written
  <2>4. op[p].marked \subseteq m /\ h \in op[p].same \cup m /\ op[p].touched = op[p].touched \cup {h}
    BY <2>1, <2>2 DEF Marked
  <2>5. CASE /\ points' = [points EXCEPT ![h] = {pt}] /\ torn' = torn \ {h}
             /\ Onto(p, "vector", op[p].same, m, op[p].touched)
             /\ UNCHANGED <<rowVars, lock, docVector, space>>
    <3>1. points'[h] = {pt} /\ \A e \in Documents \ {h} : points'[e] = points[e]
      BY <2>5 DEF Types
    <3>2. NewChunks(p, h)' = NewChunks(p, h)
      BY <1>5, <2>5 DEF NewChunks
    <3>3. Records(p, h)' /\ Shows(h, NewChunks(p, h), space[p])'
      BY <1>5, <2>3, <2>4, <2>5, <3>1, <3>2 DEF Records, Shows
    <3>4. op'[p].at = "vector" /\ Doc(p)' = h
      BY <1>5, <2>1, <2>5
    <3>5. Written(p, h)'
      BY <3>3, <3>4 DEF Written, After
    <3>. HIDE DEF pt
    <3>. QED  BY <1>5, <2>1, <2>2, <2>4, <2>5, <3>1, <3>5, IndexInvWrites
  <2>. QED  BY <1>2, <1>11, <2>1, <2>5, UpsertPointsMoves
<1>12. ASSUME NEW p \in Processes, WriteVector(p) PROVE IndexInv'
  <2>1. PICK h \in Documents : h = Doc(p)
    BY <1>12, WriteVectorMoves
  <2>2. op[p].at = "vector" /\ h \in op[p].touched /\ lock[h] = p
    BY <1>1, <1>12, <2>1, WriteVectorMoves DEF OpInv, After
  <2>3. Records(p, h) /\ (h \in torn \/ Shows(h, NewChunks(p, h), space[p]))
    BY <2>1, <2>2 DEF IndexInv, Written
  <2>4. op[p].touched = op[p].touched \cup {h}
    BY <2>2
  <2>5. CASE /\ docVector' = [docVector EXCEPT ![h] =
                   IF op[p].kind = "delete" \/ ChunksOf(p) = 0 THEN NoSpace ELSE space[p]]
             /\ Through(p, op[p].marked, op[p].touched)
             /\ UNCHANGED <<rowVars, lock, points, space, torn>>
    <3>1. NewChunks(p, h) = IF op[p].kind = "delete" THEN 0 ELSE ChunksOf(p)
      BY <2>1, NewChunksAtHand DEF NewChunks
    <3>2. /\ docVector'[h] = IF NewChunks(p, h) = 0 THEN NoSpace ELSE space[p]
          /\ \A e \in Documents \ {h} : docVector'[e] = docVector[e]
      BY <2>5, <3>1 DEF Types
    <3>3. NewChunks(p, h)' = NewChunks(p, h)
      BY <1>4, <2>5 DEF NewChunks
    <3>4. Records(p, h)'
      BY <1>4, <2>3, <2>5 DEF Records
    <3>5. h \notin torn' => Shows(h, NewChunks(p, h), space[p])'
      BY <2>3, <2>5, <3>3 DEF Shows
    <3>6. Carries(h, NewChunks(p, h), space[p])'
      BY <2>5, <3>2, <3>3 DEF Carries
    <3>7. Written(p, h)'
      BY <1>4, <2>5, <3>4, <3>5, <3>6 DEF Written, Done, After
    <3>. QED  BY <1>4, <2>1, <2>2, <2>4, <2>5, <3>2, <3>7, IndexInvWrites
  <2>. QED  BY <1>2, <1>12, <2>1, <2>5, WriteVectorMoves
<1>13. ASSUME NEW p \in Processes, Commit(p) PROVE IndexInv'
  <2>1. /\ op[p].at = "commit" /\ Ends(p) /\ Alone(p) /\ op'[p].same = {} /\ op'[p].touched = {}
        /\ UNCHANGED <<tries, points, docVector, space, torn>>
        /\ \A d \in Documents : Committed(p, d)
    BY <1>13, CommitMoves, IdleOp DEF Ends, Is
  <2>2. \A d \in op[p].marked : d \in op[p].touched /\ lock[d] = p
    BY <1>1 DEF OpInv
  <2>3. \A d \in Documents : lock[d] # p => Untouched(p, d)
    BY <2>1, <2>2 DEF Untouched, Ends, Committed
  <2>4. \A d \in Documents : identity'[d] \in {identity[d], space[p]}
    BY <2>1 DEF Committed
  <2>5. ASSUME NEW d \in Documents, lock[d] = p, d \notin torn
        PROVE  Shows(d, chunks[d], identity[d])' /\ Carries(d, chunks[d], identity[d])'
    <3>1. Committed(p, d) /\ ChunksFit(d)
      BY <2>1 DEF RowsInv
    <3>2. CASE d \in op[p].touched
      <4>1. Done(p, d)
        BY <2>1, <3>2 DEF IndexInv, Written, After
      <4>2. chunks'[d] = NewChunks(p, d)
        BY <2>5, <3>1 DEF Committed, NewChunks, ChunksFit
      <4>3. op[p].kind # "delete" => identity'[d] = space[p]
        BY <1>1, <3>1, <4>1 DEF Committed, Done, Records, Reads
      <4>4. op[p].kind = "delete" => chunks'[d] = 0
        BY <4>2 DEF NewChunks
      <4>5. Shows(d, NewChunks(p, d), space[p]) /\ Carries(d, NewChunks(p, d), space[p])
        BY <2>5, <4>1 DEF Done
      <4>. QED  BY <2>1, <4>2, <4>3, <4>4, <4>5 DEF Shows, Carries
    <3>3. CASE d \notin op[p].touched
      <4>1. op[p].kind = "tenant"
        BY <1>1, <2>1, <2>5, <3>3 DEF OpInv, LockInv, RowInv, Doc
      <4>2. chunks'[d] = chunks[d] /\ identity'[d] = identity[d]
        BY <2>2, <2>5, <3>1, <3>3, <4>1 DEF Committed, ChunksFit
      <4>3. Shows(d, chunks[d], identity[d]) /\ Carries(d, chunks[d], identity[d])
        BY <2>5, <3>3 DEF IndexInv, Settled
      <4>. QED  BY <2>1, <4>2, <4>3 DEF Shows, Carries
    <3>. QED  BY <3>2, <3>3
  <2>6. \A d \in Documents : lock[d] = p => Settled(d)'
    BY <2>1, <2>5 DEF Settled
  <2>7. Reads(p)' /\ \A d \in op'[p].touched : Written(p, d)'
    BY <2>1 DEF Reads
  <2>. QED  BY <2>1, <2>3, <2>4, <2>6, <2>7, IndexInvBy
<1>14. ASSUME NEW p \in Processes, Fails(p) PROVE IndexInv'
  BY <1>2, <1>14, AbortFields DEF Fails
<1>15. CASE UNCHANGED <<op, rowVars, points, docVector, lock, torn>> /\ \A p \in Processes : op[p] # Idle => space'[p] = space[p]
  <2>1. \A d \in Documents : Settled(d)'
    BY <1>15 DEF IndexInv, Settled, Shows, Carries
  <2>2. ASSUME NEW p \in Processes PROVE Reads(p)' /\ \A d \in op'[p].touched : Written(p, d)'
    <3>1. CASE op[p] = Idle
      <4>1. op'[p].same = {} /\ op'[p].touched = {}
        BY <1>15, <3>1, IdleOp DEF Is
      <4>. QED  BY <4>1 DEF Reads
    <3>2. CASE op[p] # Idle
      <4>1. UNCHANGED <<op, rowVars, points, docVector, lock, torn>> /\ space'[p] = space[p]
        BY <1>15, <3>2
      <4>2. Reads(p)'
        BY <1>1, <4>1 DEF Reads
      <4>3. ASSUME NEW d \in op[p].touched PROVE Written(p, d)'
        <5>1. /\ Written(p, d) /\ Doc(p)' = Doc(p) /\ Records(p, d)' = Records(p, d)
              /\ NewChunks(p, d)' = NewChunks(p, d)
          BY <4>1 DEF IndexInv, Doc, Records, NewChunks
        <5>2. /\ Shows(d, NewChunks(p, d), space[p])' = Shows(d, NewChunks(p, d), space[p])
              /\ Carries(d, NewChunks(p, d), space[p])' = Carries(d, NewChunks(p, d), space[p])
          BY <4>1, <5>1 DEF Shows, Carries
        <5>. QED  BY <4>1, <5>1, <5>2 DEF Written, Done
      <4>. QED  BY <4>1, <4>2, <4>3
    <3>. QED  BY <3>1, <3>2
  <2>. QED  BY <2>1, <2>2 DEF IndexInv
<1>16. ASSUME NEW s \in Searches, Hydrate(s) \/ \E d \in Documents : Query(s, d) PROVE IndexInv'
  BY <1>15, <1>16, OtherMoves
<1>17. ASSUME NEW e \in Spaces, Redeploy(e) PROVE IndexInv'
  BY <1>15, <1>17, OtherMoves
<1>18. CASE DropCollections
  <2>1. /\ op' = op /\ torn' = Documents /\ points' = [d \in Documents |-> {}]
        /\ UNCHANGED <<rowVars, lock, space>>
    BY <1>18 DEF DropCollections
  <2>2. \A d \in Documents : Settled(d)'
    BY <2>1 DEF Settled
  <2>3. ASSUME NEW p \in Processes, NEW d \in op[p].touched PROVE Written(p, d)'
    <3>1. d \in Documents /\ Written(p, d)
      BY OpType DEF IndexInv
    <3>2. NewChunks(p, d)' = NewChunks(p, d) /\ Records(p, d)' = Records(p, d) /\ Doc(p)' = Doc(p)
      BY <2>1 DEF NewChunks, Records, Doc
    <3>. QED  BY <2>1, <3>1, <3>2 DEF Written, Done
  <2>4. \A p \in Processes : Reads(p)'
    BY <1>1, <2>1 DEF Reads
  <2>. QED  BY <2>1, <2>2, <2>3, <2>4 DEF IndexInv
<1>19. CASE UNCHANGED indexVars
  BY <1>15, <1>19 DEF indexVars
<1>. QED
  BY <1>3, <1>6, <1>7, <1>8, <1>9, <1>10, <1>11, <1>12, <1>13, <1>14, <1>16, <1>17, <1>18, <1>19, NextMoves DEF Indexes, Progress

\* All of it at once.
IInv == Types /\ LockInv /\ RowsInv /\ OneSpace /\ IndexInv

\* The first state.
LEMMA IInvInit == Init => IInv
<1>. SUFFICES ASSUME Init PROVE IInv
  OBVIOUS
<1>1. Types /\ LockInv
  BY TypesInit, LockInvInit
<1>2. /\ \A p \in Processes : op[p].kind = "none" /\ op[p].same = {} /\ op[p].touched = {}
      /\ \A d \in Documents : life[d] = "queued" /\ chunks[d] = 0 /\ points[d] = {} /\ docVector[d] = NoSpace
  BY IdleOp DEF Init, Is
<1>3. RowsInv
  BY <1>2 DEF RowsInv, ChunksFit, Counted
<1>4. OneSpace
  BY DEF Init, OneSpace
<1>5. IndexInv
  BY <1>2 DEF IndexInv, Settled, Shows, Carries, Reads
<1>. QED  BY <1>1, <1>3, <1>4, <1>5 DEF IInv

\* Every step, when programs are replaced all at once.
LEMMA IInvNext == Rolling = FALSE => (IInv /\ [Next]_vars => IInv')
  BY TypesNext, LockInvNext, RowsInvNext, OneSpaceNext, IndexInvNext DEF IInv

\* The vectors of a ready document are those of its chunks, in the space its row names,
\* whatever ingestion, reindexes, deletes, failures and changes of the model come before:
\* only the holder of the row and an aborted operation show anything else
\* (processing.py, reindexing.py, indexing.py).
THEOREM RowsTellTheVectors == Rolling = FALSE => (Spec => []IndexMatchesRows)
<1>. SUFFICES ASSUME Rolling = FALSE PROVE Spec => []IndexMatchesRows
  OBVIOUS
<1>1. IInv => IndexMatchesRows
  <2>. SUFFICES ASSUME IInv, NEW d \in Documents, life[d] = "ready", d \notin torn, lock[d] = Nobody
                PROVE  /\ points[d] = IF chunks[d] = 0 THEN {} ELSE {[chunk |-> chunks[d], space |-> identity[d]]}
                       /\ docVector[d] = IF chunks[d] = 0 THEN NoSpace ELSE identity[d]
                       /\ chunks[d] = 0 <=> d \in Textless
    BY DEF IndexMatchesRows
  <2>1. Shows(d, chunks[d], identity[d]) /\ Carries(d, chunks[d], identity[d])
    BY DEF IInv, IndexInv, Settled
  <2>2. ChunksFit(d)
    BY DEF IInv, RowsInv
  <2>. QED  BY <2>1, <2>2 DEF Shows, Carries, ChunksFit
<1>2. IInv /\ [Next]_vars => IInv'
  BY IInvNext
<1>. QED  BY <1>1, <1>2, IInvInit, PTL DEF Spec

-----------------------------------------------------------------------------
(* What a search shows. *)

\* A point of another space that is not known to be outdated belongs to a row that names
\* that other space, and was not shown.
FoundOk(s) ==
  found[s] # NoHit /\ ~ found[s].stirred /\ found[s].scoredIn # space[s] =>
    ~ found[s].shown /\ identity[found[s].doc] # space[s]

FoundInv == \A s \in Searches : FoundOk(s)

\* The points of a document nobody has torn are in the space of its row or of all programs.
LEMMA PointSpace ==
  ASSUME IInv, NEW d \in Documents, d \notin torn, NEW pt \in points[d], NEW s \in Searches
  PROVE  pt.space = identity[d] \/ pt.space = space[s]
<1>1. CASE lock[d] = Nobody \/ d \notin op[lock[d]].touched
  <2>1. Shows(d, chunks[d], identity[d])
    BY <1>1 DEF IInv, IndexInv, Settled
  <2>. QED  BY <2>1 DEF Shows
<1>2. CASE lock[d] # Nobody /\ d \in op[lock[d]].touched
  <2>1. PICK p \in Processes : p = lock[d]
    BY <1>2 DEF IInv, Types
  <2>2. space[p] = space[s]
    BY DEF IInv, OneSpace, Programs
  <2>3. Written(p, d)
    BY <1>2, <2>1 DEF IInv, IndexInv
  <2>4. Shows(d, NewChunks(p, d), space[p])
    BY <2>3 DEF Written, Done, After
  <2>. QED  BY <2>2, <2>4 DEF Shows
<1>. QED  BY <1>1, <1>2

\* The point a search finds.
LEMMA QueryFinds ==
  ASSUME Types, NEW s \in Searches, NEW d \in Documents, Query(s, d)
  PROVE  /\ UNCHANGED <<identity, space>> /\ \A r \in Searches \ {s} : found'[r] = found[r]
         /\ found'[s].doc = d /\ found'[s].shown = FALSE /\ (~ found'[s].stirred => d \notin torn)
         /\ \E pt \in points[d] : found'[s].scoredIn = pt.space
<1>1. UNCHANGED <<rowVars, space>> /\ \A r \in Searches \ {s} : found'[r] = found[r]
  BY OtherMoves
<1>2. found'[s].doc = d /\ found'[s].shown = FALSE
  BY OtherMoves
<1>3. found'[s].stirred = (d \in torn)
  BY OtherMoves
<1>4. \E pt \in points[d] : found'[s].scoredIn = pt.space
  BY OtherMoves
<1>. QED  BY <1>1, <1>2, <1>3, <1>4 DEF rowVars

\* Every step keeps FoundInv, when programs are replaced all at once.
LEMMA FoundInvNext == Rolling = FALSE => (IInv /\ FoundInv /\ [Next]_vars => FoundInv')
<1>. SUFFICES ASSUME Rolling = FALSE, IInv, FoundInv, [Next]_vars PROVE FoundInv'
  OBVIOUS
<1>0. Types /\ OneSpace /\ LockInv
  BY DEF IInv
<1>. USE DEF rowVars, qdrantVars
<1>1. CASE UNCHANGED <<found, identity, space>>
  BY <1>1 DEF FoundInv, FoundOk
<1>2. ASSUME NEW p \in Processes, Gone(p) PROVE FoundInv'
  BY <1>1, <1>2 DEF Gone
<1>3. ASSUME NEW p \in Processes,
             BeginTenant(p) \/ \E d \in Documents : BeginIngest(p, d) \/ BeginReindex(p, d) \/ BeginDelete(p, d)
      PROVE  FoundInv'
  BY <1>0, <1>1, <1>3, BeginMoves DEF Starts, Begins
<1>4. ASSUME NEW p \in Processes, LockRow(p) PROVE FoundInv'
  BY <1>0, <1>1, <1>2, <1>4, LockMoves DEF Still
<1>5. ASSUME NEW p \in Processes, Progress(p), ~ Commit(p) PROVE FoundInv'
  BY <1>0, <1>1, <1>2, <1>5, EnsureVectorsMoves, EnsureChunksMoves, ClearPointsMoves, UpsertPointsMoves,
     WriteVectorMoves DEF Progress
<1>6. ASSUME NEW p \in Processes, Commit(p) PROVE FoundInv'
  <2>1. ASSUME NEW s \in Searches PROVE FoundOk(s)'
    <3>1. FoundOk(s) /\ space' = space
      BY <1>0, <1>6, CommitMoves DEF FoundInv
    <3>2. CASE found'[s] = NoHit
      BY <3>2 DEF FoundOk
    <3>3. CASE found'[s] # NoHit
      <4>1. /\ found[s] \in Hit /\ found'[s] \in Hit /\ found'[s].doc = found[s].doc
            /\ found'[s].shown = found[s].shown /\ found'[s].scoredIn = found[s].scoredIn
            /\ found'[s].stirred = (found[s].stirred \/ found[s].doc \in op[p].marked)
        BY <1>0, <1>6, <3>3, CommitMoves
      <4>2. PICK d \in Documents : d = found[s].doc
        BY <4>1 DEF Hit
      <4>3. d \notin op[p].marked => identity'[d] = identity[d]
        BY <1>0, <1>6, CommitMoves DEF Committed
      <4>4. found[s] # NoHit
        BY <1>6, <3>3 DEF Commit
      <4>. QED  BY <3>1, <4>1, <4>2, <4>3, <4>4 DEF FoundOk
    <3>. QED  BY <3>2, <3>3
  <2>. QED  BY <2>1 DEF FoundInv
<1>7. ASSUME NEW p \in Processes, EmbeddingFails(p) \/ Fails(p) PROVE FoundInv'
  BY <1>0, <1>1, <1>2, <1>7, EmbeddingFailsMoves, AbortFields DEF Still, Fails
<1>8. ASSUME NEW s \in Searches, NEW d \in Documents, Query(s, d) PROVE FoundInv'
  <2>1. UNCHANGED <<identity, space>> /\ \A r \in Searches \ {s} : found'[r] = found[r]
    BY <1>0, <1>8, QueryFinds
  <2>2. found'[s].doc = d /\ found'[s].shown = FALSE /\ (~ found'[s].stirred => d \notin torn)
    BY <1>0, <1>8, QueryFinds
  <2>3. PICK pt \in points[d] : found'[s].scoredIn = pt.space
    BY <1>0, <1>8, QueryFinds
  <2>4. d \notin torn => pt.space = identity[d] \/ pt.space = space[s]
    BY PointSpace
  <2>5. FoundOk(s)'
    BY <2>1, <2>2, <2>3, <2>4 DEF FoundOk
  <2>6. \A r \in Searches \ {s} : FoundOk(r)'
    BY <2>1 DEF FoundInv, FoundOk
  <2>. QED  BY <2>5, <2>6 DEF FoundInv
<1>9. ASSUME NEW s \in Searches, Hydrate(s) PROVE FoundInv'
  <2>1. UNCHANGED <<identity, space>> /\ \A r \in Searches \ {s} : found'[r] = found[r]
    BY <1>0, <1>9, OtherMoves
  <2>2. FoundOk(s) /\ found[s] # NoHit
    BY <1>9 DEF FoundInv, Hydrate, Answered
  <2>3. ASSUME found'[s] = NoHit PROVE FoundOk(s)'
    BY <2>3 DEF FoundOk
  <2>4. ASSUME found'[s] # NoHit PROVE FoundOk(s)'
    <3>1. IsCurrent(s, found[s]) /\ found'[s].scoredIn = found[s].scoredIn /\ found'[s].stirred = found[s].stirred
      BY <1>0, <1>9, <2>4, OtherMoves
    <3>2. identity[found[s].doc] = space[s]
      BY <3>1 DEF IsCurrent
    <3>. QED  BY <2>1, <2>2, <3>1, <3>2 DEF FoundOk
  <2>5. \A r \in Searches \ {s} : FoundOk(r)'
    BY <2>1 DEF FoundInv, FoundOk
  <2>. QED  BY <2>3, <2>4, <2>5 DEF FoundInv
<1>10. ASSUME NEW e \in Spaces, Redeploy(e) PROVE FoundInv'
  <2>1. found' = [s \in Searches |-> IF s \in Programs THEN NoHit ELSE found[s]]
    BY <1>10 DEF Redeploy
  <2>2. \A s \in Searches : found'[s] = NoHit
    BY <2>1 DEF Programs
  <2>. QED  BY <2>2 DEF FoundInv, FoundOk
<1>11. CASE DropCollections
  BY <1>1, <1>11 DEF DropCollections
<1>12. CASE UNCHANGED indexVars
  BY <1>1, <1>12 DEF indexVars
<1>. QED  BY <1>3, <1>4, <1>5, <1>6, <1>7, <1>8, <1>9, <1>10, <1>11, <1>12, NextMoves DEF Indexes

\* A search shows a score from a foreign space only if a reindex of the document was
\* committed between the two reads of the search, or if an aborted operation had left the
\* document torn (retrieval.py).
THEOREM MixedIsStirred == Rolling = FALSE => (Spec => []MixedOnlyAcrossReindex)
<1>. SUFFICES ASSUME Rolling = FALSE PROVE Spec => []MixedOnlyAcrossReindex
  OBVIOUS
<1>1. Init => FoundInv
  BY DEF Init, FoundInv, FoundOk
<1>2. FoundInv => MixedOnlyAcrossReindex
  BY DEF FoundInv, FoundOk, MixedOnlyAcrossReindex, Mixed
<1>3. IInv /\ [Next]_vars => IInv'
  BY IInvNext
<1>4. IInv /\ FoundInv /\ [Next]_vars => FoundInv'
  BY FoundInvNext
<1>. QED  BY <1>1, <1>2, <1>3, <1>4, IInvInit, PTL DEF Spec
-----------------------------------------------------------------------------
(* Circles of waits. *)

\* Nothing but an ingestion that has indexed its document draws relations.
Relates(p) ==
  keyShared[p] # {} \/ candidates[p] # << >> => op[p].kind = "ingest" /\ op[p].at = "commit"

RelatesInv ==
  /\ keyShared \in [Processes -> SUBSET Documents]
  /\ candidates \in [Processes -> Seq(Documents)]
  /\ \A p \in Processes : Relates(p)

\* Older documents come first.
Increasing(t) == \A i, j \in DOMAIN t : i < j => Age(t[i]) < Age(t[j])

\* The tenant's reindex has no row of a document that it has yet to come to, in the
\* order of created_at: it waits for the rows of younger ones only.
OldestFirst(p) ==
  op[p].kind = "tenant" =>
    /\ Increasing(op[p].todo)
    /\ \A d \in Documents :
         lock[d] = p => \/ Age(d) < Age(Doc(p))
                        \/ d = Doc(p) /\ op[p].at # "lock"

OrderInv == \A p \in Processes : OldestFirst(p)

\* Every document has an age of its own.
LEMMA AgeType ==
  ASSUME NEW d \in Documents
  PROVE  Age(d) \in 1 .. Len(Created) /\ Created[Age(d)] = d /\ Len(Created) \in Nat
<1>1. DOMAIN Created = 1 .. Len(Created) /\ Len(Created) \in Nat
  BY VectorIndexAssumption
<1>2. \E i \in DOMAIN Created : Created[i] = d
  BY VectorIndexAssumption
<1>3. Age(d) \in DOMAIN Created /\ Created[Age(d)] = d
  BY <1>2 DEF Age
<1>. QED  BY <1>1, <1>3

\* The rest of a list in order.
LEMMA TailIncreasing ==
  ASSUME NEW t \in Seq(Documents), t # << >>, Len(t) # 1, Increasing(t)
  PROVE  Increasing(Tail(t)) /\ Age(Head(t)) < Age(Head(Tail(t)))
<1>0. Len(t) \in Nat /\ Len(t) # 0
  BY EmptySeq
<1>1. Len(t) \in Nat /\ Len(t) > 1
  <2>. DEFINE n == Len(t)
  <2>1. n \in Nat /\ n # 0 /\ n # 1
    BY <1>0
  <2>. HIDE DEF n
  <2>2. n > 1
    BY <2>1
  <2>. QED  BY <2>1, <2>2 DEF n
<1>2. /\ Len(Tail(t)) = Len(t) - 1
      /\ \A i \in 1 .. Len(t) - 1 : Tail(t)[i] = t[i + 1]
  BY <1>1
<1>3. Tail(t) \in Seq(Documents) /\ DOMAIN Tail(t) = 1 .. Len(t) - 1 /\ DOMAIN t = 1 .. Len(t)
  BY <1>1, <1>2
<1>4. ASSUME NEW i \in DOMAIN Tail(t), NEW j \in DOMAIN Tail(t), i < j
      PROVE  Age(Tail(t)[i]) < Age(Tail(t)[j])
  <2>1. i + 1 \in DOMAIN t /\ j + 1 \in DOMAIN t /\ i + 1 < j + 1
    BY <1>1, <1>3, <1>4
  <2>2. Age(t[i + 1]) < Age(t[j + 1])
    BY <2>1 DEF Increasing
  <2>. QED  BY <1>2, <1>3, <2>2
<1>5. Head(t) = t[1] /\ Head(Tail(t)) = t[2]
  BY <1>1, <1>2, <1>3
<1>6. 1 \in DOMAIN t /\ 2 \in DOMAIN t
  BY <1>1, <1>3
<1>7. Age(t[1]) < Age(t[2])
  BY <1>6 DEF Increasing
<1>. QED  BY <1>4, <1>5, <1>7 DEF Increasing

\* What a step of p is to the rows it holds: it goes on with the document at hand, is
\* through with it, takes its row, or begins.
Keeps(p) ==
  /\ Alone(p) /\ lock' = lock /\ op'[p].kind = op[p].kind /\ op'[p].todo = op[p].todo
  /\ op[p].at # "lock" /\ op'[p].at # "lock"

Passes(p) ==
  /\ Alone(p) /\ lock' = lock /\ op'[p].kind = op[p].kind /\ op[p].at # "idle"
  /\ \/ op'[p].todo = op[p].todo /\ op'[p].at # "lock"
     \/ Len(op[p].todo) # 1 /\ op'[p].todo = Tail(op[p].todo)

Takes(p) ==
  /\ Alone(p) /\ op'[p].kind = op[p].kind /\ op'[p].todo = op[p].todo
  /\ op[p].at = "lock" /\ lock' = [lock EXCEPT ![Doc(p)] = p] /\ op'[p].at # "lock"

Lists(p) ==
  /\ Alone(p) /\ lock' = lock /\ op[p] = Idle
  /\ op'[p].kind = "tenant" => Increasing(op'[p].todo)

\* Every step is one of these, or the end of an operation.
LEMMA RowMoves ==
  ASSUME Types, [Next]_vars
  PROVE  \/ UNCHANGED <<op, lock>>
         \/ \E p \in Processes : Keeps(p) \/ Passes(p) \/ Takes(p) \/ Lists(p) \/ Ends(p)
<1>. DEFINE Goal == \E p \in Processes : Keeps(p) \/ Passes(p) \/ Takes(p) \/ Lists(p) \/ Ends(p)
<1>1. ASSUME NEW p \in Processes, BeginTenant(p) PROVE Goal
  <2>. DEFINE ready == {d \in Documents : life[d] = "ready"}
              s == {d \in ready : identity[d] = space[p]}
  <2>1. PICK t \in Ordered(ready) : Begin(p, "tenant", t, s)
    BY <1>1 DEF BeginTenant
  <2>2. t \in Seq(Documents) /\ s \in SUBSET Documents
    BY <1>1, OrderedType DEF BeginTenant
  <2>3. Increasing(t)
    BY DEF Ordered, Increasing
  <2>. HIDE DEF s, ready
  <2>4. Begins(p, "tenant", t, s)
    BY <2>1, <2>2, BeginFields DEF Kinds
  <2>5. Lists(p)
    BY <2>3, <2>4 DEF Begins, Is, Lists
  <2>. QED  BY <2>5
<1>2. ASSUME NEW p \in Processes, NEW d \in Documents, BeginIngest(p, d) \/ BeginReindex(p, d) \/ BeginDelete(p, d)
      PROVE  Goal
  <2>1. PICK k \in {"ingest", "reindex", "delete"} : Begin(p, k, <<d>>, {})
    BY <1>2 DEF BeginIngest, BeginReindex, BeginDelete
  <2>4. <<d>> \in Seq(Documents) /\ k \in Kinds /\ {} \in SUBSET Documents
    BY DEF Kinds
  <2>2. Begins(p, k, <<d>>, {})
    BY <2>1, <2>4, BeginFields
  <2>3. Lists(p)
    BY <2>1, <2>2 DEF Begins, Is, Lists
  <2>. QED  BY <2>3
<1>3. ASSUME NEW p \in Processes, NEW a, NEW s, NEW m, NEW c, Onto(p, a, s, m, c), lock' = lock,
             op[p].at # "lock", a # "lock"
      PROVE  Goal
  BY <1>3 DEF Onto, Is, Keeps
<1>4. ASSUME NEW p \in Processes, NEW m, NEW c, Through(p, m, c), lock' = lock, op[p].at # "idle"
      PROVE  Goal
  BY <1>4 DEF Through, Is, Passes
<1>5. ASSUME NEW p \in Processes, Gone(p) PROVE Goal
  BY <1>5 DEF Gone
<1>6. ASSUME NEW p \in Processes, LockRow(p) PROVE Goal
  <2>1. op[p].at = "lock"
    BY <1>6, LockMoves
  <2>2. CASE /\ lock' = [lock EXCEPT ![Doc(p)] = p]
             /\ Onto(p, FirstStep(op[p].kind), Loaded(p), op[p].marked, op[p].touched)
    <3>1. FirstStep(op[p].kind) # "lock"
      BY DEF FirstStep
    <3>2. Takes(p)
      BY <2>1, <2>2, <3>1 DEF Onto, Is, Takes
    <3>. QED  BY <3>2
  <2>3. CASE Through(p, op[p].marked, op[p].touched) /\ lock' = lock
    BY <1>4, <2>1, <2>3
  <2>. QED  BY <1>5, <1>6, <2>2, <2>3, LockMoves
<1>7. ASSUME NEW p \in Processes, EnsureVectors(p) PROVE Goal
  <2>1. op[p].at = "vectors"
    BY <1>7, EnsureVectorsMoves
  <2>2. CASE Onto(p, "ensure", op[p].same, op[p].marked, op[p].touched) /\ lock' = lock
    BY <1>3, <2>1, <2>2
  <2>. QED  BY <1>5, <1>7, <2>2, EnsureVectorsMoves
<1>8. ASSUME NEW p \in Processes, EnsureChunks(p) PROVE Goal
  <2>1. op[p].at = "ensure"
    BY <1>8, EnsureChunksMoves
  <2>2. CASE Onto(p, "clear", op[p].same, op[p].marked, op[p].touched) /\ lock' = lock
    BY <1>3, <2>1, <2>2
  <2>. QED  BY <1>5, <1>8, <2>2, EnsureChunksMoves
<1>9. ASSUME NEW p \in Processes, EmbeddingFails(p) PROVE Goal
  BY <1>4, <1>9, EmbeddingFailsMoves
<1>10. ASSUME NEW p \in Processes, ClearPoints(p) PROVE Goal
  <2>. DEFINE t == op[p].touched \cup {Doc(p)}
              m == Marked(op[p], Doc(p))
  <2>1. op[p].at = "clear"
    BY <1>10, ClearPointsMoves
  <2>2. ASSUME NEW a \in {"vector", "upsert"}, NEW n, Onto(p, a, op[p].same, n, t), lock' = lock PROVE Goal
    BY <1>3, <2>1, <2>2
  <2>3. ASSUME Through(p, m, t), lock' = lock PROVE Goal
    BY <1>4, <2>1, <2>3
  <2>. QED  BY <1>10, <2>2, <2>3, ClearPointsMoves
<1>11. ASSUME NEW p \in Processes, UpsertPoints(p) PROVE Goal
  <2>1. op[p].at = "upsert"
    BY <1>11, UpsertPointsMoves
  <2>2. ASSUME NEW n, Onto(p, "vector", op[p].same, n, op[p].touched), lock' = lock PROVE Goal
    BY <1>3, <2>1, <2>2
  <2>. QED  BY <1>5, <1>11, <2>2, UpsertPointsMoves
<1>12. ASSUME NEW p \in Processes, WriteVector(p) PROVE Goal
  <2>1. op[p].at = "vector"
    BY <1>12, WriteVectorMoves
  <2>2. CASE Through(p, op[p].marked, op[p].touched) /\ lock' = lock
    BY <1>4, <2>1, <2>2
  <2>. QED  BY <1>5, <1>12, <2>2, WriteVectorMoves
<1>13. ASSUME NEW p \in Processes, Commit(p) PROVE Goal
  BY <1>13, CommitMoves
<1>14. ASSUME NEW p \in Processes, Fails(p) PROVE Goal
  BY <1>5, <1>14, AbortFields DEF Fails
<1>15. ASSUME NEW s \in Searches, Hydrate(s) \/ \E d \in Documents : Query(s, d) PROVE UNCHANGED <<op, lock>>
  BY <1>15, OtherMoves
<1>16. ASSUME NEW e \in Spaces, Redeploy(e) PROVE UNCHANGED <<op, lock>>
  BY <1>16, OtherMoves
<1>17. DropCollections => UNCHANGED <<op, lock>>
  BY DEF DropCollections
<1>18. UNCHANGED indexVars => UNCHANGED <<op, lock>>
  BY DEF indexVars
<1>. HIDE DEF Goal
<1>19. Goal \/ UNCHANGED <<op, lock>>
  BY <1>1, <1>2, <1>6, <1>7, <1>8, <1>9, <1>10, <1>11, <1>12, <1>13, <1>14, <1>15, <1>16, <1>17, <1>18,
     NextMoves DEF Indexes, Progress
<1>. QED  BY <1>19 DEF Goal

\* Every step keeps the order.
LEMMA OrderInvNext == Types /\ LockInv /\ OrderInv /\ [Next]_vars => OrderInv'
<1>. SUFFICES ASSUME Types, LockInv, OrderInv, [Next]_vars PROVE OrderInv'
  OBVIOUS
<1>1. CASE UNCHANGED <<op, lock>>
  BY <1>1 DEF OrderInv, OldestFirst, Doc
<1>2. ASSUME NEW p \in Processes, Alone(p), OldestFirst(p)',
             \A d \in Documents, q \in Processes \ {p} : lock'[d] = q => lock[d] = q
      PROVE  OrderInv'
  <2>1. ASSUME NEW q \in Processes \ {p} PROVE OldestFirst(q)'
    <3>1. OldestFirst(q) /\ op'[q] = op[q] /\ Doc(q)' = Doc(q)
      BY <1>2 DEF OrderInv, Alone, Doc
    <3>. QED  BY <1>2, <3>1 DEF OldestFirst
  <2>. QED  BY <1>2, <2>1 DEF OrderInv
<1>3. ASSUME NEW p \in Processes, Keeps(p) PROVE OrderInv'
  <2>1. OldestFirst(p) /\ Doc(p)' = Doc(p)
    BY <1>3 DEF OrderInv, Keeps, Doc
  <2>2. OldestFirst(p)'
    BY <1>3, <2>1 DEF OldestFirst, Keeps
  <2>. QED  BY <1>2, <1>3, <2>2 DEF Keeps
<1>4. ASSUME NEW p \in Processes, Passes(p) PROVE OrderInv'
  <2>1. OldestFirst(p) /\ op[p].todo \in Seq(Documents) /\ op[p].todo # << >> /\ Doc(p) \in Documents
    BY <1>4, OpType DEF OrderInv, Passes
  <2>0. lock' = lock /\ op'[p].kind = op[p].kind
    BY <1>4 DEF Passes
  <2>2. ASSUME op'[p].todo = op[p].todo, op'[p].at # "lock" PROVE OldestFirst(p)'
    <3>1. Doc(p)' = Doc(p)
      BY <2>2 DEF Doc
    <3>. QED  BY <2>0, <2>1, <2>2, <3>1 DEF OldestFirst
  <2>3. ASSUME Len(op[p].todo) # 1, op'[p].todo = Tail(op[p].todo) PROVE OldestFirst(p)'
    <3>1. CASE op[p].kind # "tenant"
      BY <2>0, <3>1 DEF OldestFirst
    <3>2. CASE op[p].kind = "tenant"
      <4>1. Increasing(op[p].todo)
        BY <2>1, <3>2 DEF OldestFirst
      <4>2. Increasing(Tail(op[p].todo)) /\ Age(Doc(p)) < Age(Head(Tail(op[p].todo)))
        BY <2>1, <2>3, <4>1, TailIncreasing DEF Doc
      <4>3. Head(Tail(op[p].todo)) \in Documents
        BY <2>1, <2>3, TailSeq
      <4>4. Doc(p)' = Head(Tail(op[p].todo))
        BY <2>3 DEF Doc
      <4>5. ASSUME NEW d \in Documents, lock'[d] = p PROVE Age(d) < Age(Head(Tail(op[p].todo)))
        <5>1. Age(d) < Age(Doc(p)) \/ d = Doc(p)
          BY <2>0, <2>1, <3>2, <4>5 DEF OldestFirst
        <5>2. Age(d) \in Nat /\ Age(Doc(p)) \in Nat /\ Age(Head(Tail(op[p].todo))) \in Nat
          <6>1. \A e \in Documents : Age(e) \in Nat
            BY AgeType
          <6>. QED  BY <2>1, <4>3, <6>1
        <5>. DEFINE a == Age(d)
                    b == Age(Doc(p))
                    c == Age(Head(Tail(op[p].todo)))
        <5>3. a \in Nat /\ b \in Nat /\ c \in Nat /\ b < c /\ (a < b \/ a = b)
          BY <4>2, <5>1, <5>2
        <5>. HIDE DEF a, b, c
        <5>4. a < c
          BY <5>3
        <5>. QED  BY <5>4 DEF a, c
      <4>6. Increasing(op[p].todo)'
        BY <2>3, <4>2 DEF Increasing
      <4>. QED  BY <4>4, <4>5, <4>6 DEF OldestFirst
    <3>. QED  BY <3>1, <3>2
  <2>4. OldestFirst(p)' /\ Alone(p) /\ lock' = lock
    BY <1>4, <2>2, <2>3 DEF Passes
  <2>. QED  BY <1>2, <2>4
<1>5. ASSUME NEW p \in Processes, Takes(p) PROVE OrderInv'
  <2>1. OldestFirst(p) /\ Doc(p) \in Documents /\ Doc(p)' = Doc(p) /\ p # Nobody
    BY <1>5, OpType, VectorIndexAssumption DEF OrderInv, Takes, Doc
  <2>2. lock'[Doc(p)] = p /\ \A d \in Documents \ {Doc(p)} : lock'[d] = lock[d]
    BY <1>5, <2>1 DEF Takes, Types
  <2>3. OldestFirst(p)'
    BY <1>5, <2>1, <2>2 DEF OldestFirst, Takes
  <2>. QED  BY <1>2, <1>5, <2>2, <2>3 DEF Takes
<1>6. ASSUME NEW p \in Processes, Lists(p) PROVE OrderInv'
  <2>1. op[p].at = "idle" /\ p # Nobody
    BY <1>6, IdleOp, VectorIndexAssumption DEF Lists, Is
  <2>2. \A d \in Documents : lock[d] # p
    BY <2>1 DEF LockInv, RowInv
  <2>3. OldestFirst(p)'
    BY <1>6, <2>2 DEF OldestFirst, Lists
  <2>. QED  BY <1>2, <1>6, <2>3 DEF Lists
<1>7. ASSUME NEW p \in Processes, Ends(p) PROVE OrderInv'
  <2>1. op'[p].kind = "none"
    BY <1>7, IdleOp DEF Ends, Is
  <2>2. OldestFirst(p)'
    BY <2>1 DEF OldestFirst
  <2>3. \A d \in Documents, q \in Processes \ {p} : lock'[d] = q => lock[d] = q
    BY <1>7, VectorIndexAssumption DEF Ends
  <2>. QED  BY <1>2, <1>7, <2>2, <2>3 DEF Ends
<1>. QED  BY <1>1, <1>3, <1>4, <1>5, <1>6, <1>7, RowMoves

\* The other operations keep theirs.
Others(p) == \A q \in Processes \ {p} : op'[q] = op[q]

\* Every step but those that draw relations leaves them alone, before the operation is
\* about to commit, or gives up what it has of them.
LEMMA RelatingMoves ==
  ASSUME Types, RelatesInv, Indexes
  PROVE  \/ UNCHANGED <<op, relating>>
         \/ \E p \in Processes : op[p].at # "commit" /\ Others(p) /\ UNCHANGED relating
         \/ \E p \in Processes :
              /\ Others(p)
              /\ keyShared' = [keyShared EXCEPT ![p] = {}]
              /\ candidates' = [candidates EXCEPT ![p] = << >>]
<1>. DEFINE Early == \E p \in Processes : op[p].at # "commit" /\ Others(p) /\ UNCHANGED relating
            Drops == \E p \in Processes :
                       /\ Others(p)
                       /\ keyShared' = [keyShared EXCEPT ![p] = {}]
                       /\ candidates' = [candidates EXCEPT ![p] = << >>]
<1>1. \A p \in Processes : \A n : op' = [op EXCEPT ![p] = n] => Others(p)
  BY DEF Types, Others
<1>2. ASSUME NEW p \in Processes, Abort(p) PROVE Drops
  BY <1>1, <1>2 DEF Abort, Ended
<1>3. ASSUME NEW p \in Processes, NEW k, NEW t, NEW s, Begin(p, k, t, s) PROVE Early
  <2>1. op[p].at # "commit"
    BY <1>3, IdleOp DEF Begin, Is
  <2>. QED  BY <1>1, <1>3, <2>1 DEF Begin
<1>4. ASSUME NEW p \in Processes, BeginTenant(p) PROVE Early
  BY <1>3, <1>4 DEF BeginTenant
<1>5. ASSUME NEW p \in Processes, NEW d \in Documents, BeginIngest(p, d) \/ BeginReindex(p, d) \/ BeginDelete(p, d)
      PROVE  Early
  BY <1>3, <1>5 DEF BeginIngest, BeginReindex, BeginDelete
<1>6. ASSUME NEW p \in Processes, NEW n, Continue(p, n), UNCHANGED relating, op[p].at # "commit" PROVE Early
  BY <1>1, <1>6 DEF Continue
<1>7. ASSUME NEW p \in Processes, LockRow(p) PROVE Early \/ Drops
  <2>. DEFINE n == [op[p] EXCEPT !.same = Loaded(p),
                            !.at = CASE Reindexing(p) -> "vectors"
                                     [] op[p].kind = "ingest" -> "ensure"
                                     [] op[p].kind = "delete" -> "clear"]
  <2>1. op[p].at = "lock"
    BY <1>7 DEF LockRow, At
  <2>2. \/ Abort(p)
        \/ Continue(p, Advanced(op[p])) /\ UNCHANGED relating
        \/ Continue(p, n) /\ UNCHANGED relating
    BY <1>7 DEF LockRow
  <2>. HIDE DEF n
  <2>. QED  BY <1>2, <1>6, <2>1, <2>2
<1>8. ASSUME NEW p \in Processes, EnsureVectors(p) PROVE Early \/ Drops
  BY <1>2, <1>6, <1>8 DEF EnsureVectors, At
<1>9. ASSUME NEW p \in Processes, EnsureChunks(p) PROVE Early \/ Drops
  BY <1>2, <1>6, <1>9 DEF EnsureChunks, At
<1>10. ASSUME NEW p \in Processes, EmbeddingFails(p) PROVE Early
  BY <1>6, <1>10 DEF EmbeddingFails, At
<1>11. ASSUME NEW p \in Processes, ClearPoints(p) PROVE Early
  <2>1. op[p].at = "clear" /\ UNCHANGED relating
    BY <1>11 DEF ClearPoints, At
  <2>2. op' = Ended(p) \/ \E n : Continue(p, n)
    BY <1>11 DEF ClearPoints
  <2>. QED  BY <1>1, <1>6, <2>1, <2>2 DEF Ended
<1>12. ASSUME NEW p \in Processes, UpsertPoints(p) PROVE Early \/ Drops
  BY <1>2, <1>6, <1>12 DEF UpsertPoints, At
<1>13. ASSUME NEW p \in Processes, WriteVector(p) PROVE Early \/ Drops
  BY <1>2, <1>6, <1>13 DEF WriteVector, At
<1>14. ASSUME NEW p \in Processes, Commit(p) PROVE Drops
  <2>1. Others(p)
    BY <1>1, <1>14 DEF Commit, Ended
  <2>2. candidates' = [candidates EXCEPT ![p] = << >>]
    BY <1>14 DEF Commit, RelatesInv
  <2>. QED  BY <1>14, <2>1, <2>2 DEF Commit
<1>15. ASSUME NEW p \in Processes, Fails(p) PROVE Drops
  BY <1>2, <1>15 DEF Fails
<1>16. ASSUME NEW s \in Searches, Hydrate(s) \/ \E d \in Documents : Query(s, d) PROVE UNCHANGED <<op, relating>>
  BY <1>16 DEF Hydrate, Query
<1>17. ASSUME NEW e \in Spaces, Redeploy(e) PROVE UNCHANGED <<op, relating>>
  BY <1>17 DEF Redeploy
<1>18. DropCollections => UNCHANGED <<op, relating>>
  BY DEF DropCollections
<1>. HIDE DEF Early, Drops
<1>19. UNCHANGED <<op, relating>> \/ Early \/ Drops
  BY <1>4, <1>5, <1>7, <1>8, <1>9, <1>10, <1>11, <1>12, <1>13, <1>14, <1>15, <1>16, <1>17, <1>18
     DEF Indexes, Progress
<1>. QED  BY <1>19 DEF Early, Drops

\* Every step keeps RelatesInv.
LEMMA RelatesInvNext == Types /\ RelatesInv /\ [Next]_vars => RelatesInv'
<1>. SUFFICES ASSUME Types, RelatesInv, [Next]_vars PROVE RelatesInv'
  OBVIOUS
<1>. USE DEF relating
<1>1. CASE UNCHANGED <<op, relating>>
  BY <1>1 DEF RelatesInv, Relates
<1>2. ASSUME NEW p \in Processes, op[p].at # "commit", Others(p), UNCHANGED relating PROVE RelatesInv'
  <2>1. keyShared[p] = {} /\ candidates[p] = << >>
    BY <1>2 DEF RelatesInv, Relates
  <2>. QED  BY <1>2, <2>1 DEF RelatesInv, Relates, Others
<1>3. ASSUME NEW p \in Processes, Others(p),
             keyShared' = [keyShared EXCEPT ![p] = {}], candidates' = [candidates EXCEPT ![p] = << >>]
      PROVE  RelatesInv'
  BY <1>3 DEF RelatesInv, Relates, Others
<1>4. ASSUME NEW p \in Processes, FindCandidates(p) PROVE RelatesInv'
  <2>1. op[p].at = "commit" /\ op[p].kind = "ingest" /\ UNCHANGED <<op, keyShared>>
    BY <1>4 DEF FindCandidates, At
  <2>2. PICK S \in SUBSET Documents : \E t \in AnyOrder(S) : candidates' = [candidates EXCEPT ![p] = t]
    BY <1>4 DEF FindCandidates, Candidates
  <2>5. PICK t \in AnyOrder(S) : candidates' = [candidates EXCEPT ![p] = t]
    BY <2>2
  <2>3. t \in Seq(Documents)
    <3>1. IsFiniteSet(S)
      BY DocumentsFinite, FS_Subset
    <3>2. Cardinality(S) \in Nat
      BY <3>1, FS_CardinalityType
    <3>. QED  BY <3>2 DEF AnyOrder
  <2>. QED  BY <2>1, <2>3, <2>5 DEF RelatesInv, Relates
<1>5. ASSUME NEW p \in Processes, DrawRelation(p) PROVE RelatesInv'
  <2>. DEFINE e == Head(candidates[p])
              t == Tail(candidates[p])
  <2>1. op[p].at = "commit" /\ op[p].kind = "ingest" /\ op' = op
    BY <1>5 DEF DrawRelation, RelatesInv, Relates
  <2>2. candidates[p] \in Seq(Documents) /\ candidates[p] # << >>
    BY <1>5 DEF DrawRelation, RelatesInv
  <2>3. e \in Documents /\ t \in Seq(Documents)
    BY <2>2
  <2>4. keyShared' = [keyShared EXCEPT ![p] = keyShared[p] \cup {e}] /\ candidates' = [candidates EXCEPT ![p] = t]
    BY <1>5 DEF DrawRelation
  <2>. HIDE DEF e, t
  <2>. QED  BY <2>1, <2>3, <2>4 DEF RelatesInv, Relates
<1>6. Indexes \/ (\E p \in Processes : FindCandidates(p) \/ DrawRelation(p)) \/ UNCHANGED vars
  BY DEF Next, Indexes, Progress
<1>7. UNCHANGED vars => UNCHANGED <<op, relating>>
  BY DEF vars
<1>. QED  BY <1>1, <1>2, <1>3, <1>4, <1>5, <1>6, <1>7, RelatingMoves

\* Of operations that wait for each other's rows without drawing relations each one
\* waits for a tenant's reindex, which waits for the row of a younger document.
LEMMA NoCircle ==
  ASSUME Types, LockInv, OrderInv, RelatesInv
  PROVE  CirclesGoThroughRelations
<1>. SUFFICES ASSUME NEW S \in SUBSET Processes, S # {}, \A p \in S : Awaited(p) \cap S # {},
                     \A p \in S : candidates[p] = << >>
              PROVE  FALSE
  BY DEF CirclesGoThroughRelations
<1>1. ASSUME NEW p \in S PROVE op[p].at = "lock" /\ Doc(p) \in Documents
  BY <1>1, OpType DEF Awaited, At
<1>2. ASSUME NEW p \in S PROVE \E q \in S : Age(Doc(p)) < Age(Doc(q))
  <2>1. PICK q \in Awaited(p) \cap S : TRUE
    BY <1>2
  <2>2. op[q].at = "lock" /\ q \in Processes /\ q # Nobody
    BY <1>1, <2>1, VectorIndexAssumption
  <2>3. keyShared[q] = {}
    BY <2>2 DEF RelatesInv, Relates
  <2>4. lock[Doc(p)] = q
    BY <1>2, <2>1, <2>3 DEF Awaited
  <2>5. op[q].kind = "tenant"
    BY <1>1, <1>2, <2>2, <2>4 DEF LockInv, RowInv
  <2>6. Age(Doc(p)) < Age(Doc(q))
    BY <1>1, <1>2, <2>2, <2>4, <2>5 DEF OrderInv, OldestFirst
  <2>. QED  BY <2>1, <2>6
<1>. DEFINE Younger(p) == {d \in Documents : Age(Doc(p)) < Age(d)}
            Sets == {Younger(p) : p \in S}
<1>3. Sets \subseteq FiniteSubsetsOf(Documents)
  BY DocumentsFinite, FS_Subset DEF FiniteSubsetsOf
<1>4. PICK p \in S : \A q \in S : ~(<<Younger(q), Younger(p)>> \in StrictSubsetOrdering(Documents))
  <2>1. PICK s \in Sets : \A t \in Sets : ~(<<t, s>> \in StrictSubsetOrdering(Documents))
    <3>1. Sets # {}
      OBVIOUS
    <3>2. IsWellFoundedOn(StrictSubsetOrdering(Documents), FiniteSubsetsOf(Documents))
      BY FS_StrictSubsetOrderingWellFounded
    <3>. HIDE DEF Sets
    <3>. QED  BY <1>3, <3>1, <3>2, WFMin
  <2>. QED  BY <2>1
<1>5. PICK q \in S : Age(Doc(p)) < Age(Doc(q))
  BY <1>2
<1>6. \A d \in Documents : Age(d) \in Nat
  BY AgeType
<1>7. Younger(q) \subseteq Younger(p) /\ Doc(q) \in Younger(p) /\ Doc(q) \notin Younger(q)
  <2>1. Age(Doc(p)) \in Nat /\ Age(Doc(q)) \in Nat /\ Doc(q) \in Documents
    BY <1>1, <1>6
  <2>2. ASSUME NEW d \in Documents, Age(Doc(q)) < Age(d) PROVE Age(Doc(p)) < Age(d)
    <3>1. Age(d) \in Nat
      BY <1>6
    <3>. DEFINE a == Age(Doc(p))
                b == Age(Doc(q))
                c == Age(d)
    <3>2. a \in Nat /\ b \in Nat /\ c \in Nat /\ a < b /\ b < c
      BY <1>5, <2>1, <2>2, <3>1
    <3>. HIDE DEF a, b, c
    <3>3. a < c
      BY <3>2
    <3>. QED  BY <3>3 DEF a, c
  <2>3. ~(Age(Doc(q)) < Age(Doc(q)))
    <3>. DEFINE b == Age(Doc(q))
    <3>1. b \in Nat
      BY <2>1
    <3>. HIDE DEF b
    <3>2. ~(b < b)
      BY <3>1
    <3>. QED  BY <3>2 DEF b
  <2>. QED  BY <1>5, <2>1, <2>2, <2>3
<1>8. <<Younger(q), Younger(p)>> \in StrictSubsetOrdering(Documents)
  <2>1. Younger(q) \subseteq Documents /\ Younger(p) \subseteq Documents /\ Younger(q) # Younger(p)
    BY <1>7
  <2>. HIDE DEF Younger
  <2>. QED  BY <1>7, <2>1 DEF StrictSubsetOrdering
<1>. QED  BY <1>4, <1>8

\* VectorIndex.tla, for any number of operations and documents: only an ingestion that
\* draws relations can close a circle of waits, because reindex_tenant lists the
\* documents in one order for all its callers.
THEOREM OnlyRelationsCloseCircles == Spec => []CirclesGoThroughRelations
<1>. DEFINE CInv == Types /\ LockInv /\ OrderInv /\ RelatesInv
<1>1. Init => OrderInv
  BY IdleOp DEF Init, OrderInv, OldestFirst, Is
<1>2. Init => RelatesInv
  BY DEF Init, RelatesInv, Relates
<1>3. Init => CInv
  BY <1>1, <1>2, TypesInit, LockInvInit
<1>4. CInv /\ [Next]_vars => CInv'
  BY TypesNext, LockInvNext, OrderInvNext, RelatesInvNext
<1>5. CInv => CirclesGoThroughRelations
  BY NoCircle
<1>. QED  BY <1>3, <1>4, <1>5, PTL DEF Spec
=============================================================================
