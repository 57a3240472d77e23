-------------------------- MODULE RelationsProofs --------------------------
(****************************************************************************)
(* Proofs about Relations, for any finite set of documents, any texts,      *)
(* similarities, profiles and thresholds.                                   *)
(****************************************************************************)
EXTENDS Relations, FiniteSetTheorems, TLAPS

Kinds == {"exact_duplicate", "content_duplicate", "possible_version", "same_case",
          "same_entity", "related", "none"}
Phases == {"none", "begun", "indexed", "found", "drawing", "deleting"}
Edges == Docs \X Docs \X Kinds
AnyProfile == (UNION {Profiles[d] : d \in Docs}) \cup {NoProfile}

Job == [phase : Phases, profile : AnyProfile, similar : SUBSET Docs, matches : SUBSET Docs,
        todo : Seq(Docs \X Kinds), drawn : SUBSET (Docs \X Kinds), refers : SUBSET Docs,
        shares : SUBSET Docs, touched : SUBSET Edges, missed : SUBSET Docs]

Types ==
  /\ docs \in [Docs -> [status : {"queued", "ready", "deleted"},
                        content : {Text[d] : d \in Docs} \cup {Null},
                        profile : AnyProfile \cup {Null}]]
  /\ vectors \in SUBSET Docs /\ edges \in SUBSET Edges
  /\ job \in [Docs -> Job]

----------------------------------------------------------------------------
(* The rules. *)

\* classify names one of its kinds.
LEMMA ClassifyKind == ASSUME NEW c PROVE classify(c) \in Kinds
  BY DEF classify, Kinds

\* The same text decides, whatever else the documents have in common.
LEMMA SameContent ==
  ASSUME NEW c, c.same_file = FALSE, c.same_content = TRUE
  PROVE  classify(c) = "content_duplicate"
  BY DEF classify

\* An order of a finite set has each of its members, and nothing else.
LEMMA OrderCovers ==
  ASSUME NEW S, IsFiniteSet(S), NEW o \in SetToSeqs(S)
  PROVE  /\ o \in Seq(S)
         /\ \A s \in S : \E i \in DOMAIN o : o[i] = s
<1>1. Cardinality(S) \in Nat
  BY FS_CardinalityType
<1>2. o \in [1..Cardinality(S) -> S] /\ \A i, j \in 1..Cardinality(S) : i # j => o[i] # o[j]
  BY DEF SetToSeqs
<1>3. o \in Seq(S)
  BY <1>1, <1>2
<1>4. SUFFICES ASSUME NEW s \in S, \A i \in 1..Cardinality(S) : o[i] # s PROVE FALSE
  BY <1>2, <1>3
<1>5. Cardinality(S \ {s}) = Cardinality(S) - 1 /\ IsFiniteSet(S \ {s})
  BY FS_RemoveElement
<1>6. o \in [1..Cardinality(S) -> S \ {s}]
  BY <1>2, <1>4
<1>7. IsFiniteSet(1..Cardinality(S)) /\ Cardinality(1..Cardinality(S)) = Cardinality(S)
  BY <1>1, FS_Interval
<1>8. \E i, j \in 1..Cardinality(S) : i # j /\ o[i] = o[j]
  BY <1>1, <1>5, <1>6, <1>7, FS_PigeonHole
<1>. QED  BY <1>2, <1>8

----------------------------------------------------------------------------
(* Types. *)

\* The state of a document that no transaction holds.
LEMMA NoJobType == NoJob \in Job
<1>1. NoProfile \in AnyProfile
  BY DEF AnyProfile
<1>2. {} \in SUBSET (Docs \X Kinds) /\ {} \in SUBSET Edges /\ << >> \in Seq(Docs \X Kinds)
  OBVIOUS
<1>3. {} \in SUBSET Docs /\ "none" \in Phases
  BY DEF Phases
<1>. QED  BY <1>1, <1>2, <1>3 DEF NoJob, Job

\* The ways in which a step changes the work in hand.
LEMMA JobUpdates ==
  ASSUME NEW j \in Job
  PROVE  /\ \A p \in Phases : [j EXCEPT !.phase = p] \in Job
         /\ \A p \in Phases, q \in AnyProfile : [j EXCEPT !.phase = p, !.profile = q] \in Job
         /\ \A p \in Phases, S, T, M \in SUBSET Docs :
              [j EXCEPT !.phase = p, !.similar = S, !.matches = T, !.missed = M] \in Job
         /\ \A p \in Phases, o \in Seq(Docs \X Kinds), D \in SUBSET (Docs \X Kinds) :
              [j EXCEPT !.phase = p, !.todo = o, !.drawn = D] \in Job
         /\ \A T \in SUBSET Edges, o \in Seq(Docs \X Kinds), R \in SUBSET Docs :
              [j EXCEPT !.touched = T, !.todo = o, !.refers = R] \in Job
         /\ \A R, S \in SUBSET Docs : [j EXCEPT !.refers = R, !.shares = S] \in Job
         /\ \A T \in SUBSET Edges : [j EXCEPT !.touched = T] \in Job
  BY DEF Job

\* A step replaces the work in hand of one document.
LEMMA JobReplaced ==
  ASSUME job \in [Docs -> Job], NEW d \in Docs, NEW j \in Job, job' = [job EXCEPT ![d] = j]
  PROVE  /\ job' \in [Docs -> Job]
         /\ job'[d] = j
         /\ \A e \in Docs \ {d} : job'[e] = job[e]
  OBVIOUS

\* Types is an invariant.
LEMMA TypesInit == Init => Types
  BY NoJobType DEF Init, Types

\* Each step changes the work in hand of one document only.
LEMMA StepOn ==
  ASSUME Types, NEW d \in Docs
  PROVE  /\ AttemptBegin(d) => job' = [job EXCEPT ![d] = [job[d] EXCEPT !.phase = "begun"]]
         /\ DeleteBegin(d) => job' = [job EXCEPT ![d] = [job[d] EXCEPT !.phase = "deleting"]]
         /\ RemoveRelation(d) => \E x \in EdgesOf(d) :
              job' = [job EXCEPT ![d] = [job[d] EXCEPT !.touched = job[d].touched \cup {x}]]
         /\ CheckReferences(d) => \E e \in job[d].refers :
              job' = [job EXCEPT ![d] = [job[d] EXCEPT !.refers = job[d].refers \ {e},
                                                        !.shares = job[d].shares \cup {e}]]
         /\ upsert(d) => \E p \in Profiles[d] :
              job' = [job EXCEPT ![d] = [job[d] EXCEPT !.phase = "indexed", !.profile = p]]
         /\ find_candidates(d) => \E S \in Nearest(d) :
              job' = [job EXCEPT ![d] = [job[d] EXCEPT !.phase = "found", !.similar = S,
                        !.matches = HashMatches(d), !.missed = {e \in Docs \ {d} : docs[e].content = Null}]]
<1>1. AttemptBegin(d) => job' = [job EXCEPT ![d] = [job[d] EXCEPT !.phase = "begun"]]
  BY DEF Types, AttemptBegin
<1>2. DeleteBegin(d) => job' = [job EXCEPT ![d] = [job[d] EXCEPT !.phase = "deleting"]]
  BY DEF Types, DeleteBegin
<1>3. RemoveRelation(d) => \E x \in EdgesOf(d) :
        job' = [job EXCEPT ![d] = [job[d] EXCEPT !.touched = job[d].touched \cup {x}]]
  BY DEF Types, RemoveRelation
<1>6. CheckReferences(d) => \E e \in job[d].refers :
        job' = [job EXCEPT ![d] = [job[d] EXCEPT !.refers = job[d].refers \ {e},
                                                  !.shares = job[d].shares \cup {e}]]
  BY DEF Types, CheckReferences
<1>4. upsert(d) => \E p \in Profiles[d] :
        job' = [job EXCEPT ![d] = [job[d] EXCEPT !.phase = "indexed", !.profile = p]]
  BY DEF Types, upsert, profile_document
<1>5. find_candidates(d) => \E S \in Nearest(d) :
        job' = [job EXCEPT ![d] = [job[d] EXCEPT !.phase = "found", !.similar = S,
                  !.matches = HashMatches(d), !.missed = {e \in Docs \ {d} : docs[e].content = Null}]]
  <2>1. job \in [Docs -> Job]
    BY DEF Types
  <2>. QED  BY <2>1 DEF find_candidates
<1>. QED  BY <1>1, <1>2, <1>3, <1>4, <1>5, <1>6

\* What compare and draw do to it.
LEMMA CompareOn ==
  ASSUME Types, NEW d \in Docs, compare(d)
  PROVE  LET drawn == {<<e, classify(Candidate(d, e, job[d].similar))>> :
                         e \in {f \in Comparable(d) : classify(Candidate(d, f, job[d].similar)) # "none"}}
         IN  /\ drawn \in SUBSET (Docs \X Kinds)
             /\ \E order \in Seq(drawn) :
                  /\ \A v \in drawn : \E i \in DOMAIN order : order[i] = v
                  /\ job' = [job EXCEPT ![d] = [job[d] EXCEPT !.phase = "drawing", !.todo = order,
                                                              !.drawn = drawn]]
<1>. DEFINE verdict(e) == classify(Candidate(d, e, job[d].similar))
            related == {f \in Comparable(d) : verdict(f) # "none"}
            drawn == {<<e, verdict(e)>> : e \in related}
<1>1. related \subseteq Docs
  BY DEF Types, Comparable, Job
<1>2. IsFiniteSet(related)
  BY <1>1, FS_Subset, RelationsAssumption DEF RelationsAssumption
<1>3. \A e \in related : verdict(e) \in Kinds
  BY ClassifyKind
<1>4. drawn \in SUBSET (Docs \X Kinds)
  BY <1>1, <1>3
<1>5. PICK order \in SetToSeqs(drawn) :
        job' = [job EXCEPT ![d] = [job[d] EXCEPT !.phase = "drawing", !.todo = order, !.drawn = drawn]]
  BY DEF compare, Types
<1>6. IsFiniteSet(drawn)
  <2>. HIDE DEF related, verdict
  <2>. DEFINE f == [e \in related |-> <<e, verdict(e)>>]
  <2>1. f \in Surjection(related, drawn)
    BY DEF Surjection
  <2>. HIDE DEF f, drawn
  <2>. QED  BY <1>2, <2>1, FS_Surjection
<1>7. order \in Seq(drawn) /\ \A v \in drawn : \E i \in DOMAIN order : order[i] = v
  <2>. HIDE DEF drawn
  <2>. QED  BY <1>5, <1>6, OrderCovers
<1>. QED  BY <1>4, <1>5, <1>7

LEMMA DrawOn ==
  ASSUME Types, NEW d \in Docs, draw(d)
  PROVE  /\ job[d].phase = "drawing" /\ job[d].todo # << >> /\ job[d].todo \in Seq(Docs \X Kinds)
         /\ Head(job[d].todo) \in Docs \X Kinds /\ Statement(d) \in Edges
         /\ \E R \in SUBSET Docs :
              job' = [job EXCEPT ![d] = [job[d] EXCEPT
                        !.touched = job[d].touched \cup {Statement(d)},
                        !.todo = IF Statement(d)[1] = d THEN job[d].todo ELSE Tail(job[d].todo),
                        !.refers = R]]
<1>1. job[d].phase = "drawing" /\ job[d].todo # << >> /\ job[d].todo \in Seq(Docs \X Kinds)
  BY DEF draw, Types, Job
<1>2. Head(job[d].todo) \in Docs \X Kinds
  BY <1>1
<1>3. Statement(d) \in Edges
  BY <1>2 DEF Statement, Edges
<1>. DEFINE x == Statement(d)
            o == IF x[1] = d THEN job[d].todo ELSE Tail(job[d].todo)
            R == IF x \in edges THEN {} ELSE {x[1], x[2]} \ ({d} \cup job[d].shares)
<1>4. job' = [job EXCEPT ![d] = [job[d] EXCEPT !.touched = job[d].touched \cup {x}, !.todo = o, !.refers = R]]
  BY DEF draw, Types
<1>5. R \in SUBSET Docs
  BY <1>3 DEF Edges
<1>. QED  BY <1>1, <1>2, <1>3, <1>4, <1>5

\* No step leads out of the types.
LEMMA TypesNext ==
  ASSUME Types, [Next]_vars
  PROVE  Types'
<1>. USE DEF Types
<1>1. CASE UNCHANGED vars
  BY <1>1 DEF vars
<1>2. ASSUME NEW d \in Docs, NEW j \in Job, job' = [job EXCEPT ![d] = j],
             docs' = docs, vectors' \in SUBSET Docs, edges' = edges
      PROVE  Types'
  BY <1>2, JobReplaced
<1>3. ASSUME NEW d \in Docs, AttemptBegin(d) \/ DeleteBegin(d) PROVE Types'
  <2>1. PICK p \in {"begun", "deleting"} : job' = [job EXCEPT ![d] = [job[d] EXCEPT !.phase = p]]
    BY <1>3, StepOn
  <2>2. [job[d] EXCEPT !.phase = p] \in Job
    BY JobUpdates DEF Phases
  <2>3. docs' = docs /\ vectors' \in SUBSET Docs /\ edges' = edges
    BY <1>3 DEF AttemptBegin, DeleteBegin
  <2>. QED  BY <1>2, <2>1, <2>2, <2>3
<1>4. ASSUME NEW d \in Docs, upsert(d) PROVE Types'
  <2>1. PICK p \in Profiles[d] :
          job' = [job EXCEPT ![d] = [job[d] EXCEPT !.phase = "indexed", !.profile = p]]
    BY <1>4, StepOn
  <2>2. p \in AnyProfile
    BY DEF AnyProfile
  <2>3. [job[d] EXCEPT !.phase = "indexed", !.profile = p] \in Job
    BY <2>2, JobUpdates DEF Phases
  <2>4. docs' = docs /\ vectors' \in SUBSET Docs /\ edges' = edges
    BY <1>4 DEF upsert
  <2>. QED  BY <1>2, <2>1, <2>3, <2>4
<1>5. ASSUME NEW d \in Docs, find_candidates(d) PROVE Types'
  <2>. DEFINE M == {e \in Docs \ {d} : docs[e].content = Null}
  <2>1. PICK S \in Nearest(d) :
          job' = [job EXCEPT ![d] = [job[d] EXCEPT !.phase = "found", !.similar = S,
                    !.matches = HashMatches(d), !.missed = M]]
    BY <1>5, StepOn
  <2>2. S \in SUBSET Docs /\ HashMatches(d) \in SUBSET Docs /\ M \in SUBSET Docs
    BY <2>1 DEF Nearest, HashMatches
  <2>. HIDE DEF M
  <2>3. [job[d] EXCEPT !.phase = "found", !.similar = S, !.matches = HashMatches(d), !.missed = M] \in Job
    BY <2>2, JobUpdates DEF Phases
  <2>4. docs' = docs /\ vectors' \in SUBSET Docs /\ edges' = edges
    BY <1>5 DEF find_candidates
  <2>. QED  BY <1>2, <2>1, <2>3, <2>4
<1>6. ASSUME NEW d \in Docs, compare(d) PROVE Types'
  <2>0. PICK drawn \in SUBSET (Docs \X Kinds) : \E order \in Seq(drawn) :
          job' = [job EXCEPT ![d] = [job[d] EXCEPT !.phase = "drawing", !.todo = order, !.drawn = drawn]]
    BY <1>6, CompareOn
  <2>1. PICK order \in Seq(drawn) :
          job' = [job EXCEPT ![d] = [job[d] EXCEPT !.phase = "drawing", !.todo = order, !.drawn = drawn]]
    BY <2>0
  <2>2. order \in Seq(Docs \X Kinds)
    OBVIOUS
  <2>3. [job[d] EXCEPT !.phase = "drawing", !.todo = order, !.drawn = drawn] \in Job
    BY <2>2, JobUpdates DEF Phases
  <2>4. docs' = docs /\ vectors' \in SUBSET Docs /\ edges' = edges
    BY <1>6 DEF compare
  <2>. QED  BY <1>2, <2>1, <2>3, <2>4
<1>7. ASSUME NEW d \in Docs, draw(d) PROVE Types'
  <2>. DEFINE T == job[d].touched \cup {Statement(d)}
              o == IF Statement(d)[1] = d THEN job[d].todo ELSE Tail(job[d].todo)
  <2>1. PICK R \in SUBSET Docs :
          job' = [job EXCEPT ![d] = [job[d] EXCEPT !.touched = T, !.todo = o, !.refers = R]]
    BY <1>7, DrawOn
  <2>2. job[d].todo # << >> /\ job[d].todo \in Seq(Docs \X Kinds) /\ Statement(d) \in Edges
    BY <1>7, DrawOn
  <2>3. o \in Seq(Docs \X Kinds)
    BY <2>2
  <2>4. T \in SUBSET Edges
    BY <2>2 DEF Job
  <2>. HIDE DEF T, o
  <2>5. [job[d] EXCEPT !.touched = T, !.todo = o, !.refers = R] \in Job
    BY <2>3, <2>4, JobUpdates
  <2>6. docs' = docs /\ vectors' \in SUBSET Docs /\ edges' = edges
    BY <1>7 DEF draw
  <2>. QED  BY <1>2, <2>1, <2>5, <2>6
<1>11. ASSUME NEW d \in Docs, CheckReferences(d) PROVE Types'
  <2>1. PICK e \in job[d].refers :
          job' = [job EXCEPT ![d] = [job[d] EXCEPT !.refers = job[d].refers \ {e},
                                                    !.shares = job[d].shares \cup {e}]]
    BY <1>11, StepOn
  <2>2. job[d].refers \ {e} \in SUBSET Docs /\ job[d].shares \cup {e} \in SUBSET Docs
    BY DEF Job
  <2>3. [job[d] EXCEPT !.refers = job[d].refers \ {e}, !.shares = job[d].shares \cup {e}] \in Job
    BY <2>2, JobUpdates
  <2>4. docs' = docs /\ vectors' \in SUBSET Docs /\ edges' = edges
    BY <1>11 DEF CheckReferences
  <2>. QED  BY <1>2, <2>1, <2>3, <2>4
<1>12. ASSUME NEW d \in Docs, RemoveRelation(d) PROVE Types'
  <2>1. PICK x \in EdgesOf(d) :
          job' = [job EXCEPT ![d] = [job[d] EXCEPT !.touched = job[d].touched \cup {x}]]
    BY <1>12, StepOn
  <2>2. job[d].touched \cup {x} \in SUBSET Edges
    BY DEF Job, EdgesOf
  <2>3. [job[d] EXCEPT !.touched = job[d].touched \cup {x}] \in Job
    BY <2>2, JobUpdates
  <2>4. docs' = docs /\ vectors' \in SUBSET Docs /\ edges' = edges
    BY <1>12 DEF RemoveRelation
  <2>. QED  BY <1>2, <2>1, <2>3, <2>4
<1>8. ASSUME NEW d \in Docs, AttemptCommit(d) PROVE Types'
  <2>1. job[d].profile \in AnyProfile
    BY DEF Job
  <2>2. docs' \in [Docs -> [status : {"queued", "ready", "deleted"},
                          content : {Text[e] : e \in Docs} \cup {Null},
                          profile : AnyProfile \cup {Null}]]
    BY <1>8, <2>1 DEF AttemptCommit
  <2>3. vectors' = vectors /\ job' = [job EXCEPT ![d] = NoJob] /\ edges' \in SUBSET Edges
    BY <1>8 DEF AttemptCommit, Job
  <2>. QED  BY <2>2, <2>3, NoJobType
<1>9. ASSUME NEW d \in Docs, AttemptFail(d) \/ DeleteFail(d) PROVE Types'
  <2>1. docs' = docs /\ vectors' = vectors /\ edges' = edges /\ job' = [job EXCEPT ![d] = NoJob]
    BY <1>9 DEF AttemptFail, DeleteFail
  <2>. QED  BY <1>2, <2>1, NoJobType
<1>10. ASSUME NEW d \in Docs, DeleteCommit(d) PROVE Types'
  <2>2. docs' \in [Docs -> [status : {"queued", "ready", "deleted"},
                          content : {Text[e] : e \in Docs} \cup {Null},
                          profile : AnyProfile \cup {Null}]]
    BY <1>10 DEF DeleteCommit
  <2>3. vectors' = vectors /\ job' = [job EXCEPT ![d] = NoJob] /\ edges' \in SUBSET Edges
    BY <1>10 DEF DeleteCommit
  <2>. QED  BY <2>2, <2>3, NoJobType
<1>. QED
  BY <1>1, <1>3, <1>4, <1>5, <1>6, <1>7, <1>8, <1>9, <1>10, <1>11, <1>12 DEF Next, Step

----------------------------------------------------------------------------
(* The work in hand. *)

\* A step of one document's transaction leaves the others' alone.
LEMMA OthersKept ==
  ASSUME Types, NEW d \in Docs, NEW e \in Docs \ {d},
         \/ AttemptBegin(d) \/ Step(d) \/ AttemptFail(d) \/ DeleteBegin(d) \/ DeleteFail(d)
  PROVE  job'[e] = job[e]
  BY DEF Types, AttemptBegin, Step, AttemptFail, DeleteBegin, DeleteFail, upsert, find_candidates,
         compare, draw, CheckReferences, AttemptCommit, RemoveRelation, DeleteCommit

\* What becomes of the work in hand, in the steps that draw nothing.
Undrawn(d) ==
  /\ job'[d].drawn = job[d].drawn /\ job'[d].touched = job[d].touched /\ job'[d].todo = job[d].todo

\* They change the phase and what was found, and leave what is drawn.
LEMMA OwnJob ==
  ASSUME Types, NEW d \in Docs
  PROVE  /\ AttemptBegin(d) => job'[d].phase = "begun" /\ Undrawn(d)
         /\ upsert(d) => job'[d].phase = "indexed" /\ Undrawn(d)
         /\ find_candidates(d) => /\ job'[d].phase = "found" /\ job'[d].matches = HashMatches(d)
                                  /\ job'[d].missed = {e \in Docs \ {d} : docs[e].content = Null}
                                  /\ Undrawn(d)
         /\ DeleteBegin(d) => job'[d].phase = "deleting" /\ Undrawn(d)
         /\ CheckReferences(d) => /\ job'[d].phase = job[d].phase /\ job'[d].missed = job[d].missed
                                  /\ job'[d].matches = job[d].matches /\ Undrawn(d)
<1>. USE DEF Undrawn
<1>1. job[d] \in Job
  BY DEF Types
<1>2. ASSUME NEW j, job' = [job EXCEPT ![d] = j] PROVE job'[d] = j
  BY <1>2 DEF Types
<1>3. AttemptBegin(d) => job'[d] = [job[d] EXCEPT !.phase = "begun"]
  BY <1>2, StepOn
<1>4. DeleteBegin(d) => job'[d] = [job[d] EXCEPT !.phase = "deleting"]
  BY <1>2, StepOn
<1>5. ASSUME CheckReferences(d)
      PROVE  /\ job'[d].phase = job[d].phase /\ job'[d].missed = job[d].missed
             /\ job'[d].matches = job[d].matches /\ Undrawn(d)
  <2>1. PICK e : job' = [job EXCEPT ![d] = [job[d] EXCEPT !.refers = job[d].refers \ {e},
                                                           !.shares = job[d].shares \cup {e}]]
    BY <1>5, StepOn
  <2>2. job'[d] = [job[d] EXCEPT !.refers = job[d].refers \ {e}, !.shares = job[d].shares \cup {e}]
    BY <1>2, <2>1
  <2>. QED  BY <1>1, <2>2 DEF Job
<1>6. ASSUME upsert(d) PROVE job'[d].phase = "indexed" /\ Undrawn(d)
  <2>1. PICK p : job' = [job EXCEPT ![d] = [job[d] EXCEPT !.phase = "indexed", !.profile = p]]
    BY <1>6, StepOn
  <2>2. job'[d] = [job[d] EXCEPT !.phase = "indexed", !.profile = p]
    BY <1>2, <2>1
  <2>. QED  BY <1>1, <2>2 DEF Job
<1>7. ASSUME find_candidates(d)
      PROVE  /\ job'[d].phase = "found" /\ job'[d].matches = HashMatches(d)
             /\ job'[d].missed = {e \in Docs \ {d} : docs[e].content = Null}
             /\ Undrawn(d)
  <2>. DEFINE M == {e \in Docs \ {d} : docs[e].content = Null}
  <2>1. PICK S : job' = [job EXCEPT ![d] = [job[d] EXCEPT !.phase = "found", !.similar = S,
                           !.matches = HashMatches(d), !.missed = M]]
    BY <1>7, StepOn
  <2>. HIDE DEF M
  <2>2. job'[d] = [job[d] EXCEPT !.phase = "found", !.similar = S, !.matches = HashMatches(d), !.missed = M]
    BY <1>2, <2>1
  <2>3. job'[d].phase = "found" /\ job'[d].matches = HashMatches(d) /\ job'[d].missed = M /\ Undrawn(d)
    BY <1>1, <2>2 DEF Job
  <2>. QED  BY <2>3 DEF M
<1>8. /\ AttemptBegin(d) => job'[d].phase = "begun" /\ Undrawn(d)
      /\ DeleteBegin(d) => job'[d].phase = "deleting" /\ Undrawn(d)
  BY <1>1, <1>3, <1>4 DEF Job
<1>. QED  BY <1>5, <1>6, <1>7, <1>8

\* What an attempt writes in the end: what it has written, and the verdicts yet to write,
\* in both directions.
Ways(d, v) == {<<d, v[1], v[2]>>, <<v[1], d, v[2]>>}

Planned(d) ==
  {x \in Edges : x \in job[d].touched \/ \E i \in DOMAIN job[d].todo : x \in Ways(d, job[d].todo[i])}

\* Every verdict that was drawn is to be written, and no other.
LEMMA OwnCompare ==
  ASSUME Types, NEW d \in Docs, compare(d)
  PROVE  LET drawn == {<<e, classify(Candidate(d, e, job[d].similar))>> :
                         e \in {f \in Comparable(d) : classify(Candidate(d, f, job[d].similar)) # "none"}}
         IN  /\ job'[d].phase = "drawing" /\ job'[d].drawn = drawn
             /\ job'[d].touched = job[d].touched /\ job'[d].missed = job[d].missed
             /\ \A v \in drawn : \E i \in DOMAIN job'[d].todo : job'[d].todo[i] = v
             /\ \A i \in DOMAIN job'[d].todo : job'[d].todo[i] \in drawn
             /\ drawn \in SUBSET (Docs \X Kinds)
<1>. DEFINE drawn == {<<e, classify(Candidate(d, e, job[d].similar))>> :
                        e \in {f \in Comparable(d) : classify(Candidate(d, f, job[d].similar)) # "none"}}
<1>1. PICK order \in Seq(drawn) :
        /\ \A v \in drawn : \E i \in DOMAIN order : order[i] = v
        /\ job' = [job EXCEPT ![d] = [job[d] EXCEPT !.phase = "drawing", !.todo = order, !.drawn = drawn]]
  BY CompareOn
<1>2. drawn \in SUBSET (Docs \X Kinds)
  BY CompareOn
<1>. HIDE DEF drawn
<1>3. job'[d] = [job[d] EXCEPT !.phase = "drawing", !.todo = order, !.drawn = drawn]
  BY <1>1 DEF Types
<1>4. /\ job'[d].phase = "drawing" /\ job'[d].todo = order /\ job'[d].drawn = drawn
      /\ job'[d].touched = job[d].touched /\ job'[d].missed = job[d].missed
  BY <1>3 DEF Types, Job
<1>5. \A i \in DOMAIN order : order[i] \in drawn
  OBVIOUS
<1>. QED  BY <1>1, <1>2, <1>4, <1>5 DEF drawn

\* A statement writes one of the relations that were to be written, and no other comes in.
LEMMA OwnDraw ==
  ASSUME Types, NEW d \in Docs, draw(d)
  PROVE  /\ job[d].phase = "drawing" /\ job'[d].phase = "drawing"
         /\ job'[d].drawn = job[d].drawn /\ job'[d].missed = job[d].missed
         /\ Planned(d)' = Planned(d)
<1>. DEFINE t == job[d].todo
            v == Head(t)
            x == Statement(d)
            T == job[d].touched \cup {x}
            o == IF x[1] = d THEN t ELSE Tail(t)
<1>1. /\ job[d].phase = "drawing" /\ t # << >> /\ t \in Seq(Docs \X Kinds)
      /\ v \in Docs \X Kinds /\ x \in Edges
  BY DrawOn
<1>2. PICK R : job' = [job EXCEPT ![d] = [job[d] EXCEPT !.touched = T, !.todo = o, !.refers = R]]
  BY DrawOn
<1>3. /\ job'[d].phase = job[d].phase /\ job'[d].drawn = job[d].drawn /\ job'[d].missed = job[d].missed
      /\ job'[d].touched = T /\ job'[d].todo = o
  <2>. HIDE DEF T, o
  <2>1. job'[d] = [job[d] EXCEPT !.touched = T, !.todo = o, !.refers = R]
    BY <1>2 DEF Types
  <2>. QED  BY <2>1 DEF Types, Job
<1>4. x \in Ways(d, v) /\ (x[1] = d \/ Ways(d, v) \subseteq T)
  BY <1>1 DEF Statement, Ways
<1>5. /\ 1 \in DOMAIN t /\ t[1] = v /\ Tail(t) \in Seq(Docs \X Kinds)
      /\ \A i \in DOMAIN Tail(t) : i + 1 \in DOMAIN t /\ Tail(t)[i] = t[i + 1]
      /\ \A i \in DOMAIN t : i = 1 \/ (i - 1 \in DOMAIN Tail(t) /\ Tail(t)[i - 1] = t[i])
  BY <1>1
<1>. HIDE DEF x, t, v
<1>6. ASSUME NEW y \in Edges
      PROVE  (y \in T \/ \E i \in DOMAIN o : y \in Ways(d, o[i]))
             <=> (y \in job[d].touched \/ \E i \in DOMAIN t : y \in Ways(d, t[i]))
  <2>1. CASE x[1] = d
    BY <1>4, <1>5, <2>1
  <2>2. CASE x[1] # d
    <3>1. o = Tail(t) /\ Ways(d, v) \subseteq T
      BY <1>4, <2>2
    <3>2. ASSUME NEW i \in DOMAIN t, y \in Ways(d, t[i]) PROVE y \in T \/ \E k \in DOMAIN o : y \in Ways(d, o[k])
      <4>1. CASE i = 1
        BY <1>5, <3>1, <3>2, <4>1
      <4>2. CASE i # 1
        <5>1. i - 1 \in DOMAIN o /\ o[i - 1] = t[i]
          BY <1>5, <3>1, <4>2
        <5>. QED  BY <3>2, <5>1
      <4>. QED  BY <4>1, <4>2
    <3>3. ASSUME NEW i \in DOMAIN o, y \in Ways(d, o[i]) PROVE \E k \in DOMAIN t : y \in Ways(d, t[k])
      <4>1. i + 1 \in DOMAIN t /\ o[i] = t[i + 1]
        BY <1>5, <3>1
      <4>. QED  BY <3>3, <4>1
    <3>4. y = x => \E k \in DOMAIN t : y \in Ways(d, t[k])
      BY <1>4, <1>5
    <3>. QED  BY <3>2, <3>3, <3>4
  <2>. QED  BY <2>1, <2>2
<1>7. Planned(d)' = Planned(d)
  <2>1. Planned(d)' = {y \in Edges : y \in T \/ \E i \in DOMAIN o : y \in Ways(d, o[i])}
    BY <1>3 DEF Planned, Ways
  <2>2. Planned(d) = {y \in Edges : y \in job[d].touched \/ \E i \in DOMAIN t : y \in Ways(d, t[i])}
    BY DEF Planned, t
  <2>. HIDE DEF T, o
  <2>. QED  BY <1>6, <2>1, <2>2
<1>. QED  BY <1>1, <1>3, <1>7

\* A relation of the document is removed.
LEMMA OwnRemove ==
  ASSUME Types, NEW d \in Docs, RemoveRelation(d)
  PROVE  /\ job[d].phase = "deleting" /\ job'[d].phase = "deleting" /\ job'[d].drawn = job[d].drawn
         /\ job'[d].todo = job[d].todo
         /\ \E x \in EdgesOf(d) : job'[d].touched = job[d].touched \cup {x}
<1>1. PICK x \in EdgesOf(d) :
        job' = [job EXCEPT ![d] = [job[d] EXCEPT !.touched = job[d].touched \cup {x}]]
  BY StepOn
<1>2. job'[d] = [job[d] EXCEPT !.touched = job[d].touched \cup {x}]
  BY <1>1 DEF Types
<1>3. job'[d].phase = job[d].phase /\ job'[d].drawn = job[d].drawn
      /\ job'[d].todo = job[d].todo /\ job'[d].touched = job[d].touched \cup {x}
  BY <1>2 DEF Types, Job
<1>. QED  BY <1>3 DEF RemoveRelation

\* At the end of a transaction.
LEMMA OwnEnd ==
  ASSUME Types, NEW d \in Docs,
         AttemptCommit(d) \/ AttemptFail(d) \/ DeleteCommit(d) \/ DeleteFail(d)
  PROVE  job'[d].phase = "none" /\ job'[d].drawn = {} /\ job'[d].touched = {} /\ job'[d].todo = << >>
<1>1. job'[d] = NoJob
  BY DEF Types, AttemptCommit, AttemptFail, DeleteCommit, DeleteFail
<1>. QED  BY <1>1 DEF NoJob

\* What a commit does to the documents.
LEMMA DocsAfter ==
  ASSUME Types, NEW d \in Docs
  PROVE  /\ AttemptCommit(d) => /\ docs'[d].status = "ready" /\ docs'[d].content = Text[d]
                                /\ \A e \in Docs \ {d} : docs'[e] = docs[e]
         /\ DeleteCommit(d) => /\ docs'[d].status = "deleted" /\ docs'[d].content = docs[d].content
                               /\ \A e \in Docs \ {d} : docs'[e] = docs[e]
<1>1. ASSUME AttemptCommit(d)
      PROVE  /\ docs'[d].status = "ready" /\ docs'[d].content = Text[d]
             /\ \A e \in Docs \ {d} : docs'[e] = docs[e]
  BY <1>1 DEF Types, AttemptCommit
<1>2. ASSUME DeleteCommit(d)
      PROVE  /\ docs'[d].status = "deleted" /\ docs'[d].content = docs[d].content
             /\ \A e \in Docs \ {d} : docs'[e] = docs[e]
  BY <1>2 DEF Types, DeleteCommit
<1>. QED  BY <1>1, <1>2

----------------------------------------------------------------------------
(* Vectors. *)

\* What holds of vectors and transactions besides what VectorsFollowDocuments says:
\* an attempt is of a live document, and once it has stored the vector nobody takes
\* it away; a delete has taken it away and nobody puts it back.
VectorsOf(d) ==
  /\ job[d].phase \in {"begun", "indexed", "found", "drawing"} => Live(d)
  /\ job[d].phase \in {"indexed", "found", "drawing"} => d \in vectors
  /\ job[d].phase = "deleting" => d \notin vectors
  /\ docs[d].status = "ready" /\ job[d].phase \in {"none", "begun"} /\ d \notin halfway => d \in vectors
  /\ docs[d].status = "deleted" => d \notin vectors

VectorInv == \A d \in Docs : VectorsOf(d)

\* Every step keeps it: it is looked at for the document of the step, the others keep
\* their rows, their work and their vectors.
LEMMA VectorInvNext ==
  ASSUME Types, VectorInv, [Next]_vars
  PROVE  VectorInv'
<1>. DEFINE Same(e) == /\ job'[e] = job[e] /\ docs'[e] = docs[e]
                       /\ (e \in vectors') = (e \in vectors) /\ (e \in halfway') = (e \in halfway)
<1>1. ASSUME NEW e \in Docs, Same(e) PROVE VectorsOf(e)'
  <2>1. VectorsOf(e)
    BY DEF VectorInv
  <2>. QED  BY <1>1, <2>1 DEF VectorsOf, Live
<1>2. CASE UNCHANGED vars
  <2>1. \A e \in Docs : Same(e)
    BY <1>2 DEF vars
  <2>. QED  BY <1>1, <2>1 DEF VectorInv
<1>3. ASSUME NEW d \in Docs, VectorsOf(d)', \A e \in Docs \ {d} : Same(e) PROVE VectorInv'
  BY <1>1, <1>3 DEF VectorInv
<1>. HIDE DEF Same
<1>4. ASSUME NEW d \in Docs, AttemptBegin(d) PROVE VectorInv'
  <2>1. UNCHANGED <<docs, vectors, halfway>> /\ Live(d) /\ job[d].phase = "none"
    BY <1>4 DEF AttemptBegin, CanLock, Held
  <2>2. VectorsOf(d)'
    BY <1>4, <2>1, OwnJob DEF VectorInv, VectorsOf, Live
  <2>3. \A e \in Docs \ {d} : Same(e)
    BY <1>4, <2>1, OthersKept DEF Same
  <2>. QED  BY <1>3, <2>2, <2>3
<1>5. ASSUME NEW d \in Docs, upsert(d) PROVE VectorInv'
  <2>1. UNCHANGED <<docs, halfway>> /\ vectors' = vectors \cup {d} /\ job[d].phase = "begun"
    BY <1>5 DEF upsert
  <2>2. VectorsOf(d)'
    BY <1>5, <2>1, OwnJob DEF VectorInv, VectorsOf, Live
  <2>3. \A e \in Docs \ {d} : Same(e)
    BY <1>5, <2>1, OthersKept DEF Same, Step
  <2>. QED  BY <1>3, <2>2, <2>3
<1>6. ASSUME NEW d \in Docs, find_candidates(d) \/ compare(d) \/ draw(d) PROVE VectorInv'
  <2>1. UNCHANGED <<docs, vectors, halfway>> /\ job[d].phase \in {"indexed", "found", "drawing"}
    BY <1>6 DEF find_candidates, compare, draw
  <2>2. job'[d].phase \in {"found", "drawing"}
    BY <1>6, OwnJob, OwnCompare, OwnDraw
  <2>3. VectorsOf(d)'
    BY <2>1, <2>2 DEF VectorInv, VectorsOf, Live
  <2>4. \A e \in Docs \ {d} : Same(e)
    BY <1>6, <2>1, OthersKept DEF Same, Step
  <2>. QED  BY <1>3, <2>3, <2>4
<1>7. ASSUME NEW d \in Docs, AttemptCommit(d) PROVE VectorInv'
  <2>1. UNCHANGED <<vectors, halfway>> /\ job[d].phase = "drawing"
    BY <1>7 DEF AttemptCommit
  <2>2. /\ job'[d].phase = "none" /\ docs'[d].status = "ready"
        /\ \A e \in Docs \ {d} : docs'[e] = docs[e]
    BY <1>7, OwnEnd, DocsAfter
  <2>3. VectorsOf(d)'
    BY <2>1, <2>2 DEF VectorInv, VectorsOf, Live
  <2>4. \A e \in Docs \ {d} : Same(e)
    BY <1>7, <2>1, <2>2, OthersKept DEF Same, Step
  <2>. QED  BY <1>3, <2>3, <2>4
<1>8. ASSUME NEW d \in Docs, AttemptFail(d) PROVE VectorInv'
  <2>1. UNCHANGED <<docs, vectors, halfway>> /\ job[d].phase \in {"indexed", "drawing"}
    BY <1>8 DEF AttemptFail
  <2>2. VectorsOf(d)'
    BY <1>8, <2>1, OwnEnd DEF VectorInv, VectorsOf, Live
  <2>3. \A e \in Docs \ {d} : Same(e)
    BY <1>8, <2>1, OthersKept DEF Same
  <2>. QED  BY <1>3, <2>2, <2>3
<1>9. ASSUME NEW d \in Docs, DeleteBegin(d) PROVE VectorInv'
  <2>1. UNCHANGED <<docs, halfway>> /\ vectors' = vectors \ {d}
    BY <1>9 DEF DeleteBegin
  <2>2. VectorsOf(d)'
    BY <1>9, <2>1, OwnJob DEF VectorsOf
  <2>3. \A e \in Docs \ {d} : Same(e)
    BY <1>9, <2>1, OthersKept DEF Same
  <2>. QED  BY <1>3, <2>2, <2>3
<1>10. ASSUME NEW d \in Docs, RemoveRelation(d) \/ CheckReferences(d) PROVE VectorInv'
  <2>1. UNCHANGED <<docs, vectors, halfway>>
    BY <1>10 DEF RemoveRelation, CheckReferences
  <2>2. job'[d].phase = job[d].phase
    BY <1>10, OwnJob, OwnRemove
  <2>3. VectorsOf(d)'
    BY <2>1, <2>2 DEF VectorInv, VectorsOf, Live
  <2>4. \A e \in Docs \ {d} : Same(e)
    BY <1>10, <2>1, OthersKept DEF Same, Step
  <2>. QED  BY <1>3, <2>3, <2>4
<1>11. ASSUME NEW d \in Docs, DeleteCommit(d) PROVE VectorInv'
  <2>1. UNCHANGED <<vectors, halfway>> /\ job[d].phase = "deleting"
    BY <1>11 DEF DeleteCommit
  <2>2. /\ job'[d].phase = "none" /\ docs'[d].status = "deleted"
        /\ \A e \in Docs \ {d} : docs'[e] = docs[e]
    BY <1>11, OwnEnd, DocsAfter
  <2>3. VectorsOf(d)'
    BY <2>1, <2>2 DEF VectorInv, VectorsOf
  <2>4. \A e \in Docs \ {d} : Same(e)
    BY <1>11, <2>1, <2>2, OthersKept DEF Same, Step
  <2>. QED  BY <1>3, <2>3, <2>4
<1>12. ASSUME NEW d \in Docs, DeleteFail(d) PROVE VectorInv'
  <2>1. /\ UNCHANGED <<docs, vectors>> /\ halfway' = halfway \cup {d}
        /\ job[d].phase = "deleting"
    BY <1>12 DEF DeleteFail
  <2>2. VectorsOf(d)'
    BY <1>12, <2>1, OwnEnd DEF VectorInv, VectorsOf
  <2>3. \A e \in Docs \ {d} : Same(e)
    BY <1>12, <2>1, OthersKept DEF Same
  <2>. QED  BY <1>3, <2>2, <2>3
<1>. QED
  BY <1>2, <1>4, <1>5, <1>6, <1>7, <1>8, <1>9, <1>10, <1>11, <1>12 DEF Next, Step

\* A document that is ready can be found by its vector unless a delete of it failed
\* halfway, and one that is deleted cannot (processing.py, deletion.py).
THEOREM VectorsFollow == Spec => []VectorsFollowDocuments
<1>1. Init => VectorInv
  BY DEF Init, VectorInv, VectorsOf, NoJob, Live
<1>2. VectorInv => VectorsFollowDocuments
  BY DEF VectorInv, VectorsOf, VectorsFollowDocuments, Held
<1>. QED
  BY <1>1, <1>2, TypesInit, TypesNext, VectorInvNext, PTL DEF Spec

----------------------------------------------------------------------------
(* Deleted documents. *)

\* What a transaction is about to write: relations between its document and one that
\* it has compared, which is live or was deleted in the meantime. What a delete
\* removes is of its document.
Drawing(d) ==
  /\ job[d].phase # "drawing" => job[d].drawn = {} /\ job[d].todo = << >>
  /\ job[d].phase \notin {"drawing", "deleting"} => job[d].touched = {}
  /\ job[d].phase = "deleting" => \A x \in job[d].touched : d \in {x[1], x[2]}
  /\ job[d].phase = "drawing" =>
       \A x \in Planned(d) : \E v \in job[d].drawn : {x[1], x[2]} = {d, v[1]}
  /\ \A v \in job[d].drawn : Live(v[1]) \/ {d, v[1]} \in late

LateInv == DeletedUnrelated /\ \A d \in Docs : Drawing(d)

\* Every step keeps LateInv.
LEMMA LateInvNext ==
  ASSUME Types, VectorInv, LateInv, [Next]_vars
  PROVE  LateInv'
<1>. DEFINE Quiet == edges' = edges /\ late' = late /\ \A e \in Docs : Live(e)' <=> Live(e)
<1>1. /\ \A d \in Docs : job[d].drawn \subseteq Docs \X Kinds
      /\ \A d \in Docs : \A x \in job[d].touched : x[1] \in Docs /\ x[2] \in Docs
      /\ \A x \in edges : x[1] \in Docs /\ x[2] \in Docs
  BY DEF Types, Job, Edges
<1>2. ASSUME NEW f \in Docs, job'[f] = job[f], late \subseteq late', \A e \in Docs : Live(e)' <=> Live(e)
      PROVE  Drawing(f)'
  <2>1. Drawing(f) /\ \A v \in job[f].drawn : v[1] \in Docs
    BY <1>1 DEF LateInv
  <2>2. \A v \in job[f].drawn : Live(v[1])' \/ {f, v[1]} \in late'
    BY <1>2, <2>1 DEF Drawing
  <2>3. Planned(f)' = Planned(f)
    BY <1>2 DEF Planned
  <2>. QED  BY <1>2, <2>1, <2>2, <2>3 DEF Drawing
<1>3. ASSUME Quiet PROVE DeletedUnrelated'
  <2>2. \A x \in edges : {x[1], x[2]} \notin late' => Live(x[1])' /\ Live(x[2])'
    BY <1>1, <1>3 DEF LateInv, DeletedUnrelated
  <2>. QED  BY <1>3, <2>2 DEF DeletedUnrelated
<1>4. CASE UNCHANGED vars
  <2>1. Quiet /\ job' = job
    BY <1>4 DEF vars, Live
  <2>. QED  BY <1>2, <1>3, <2>1 DEF LateInv
<1>5. ASSUME NEW d \in Docs, AttemptBegin(d) \/ upsert(d) \/ find_candidates(d) \/ DeleteBegin(d)
      PROVE  LateInv'
  <2>1. Quiet
    BY <1>5 DEF AttemptBegin, upsert, find_candidates, DeleteBegin, Live
  <2>2. /\ job[d].phase \notin {"drawing", "deleting"} /\ job'[d].phase # "drawing" /\ Undrawn(d)
    BY <1>5, OwnJob DEF AttemptBegin, upsert, find_candidates, DeleteBegin, CanLock, Held
  <2>3. Drawing(d)'
    BY <2>2 DEF LateInv, Drawing, Undrawn
  <2>4. \A e \in Docs \ {d} : job'[e] = job[e]
    BY <1>5, OthersKept DEF Step
  <2>. QED  BY <1>2, <1>3, <2>1, <2>3, <2>4 DEF LateInv
<1>6. ASSUME NEW d \in Docs, compare(d) PROVE LateInv'
  <2>1. Quiet /\ job[d].phase = "found"
    BY <1>6 DEF compare, Live
  <2>2. /\ job'[d].phase = "drawing" /\ job'[d].touched = {}
        /\ \A v \in job'[d].drawn : v[1] \in Comparable(d)
        /\ \A i \in DOMAIN job'[d].todo : job'[d].todo[i] \in job'[d].drawn
    BY <1>6, <2>1, OwnCompare DEF LateInv, Drawing
  <2>3. \A e \in Comparable(d) : e \in Docs /\ Live(e)
    BY DEF Comparable, Types, Job
  <2>4. ASSUME NEW x \in Planned(d)' PROVE \E v \in job'[d].drawn : {x[1], x[2]} = {d, v[1]}
    <3>1. PICK i \in DOMAIN job'[d].todo : x \in Ways(d, job'[d].todo[i])
      BY <2>2, <2>4 DEF Planned, Ways
    <3>. QED  BY <2>2, <3>1 DEF Ways
  <2>5. Drawing(d)'
    BY <2>1, <2>2, <2>3, <2>4 DEF Drawing
  <2>6. \A e \in Docs \ {d} : job'[e] = job[e]
    BY <1>6, OthersKept DEF Step
  <2>. QED  BY <1>2, <1>3, <2>1, <2>5, <2>6 DEF LateInv
<1>7. ASSUME NEW d \in Docs, draw(d) \/ CheckReferences(d) PROVE LateInv'
  <2>1. Quiet
    BY <1>7 DEF draw, CheckReferences, Live
  <2>2. ASSUME draw(d) PROVE Drawing(d)'
    <3>1. /\ job[d].phase = "drawing" /\ job'[d].phase = "drawing" /\ job'[d].drawn = job[d].drawn
          /\ Planned(d)' = Planned(d)
      BY <2>2, OwnDraw
    <3>2. \A v \in job'[d].drawn : Live(v[1])' \/ {d, v[1]} \in late'
      BY <1>1, <2>1, <3>1 DEF LateInv, Drawing
    <3>3. \A x \in Planned(d)' : \E v \in job'[d].drawn : {x[1], x[2]} = {d, v[1]}
      BY <3>1 DEF LateInv, Drawing
    <3>. QED  BY <3>1, <3>2, <3>3 DEF Drawing
  <2>3. ASSUME CheckReferences(d) PROVE Drawing(d)'
    <3>1. job'[d].phase = job[d].phase /\ Undrawn(d)
      BY <2>3, OwnJob
    <3>2. \A v \in job'[d].drawn : Live(v[1])' \/ {d, v[1]} \in late'
      BY <1>1, <2>1, <3>1 DEF LateInv, Drawing, Undrawn
    <3>3. Planned(d)' = Planned(d)
      BY <3>1 DEF Undrawn, Planned
    <3>4. job'[d].phase = "drawing" => \A x \in Planned(d)' : \E v \in job'[d].drawn : {x[1], x[2]} = {d, v[1]}
      <4>1. job[d].phase = "drawing" => \A x \in Planned(d) : \E v \in job[d].drawn : {x[1], x[2]} = {d, v[1]}
        BY DEF LateInv, Drawing
      <4>2. job'[d].drawn = job[d].drawn
        BY <3>1 DEF Undrawn
      <4>. QED  BY <3>1, <3>3, <4>1, <4>2
    <3>5. /\ job'[d].phase # "drawing" => job'[d].drawn = {} /\ job'[d].todo = << >>
          /\ job'[d].phase \notin {"drawing", "deleting"} => job'[d].touched = {}
          /\ job'[d].phase = "deleting" => \A x \in job'[d].touched : d \in {x[1], x[2]}
      BY <3>1 DEF LateInv, Drawing, Undrawn
    <3>. QED  BY <3>2, <3>4, <3>5 DEF Drawing
  <2>4. \A f \in Docs \ {d} : job'[f] = job[f]
    BY <1>7, OthersKept DEF Step
  <2>. QED  BY <1>2, <1>3, <1>7, <2>1, <2>2, <2>3, <2>4 DEF LateInv
<1>8. ASSUME NEW d \in Docs, AttemptFail(d) \/ DeleteFail(d) PROVE LateInv'
  <2>1. Quiet
    BY <1>8 DEF AttemptFail, DeleteFail, Live
  <2>2. Drawing(d)'
    BY <1>8, OwnEnd DEF Drawing
  <2>3. \A e \in Docs \ {d} : job'[e] = job[e]
    BY <1>8, OthersKept
  <2>. QED  BY <1>2, <1>3, <2>1, <2>2, <2>3 DEF LateInv
<1>9. ASSUME NEW d \in Docs, AttemptCommit(d) PROVE LateInv'
  <2>1. /\ late' = late /\ edges' = edges \cup job[d].touched /\ job[d].phase = "drawing"
    BY <1>9 DEF AttemptCommit
  <2>2. Live(d) /\ Live(d)' /\ \A e \in Docs : Live(e)' <=> Live(e)
    BY <1>9, <2>1, DocsAfter DEF VectorInv, VectorsOf, Live
  <2>3. Drawing(d)'
    BY <1>9, OwnEnd DEF Drawing
  <2>4. \A e \in Docs \ {d} : job'[e] = job[e]
    BY <1>9, OthersKept DEF Step
  <2>5. job[d].touched \subseteq Planned(d)
    BY DEF Planned, Types, Job
  <2>6. ASSUME NEW x \in job[d].touched, ~Live(x[1]) \/ ~Live(x[2]) PROVE {x[1], x[2]} \in late
    <3>1. PICK v \in job[d].drawn : {x[1], x[2]} = {d, v[1]}
      BY <2>1, <2>5, <2>6 DEF LateInv, Drawing
    <3>2. ~Live(v[1])
      BY <2>2, <2>6, <3>1
    <3>. QED  BY <3>1, <3>2 DEF LateInv, Drawing
  <2>9. DeletedUnrelated'
    BY <1>1, <2>1, <2>2, <2>6 DEF LateInv, DeletedUnrelated
  <2>. QED  BY <1>2, <2>1, <2>2, <2>3, <2>4, <2>9 DEF LateInv
<1>10. ASSUME NEW d \in Docs, DeleteCommit(d) PROVE LateInv'
  <2>1. /\ edges' = edges \ job[d].touched /\ EdgesOf(d) \subseteq job[d].touched
        /\ late' = late \cup {{d, e} : e \in {f \in Docs : \E v \in job[f].drawn : v[1] = d}}
    BY <1>10 DEF DeleteCommit
  <2>2. \A e \in Docs \ {d} : Live(e)' <=> Live(e)
    BY <1>10, DocsAfter DEF Live
  <2>3. Drawing(d)'
    BY <1>10, OwnEnd DEF Drawing
  <2>4. ASSUME NEW f \in Docs \ {d} PROVE Drawing(f)'
    <3>1. job'[f] = job[f]
      BY <1>10, OthersKept DEF Step
    <3>2. ASSUME NEW v \in job[f].drawn PROVE Live(v[1])' \/ {f, v[1]} \in late'
      <4>1. CASE v[1] = d
        <5>1. {d, f} \in late'
          BY <2>1, <4>1
        <5>2. {d, f} = {f, v[1]}
          BY <4>1
        <5>. QED  BY <5>1, <5>2
      <4>2. CASE v[1] # d
        BY <1>1, <2>1, <2>2, <4>2 DEF LateInv, Drawing
      <4>. QED  BY <4>1, <4>2
    <3>3. Planned(f)' = Planned(f)
      BY <3>1 DEF Planned
    <3>4. \A v \in job'[f].drawn : Live(v[1])' \/ {f, v[1]} \in late'
      BY <3>1, <3>2
    <3>5. job'[f].phase = "drawing" => \A x \in Planned(f)' : \E v \in job'[f].drawn : {x[1], x[2]} = {f, v[1]}
      <4>1. job[f].phase = "drawing" => \A x \in Planned(f) : \E v \in job[f].drawn : {x[1], x[2]} = {f, v[1]}
        BY DEF LateInv, Drawing
      <4>. QED  BY <3>1, <3>3, <4>1
    <3>6. /\ job'[f].phase # "drawing" => job'[f].drawn = {} /\ job'[f].todo = << >>
          /\ job'[f].phase \notin {"drawing", "deleting"} => job'[f].touched = {}
          /\ job'[f].phase = "deleting" => \A x \in job'[f].touched : f \in {x[1], x[2]}
      BY <3>1 DEF LateInv, Drawing
    <3>. QED  BY <3>4, <3>5, <3>6 DEF Drawing
  <2>5. DeletedUnrelated'
    <3>1. \A x \in edges' : x \in edges /\ x[1] \in Docs \ {d} /\ x[2] \in Docs \ {d}
      BY <1>1, <2>1 DEF EdgesOf
    <3>. QED  BY <2>1, <2>2, <3>1 DEF LateInv, DeletedUnrelated
  <2>. QED  BY <2>3, <2>4, <2>5 DEF LateInv
<1>11. ASSUME NEW d \in Docs, RemoveRelation(d) PROVE LateInv'
  <2>1. Quiet
    BY <1>11 DEF RemoveRelation, Live
  <2>2. /\ job[d].phase = "deleting" /\ job'[d].phase = "deleting" /\ job'[d].drawn = job[d].drawn
        /\ job'[d].todo = job[d].todo
        /\ \E x \in EdgesOf(d) : job'[d].touched = job[d].touched \cup {x}
    BY <1>11, OwnRemove
  <2>3. Drawing(d)'
    BY <2>2 DEF LateInv, Drawing, EdgesOf
  <2>4. \A f \in Docs \ {d} : job'[f] = job[f]
    BY <1>11, OthersKept DEF Step
  <2>. QED  BY <1>2, <1>3, <2>1, <2>3, <2>4 DEF LateInv
<1>. QED
  BY <1>4, <1>5, <1>6, <1>7, <1>8, <1>9, <1>10, <1>11 DEF Next, Step

\* At the start.
LEMMA LateInit == Init => VectorInv /\ LateInv
  BY DEF Init, VectorInv, VectorsOf, LateInv, Drawing, DeletedUnrelated, NoJob, Live

\* A deleted document has no relations, except with a document that was compared with
\* it before the delete and committed after it (deletion.py).
THEOREM DeletedStayUnrelated == Spec => []DeletedUnrelated
<1>1. LateInv => DeletedUnrelated
  BY DEF LateInv
<1>. QED
  BY <1>1, TypesInit, TypesNext, LateInit, VectorInvNext, LateInvNext, PTL DEF Spec

----------------------------------------------------------------------------
(* Duplicates. *)

\* A document with the text of d whose content hash was there when d looked.
Twin(d, e) == e # d /\ Text[e] = Text[d] /\ Live(e) /\ e \notin job[d].missed

Both(d, e) == {<<d, e, "content_duplicate">>, <<e, d, "content_duplicate">>}

\* A twin is among the matches, is then judged a duplicate, and then related or yet
\* to be related.
Looked(d) ==
  /\ job[d].phase = "found" =>
       \A e \in Docs : Twin(d, e) => e \in job[d].matches /\ docs[e].content = Text[d]
  /\ job[d].phase = "drawing" => \A e \in Docs : Twin(d, e) => Both(d, e) \subseteq Planned(d)

DupInv ==
  /\ \A d \in Docs : docs[d].content \in {Null, Text[d]}
  /\ DuplicatesFound
  /\ \A d \in Docs : Looked(d)

\* Every step keeps DupInv.
LEMMA DupInvNext ==
  ASSUME Types, VectorInv, LateInv, DupInv, [Next]_vars
  PROVE  DupInv'
<1>. DEFINE Quiet == UNCHANGED <<docs, edges, unseen>>
<1>1. ASSUME NEW f \in Docs, job'[f] = job[f], \A e \in Docs : Live(e)' => Live(e),
             \A e \in Docs : docs'[e].content \in {docs[e].content, Text[e]}
      PROVE  Looked(f)'
  BY <1>1 DEF DupInv, Looked, Twin, Planned
<1>2. ASSUME Quiet
      PROVE  (\A e \in Docs : docs'[e].content \in {Null, Text[e]}) /\ DuplicatesFound'
  BY <1>2 DEF DupInv, DuplicatesFound
<1>3. ASSUME NEW d \in Docs, Quiet, Looked(d)', \A e \in Docs \ {d} : job'[e] = job[e] PROVE DupInv'
  <2>1. \A e \in Docs \ {d} : Looked(e)'
    BY <1>1, <1>3 DEF Live
  <2>. QED  BY <1>2, <1>3, <2>1 DEF DupInv
<1>4. CASE UNCHANGED vars
  BY <1>4 DEF vars, DupInv, DuplicatesFound, Looked, Twin, Live, Planned
<1>5. ASSUME NEW d \in Docs,
             \/ AttemptBegin(d) \/ upsert(d) \/ DeleteBegin(d) \/ RemoveRelation(d)
             \/ AttemptFail(d) \/ DeleteFail(d)
      PROVE  DupInv'
  <2>1. Quiet
    BY <1>5 DEF AttemptBegin, upsert, DeleteBegin, RemoveRelation, AttemptFail, DeleteFail
  <2>2. job'[d].phase \notin {"found", "drawing"}
    BY <1>5, OwnJob, OwnEnd, OwnRemove
  <2>3. \A e \in Docs \ {d} : job'[e] = job[e]
    BY <1>5, OthersKept DEF Step
  <2>. QED  BY <1>3, <2>1, <2>2, <2>3 DEF Looked
<1>6. ASSUME NEW d \in Docs, find_candidates(d) PROVE DupInv'
  <2>1. Quiet
    BY <1>6 DEF find_candidates
  <2>2. /\ job'[d].phase = "found" /\ job'[d].matches = HashMatches(d)
        /\ job'[d].missed = {e \in Docs \ {d} : docs[e].content = Null}
    BY <1>6, OwnJob
  <2>3. ASSUME NEW e \in Docs, Twin(d, e)' PROVE e \in HashMatches(d) /\ docs'[e].content = Text[d]
    BY <2>1, <2>2, <2>3 DEF Twin, HashMatches, Live, DupInv
  <2>4. Looked(d)'
    BY <2>2, <2>3 DEF Looked
  <2>5. \A e \in Docs \ {d} : job'[e] = job[e]
    BY <1>6, OthersKept DEF Step
  <2>. QED  BY <1>3, <2>1, <2>4, <2>5
<1>7. ASSUME NEW d \in Docs, compare(d) PROVE DupInv'
  <2>1. Quiet /\ job[d].phase = "found"
    BY <1>7 DEF compare
  <2>2. job'[d].phase = "drawing" /\ job'[d].missed = job[d].missed
    BY <1>7, OwnCompare
  <2>3. ASSUME NEW e \in Docs, Twin(d, e)' PROVE Both(d, e) \subseteq Planned(d)'
    <3>1. Twin(d, e)
      BY <2>1, <2>2, <2>3 DEF Twin, Live
    <3>2. e \in Comparable(d) /\ docs[e].content = Text[d]
      BY <2>1, <3>1 DEF DupInv, Looked, Twin, Comparable
    <3>3. classify(Candidate(d, e, job[d].similar)) = "content_duplicate"
      BY <3>2, SameContent DEF Candidate
    <3>4. PICK i \in DOMAIN job'[d].todo : job'[d].todo[i] = <<e, "content_duplicate">>
      <4>. DEFINE drawn == {<<f, classify(Candidate(d, f, job[d].similar))>> :
                              f \in {g \in Comparable(d) : classify(Candidate(d, g, job[d].similar)) # "none"}}
      <4>1. \A v \in drawn : \E i \in DOMAIN job'[d].todo : job'[d].todo[i] = v
        BY <1>7, OwnCompare
      <4>2. <<e, classify(Candidate(d, e, job[d].similar))>> \in drawn
        BY <3>2, <3>3
      <4>. HIDE DEF drawn
      <4>. QED  BY <3>3, <4>1, <4>2
    <3>5. Both(d, e) = Ways(d, job'[d].todo[i]) /\ Both(d, e) \subseteq Edges
      BY <3>4 DEF Both, Ways, Edges, Kinds
    <3>. QED  BY <3>5 DEF Planned, Ways
  <2>4. Looked(d)'
    BY <2>2, <2>3 DEF Looked, Both
  <2>5. \A e \in Docs \ {d} : job'[e] = job[e]
    BY <1>7, OthersKept DEF Step
  <2>. QED  BY <1>3, <2>1, <2>4, <2>5
<1>8. ASSUME NEW d \in Docs, draw(d) \/ CheckReferences(d) PROVE DupInv'
  <2>1. Quiet
    BY <1>8 DEF draw, CheckReferences
  <2>2. /\ job'[d].phase = job[d].phase /\ job'[d].missed = job[d].missed /\ Planned(d)' = Planned(d)
        /\ job'[d].phase = "found" => job'[d].matches = job[d].matches
    <3>1. CASE draw(d)
      BY <3>1, OwnDraw
    <3>2. CASE CheckReferences(d)
      BY <3>2, OwnJob DEF Undrawn, Planned
    <3>. QED  BY <1>8, <3>1, <3>2
  <2>3. Looked(d)'
    BY <2>1, <2>2 DEF DupInv, Looked, Twin, Live, Both
  <2>4. \A e \in Docs \ {d} : job'[e] = job[e]
    BY <1>8, OthersKept DEF Step
  <2>. QED  BY <1>3, <2>1, <2>3, <2>4
<1>9. ASSUME NEW d \in Docs, AttemptCommit(d) PROVE DupInv'
  <2>1. /\ job[d].phase = "drawing" /\ job[d].todo = << >> /\ edges' = edges \cup job[d].touched
        /\ unseen' = {p \in unseen : d \notin p} \cup {{d, e} : e \in {f \in job[d].missed : docs[f].status = "ready"}}
    BY <1>9 DEF AttemptCommit
  <2>2. /\ docs'[d].status = "ready" /\ docs'[d].content = Text[d]
        /\ \A e \in Docs \ {d} : docs'[e] = docs[e]
    BY <1>9, DocsAfter
  <2>3. \A e \in Docs : Live(e)' => Live(e)
    BY <2>1, <2>2 DEF VectorInv, VectorsOf, Live
  <2>4. \A e \in Docs : Looked(e)'
    <3>1. Looked(d)'
      BY <1>9, OwnEnd DEF Looked
    <3>2. \A e \in Docs \ {d} : job'[e] = job[e]
      BY <1>9, OthersKept DEF Step
    <3>. QED  BY <1>1, <2>2, <2>3, <3>1, <3>2
  <2>5. ASSUME NEW e \in Docs \ {d}, docs[e].status = "ready", Text[e] = Text[d], {d, e} \notin unseen'
        PROVE  Both(d, e) \subseteq edges'
    <3>1. e \notin job[d].missed
      BY <2>1, <2>5
    <3>2. Twin(d, e)
      BY <2>5, <3>1 DEF Twin, Live
    <3>3. Both(d, e) \subseteq Planned(d)
      BY <2>1, <3>2 DEF DupInv, Looked
    <3>4. Planned(d) \subseteq job[d].touched
      BY <2>1 DEF Planned
    <3>. QED  BY <2>1, <3>3, <3>4
  <2>6. ASSUME NEW a \in Docs, NEW b \in Docs, a # b, docs'[a].status = "ready", docs'[b].status = "ready",
               Text[a] = Text[b], {a, b} \notin unseen'
        PROVE  <<a, b, "content_duplicate">> \in edges'
    <3>1. CASE a = d
      BY <2>2, <2>5, <2>6, <3>1 DEF Both
    <3>2. CASE b = d
      <4>1. {d, a} = {a, b}
        BY <3>2
      <4>. QED  BY <2>2, <2>5, <2>6, <3>2, <4>1 DEF Both
    <3>3. CASE a # d /\ b # d
      <4>1. {a, b} \notin unseen
        BY <2>1, <2>6, <3>3
      <4>. QED  BY <2>1, <2>2, <2>6, <3>3, <4>1 DEF DupInv, DuplicatesFound
    <3>. QED  BY <3>1, <3>2, <3>3
  <2>7. DuplicatesFound'
    BY <2>6 DEF DuplicatesFound
  <2>. QED  BY <2>2, <2>4, <2>7 DEF DupInv
<1>10. ASSUME NEW d \in Docs, DeleteCommit(d) PROVE DupInv'
  <2>1. /\ edges' = edges \ job[d].touched /\ unseen' = unseen
        /\ \A x \in job[d].touched : d \in {x[1], x[2]}
    BY <1>10 DEF DeleteCommit, LateInv, Drawing
  <2>2. /\ docs'[d].status = "deleted" /\ docs'[d].content = docs[d].content
        /\ \A e \in Docs \ {d} : docs'[e] = docs[e]
    BY <1>10, DocsAfter
  <2>3. \A e \in Docs : Looked(e)'
    <3>1. Looked(d)'
      BY <1>10, OwnEnd DEF Looked
    <3>2. \A e \in Docs \ {d} : job'[e] = job[e]
      BY <1>10, OthersKept DEF Step
    <3>. QED  BY <1>1, <2>2, <3>1, <3>2 DEF Live
  <2>4. DuplicatesFound'
    BY <2>1, <2>2 DEF DupInv, DuplicatesFound
  <2>. QED  BY <2>2, <2>3, <2>4 DEF DupInv
<1>. QED
  BY <1>4, <1>5, <1>6, <1>7, <1>8, <1>9, <1>10 DEF Next, Step

\* Two ready documents with the same text are recorded as duplicates of each other,
\* unless neither was committed when the other looked: no number of nearer documents
\* hides one, no failed attempt and no delete of a third undoes it (relations.py).
THEOREM DuplicatesAreFound == Spec => []DuplicatesFound
<1>1. Init => DupInv
  BY DEF Init, DupInv, DuplicatesFound, Looked, NoJob, Live
<1>2. DupInv => DuplicatesFound
  BY DEF DupInv
<1>. QED
  BY <1>1, <1>2, TypesInit, TypesNext, LateInit, VectorInvNext, LateInvNext, DupInvNext, PTL DEF Spec

----------------------------------------------------------------------------
(* Both directions. *)

Mutual(S) == \A x \in S : <<x[2], x[1], x[3]>> \in S

MutualInv == RelationsAreMutual /\ \A d \in Docs : job[d].phase = "drawing" => Mutual(Planned(d))

\* Every step keeps MutualInv: what an attempt has written and what it has yet to write
\* are mutual together, and nothing is left to write when it commits; what a delete has
\* removed when it commits is all there is of its document.
LEMMA MutualInvNext ==
  ASSUME Types, LateInv, MutualInv, [Next]_vars
  PROVE  MutualInv'
<1>1. ASSUME NEW f \in Docs, job'[f] = job[f], job'[f].phase = "drawing" PROVE Mutual(Planned(f))'
  <2>1. Planned(f)' = Planned(f)
    BY <1>1 DEF Planned
  <2>. QED  BY <1>1, <2>1 DEF MutualInv, Mutual
<1>2. ASSUME NEW d \in Docs, edges' = edges, \A e \in Docs \ {d} : job'[e] = job[e],
             job'[d].phase = "drawing" => Mutual(Planned(d))'
      PROVE  MutualInv'
  BY <1>1, <1>2 DEF MutualInv, RelationsAreMutual
<1>3. CASE UNCHANGED vars
  <2>1. edges' = edges /\ job' = job
    BY <1>3 DEF vars
  <2>. QED  BY <1>1, <2>1 DEF MutualInv, RelationsAreMutual
<1>4. ASSUME NEW d \in Docs,
             \/ AttemptBegin(d) \/ upsert(d) \/ find_candidates(d) \/ DeleteBegin(d) \/ RemoveRelation(d)
             \/ AttemptFail(d) \/ DeleteFail(d)
      PROVE  MutualInv'
  <2>1. edges' = edges
    BY <1>4 DEF AttemptBegin, upsert, find_candidates, DeleteBegin, RemoveRelation, AttemptFail, DeleteFail
  <2>2. job'[d].phase # "drawing"
    BY <1>4, OwnJob, OwnEnd, OwnRemove
  <2>3. \A e \in Docs \ {d} : job'[e] = job[e]
    BY <1>4, OthersKept DEF Step
  <2>. QED  BY <1>2, <2>1, <2>2, <2>3
<1>5. ASSUME NEW d \in Docs, compare(d) PROVE MutualInv'
  <2>1. edges' = edges /\ job'[d].touched = {}
    BY <1>5, OwnCompare DEF compare, LateInv, Drawing
  <2>2. ASSUME NEW x \in Planned(d)' PROVE <<x[2], x[1], x[3]>> \in Planned(d)'
    <3>1. PICK i \in DOMAIN job'[d].todo : x \in Ways(d, job'[d].todo[i])
      BY <2>1, <2>2 DEF Planned, Ways
    <3>2. <<x[2], x[1], x[3]>> \in Ways(d, job'[d].todo[i])
      BY <3>1 DEF Ways
    <3>3. <<x[2], x[1], x[3]>> \in Edges
      BY <2>2 DEF Planned, Edges
    <3>. QED  BY <3>2, <3>3 DEF Planned, Ways
  <2>3. Mutual(Planned(d))'
    BY <2>2 DEF Mutual
  <2>4. \A e \in Docs \ {d} : job'[e] = job[e]
    BY <1>5, OthersKept DEF Step
  <2>. QED  BY <1>2, <2>1, <2>3, <2>4
<1>6. ASSUME NEW d \in Docs, draw(d) \/ CheckReferences(d) PROVE MutualInv'
  <2>1. edges' = edges
    BY <1>6 DEF draw, CheckReferences
  <2>2. job'[d].phase = job[d].phase /\ Planned(d)' = Planned(d)
    <3>1. CASE draw(d)
      BY <3>1, OwnDraw
    <3>2. CASE CheckReferences(d)
      BY <3>2, OwnJob DEF Undrawn, Planned
    <3>. QED  BY <1>6, <3>1, <3>2
  <2>3. job'[d].phase = "drawing" => Mutual(Planned(d))'
    BY <2>2 DEF MutualInv, Mutual
  <2>4. \A e \in Docs \ {d} : job'[e] = job[e]
    BY <1>6, OthersKept DEF Step
  <2>. QED  BY <1>2, <2>1, <2>3, <2>4
<1>7. ASSUME NEW d \in Docs, AttemptCommit(d) PROVE MutualInv'
  <2>1. job[d].phase = "drawing" /\ job[d].todo = << >> /\ edges' = edges \cup job[d].touched
    BY <1>7 DEF AttemptCommit
  <2>2. Planned(d) = job[d].touched
    BY <2>1 DEF Planned, Types, Job
  <2>3. Mutual(job[d].touched)
    BY <2>1, <2>2 DEF MutualInv
  <2>4. RelationsAreMutual'
    BY <2>1, <2>3 DEF MutualInv, RelationsAreMutual, Mutual
  <2>5. job'[d].phase # "drawing" /\ \A e \in Docs \ {d} : job'[e] = job[e]
    BY <1>7, OwnEnd, OthersKept DEF Step
  <2>. QED  BY <1>1, <2>4, <2>5 DEF MutualInv
<1>8. ASSUME NEW d \in Docs, DeleteCommit(d) PROVE MutualInv'
  <2>1. /\ edges' = edges \ job[d].touched /\ EdgesOf(d) \subseteq job[d].touched
        /\ \A x \in job[d].touched : d \in {x[1], x[2]}
    BY <1>8 DEF DeleteCommit, LateInv, Drawing
  <2>2. ASSUME NEW x \in edges' PROVE <<x[2], x[1], x[3]>> \in edges'
    <3>1. x \in edges /\ d \notin {x[1], x[2]}
      BY <2>1, <2>2 DEF EdgesOf
    <3>2. <<x[2], x[1], x[3]>> \in edges
      BY <3>1 DEF MutualInv, RelationsAreMutual
    <3>. QED  BY <2>1, <3>1, <3>2
  <2>3. job'[d].phase # "drawing" /\ \A e \in Docs \ {d} : job'[e] = job[e]
    BY <1>8, OwnEnd, OthersKept DEF Step
  <2>. QED  BY <1>1, <2>2, <2>3 DEF MutualInv, RelationsAreMutual
<1>. QED
  BY <1>3, <1>4, <1>5, <1>6, <1>7, <1>8 DEF Next, Step

\* A document is related to another one as the other is to it, whatever attempts and
\* deletes of any documents write and remove between the statements of one of them
\* (relations.py, deletion.py).
THEOREM RelatedBothWays == Spec => []RelationsAreMutual
<1>1. Init => MutualInv
  BY DEF Init, MutualInv, RelationsAreMutual, NoJob
<1>2. MutualInv => RelationsAreMutual
  BY DEF MutualInv
<1>. QED
  BY <1>1, <1>2, TypesInit, TypesNext, LateInit, VectorInvNext, LateInvNext, MutualInvNext, PTL DEF Spec
=============================================================================
