--------------------------- MODULE EvidenceProofs ----------------------------
(****************************************************************************)
(* What holds of evidence whatever the documents, the archives, what is     *)
(* found in them and the number of rows: grounded rows keep evidence,       *)
(* references name rows that are there, resolutions stay coherent, only the *)
(* optional references of a caller refuse anything, and attempts and        *)
(* deletes take no more than theirs.                                        *)
(*                                                                          *)
(* The argument: between the transactions the database is sound and         *)
(* coherent, and what the transactions under way have read is still true    *)
(* enough. A resolution keeps that statement by statement, with the rows it *)
(* makes told apart from those it found; a delete takes rows in the order   *)
(* in which nothing it leaves refers to them.                               *)
(****************************************************************************)
EXTENDS EvidenceTables

----------------------------------------------------------------------------
(* What the resolution is given. *)

Mentions ==
  [name : STRING, role : {"current", "mention", "superseded"}, comment : STRING \cup {Null}, value : STRING,
   zone : STRING \cup {Null}]

\* What is found is a list of mentions.
LEMMA ReadingIs ==
  ASSUME NEW doc \in Docs, NEW ms \in Readings[doc]
  PROVE  ms \in Seq(Mentions)
BY EvidenceAssumption DEF EvidenceAssumption, Mentions

\* An assembly's code is a code.
LEMMA ZonesAre ==
  \A m \in Mentions : m.zone \in Codes
<1>1. \A m \in Mentions : m.zone \in STRING \cup {Null}
  BY DEF Mentions
<1>. QED BY <1>1 DEF Codes

\* s has every element of S once.
Enumerates(S, s) ==
  /\ s \in Seq(S) /\ \A x \in S : \E k \in 1..Len(s) : s[k] = x
  /\ \A j \in 1..Len(s) : \A k \in 1..Len(s) : s[j] = s[k] => j = k

\* SetToSeq lists a finite set.
LEMMA SetIsListed ==
  ASSUME NEW S, IsFiniteSet(S), NEW s, s = SetToSeq(S)
  PROVE  Enumerates(S, s)
<1>. DEFINE n == Cardinality(S)
<1>1. n \in Nat /\ ExistsBijection(1..n, S)
  BY FS_CardinalityType
<1>2. IsFiniteSet(1..n) /\ Cardinality(1..n) = n
  BY <1>1, FS_Interval
<1>3. \E f \in [1..n -> S] : IsInjective(f)
  BY <1>1 DEF ExistsBijection, Bijection, Injection
<1>4. s \in [1..n -> S] /\ IsInjective(s)
  BY <1>3 DEF SetToSeq
<1>5. s \in Injection(1..n, S)
  BY <1>4 DEF Injection
<1>. HIDE DEF n
<1>6. s \in Surjection(1..n, S)
  <2>1. Cardinality(1..n) = Cardinality(S)
    BY <1>2 DEF n
  <2>. QED BY <1>5, <2>1, FS_Injection
<1>7. s \in Seq(S) /\ Len(s) = n
  BY <1>1, <1>4
<1>8. \A x \in S : \E k \in 1..n : s[k] = x
  BY <1>6 DEF Surjection
<1>9. \A j \in 1..n : \A k \in 1..n : s[j] = s[k] => j = k
  BY <1>4 DEF IsInjective
<1>. QED BY <1>7, <1>8, <1>9 DEF Enumerates

----------------------------------------------------------------------------
(* The first pass: evidence and a candidate for every mention. *)

\* What the pass stored for mention j.
CandidateAt(x, Old, j) ==
  /\ x.new[j] \in OfTable(x, "engineering_entity_candidates") /\ x.new[j] \notin Old
  /\ x.rows[x.new[j]].method = Resolver /\ Package(x, x.new[j]) = x.package
  /\ EvidenceOf(x, x.new[j]) = {x.found[j]}

\* d.found and d.new start with what the pass stored for n mentions.
Stored(x, Old, n) ==
  /\ Len(x.found) = n /\ Len(x.new) >= n
  /\ \A j \in 1..n : CandidateAt(x, Old, j)
  /\ \A j \in 1..n : \A k \in 1..n : x.new[j] = x.new[k] => j = k

\* Statements that only add leave that as it was.
LEMMA StoredKept ==
  ASSUME NEW d, NEW Old, NEW n \in Nat, Stored(d, Old, n), d.new \in Seq(Ids), d.found \in Seq(EvidenceIds),
         NEW e, Grows(d, e), e.found = d.found, e.package = d.package,
         e.new = d.new \/ \E i \in Ids : e.new = Append(d.new, i)
  PROVE  /\ Stored(e, Old, n)
         /\ \A j \in 1..n : e.new[j] = d.new[j] /\ EntityOf(e, j) = EntityOf(d, j)
<1>1. /\ Len(e.new) >= n
      /\ \A j \in 1..n : e.new[j] = d.new[j]
  BY DEF Stored
<1>2. ASSUME NEW j \in 1..n PROVE CandidateAt(e, Old, j) /\ EntityOf(e, j) = EntityOf(d, j)
  <2>1. CandidateAt(d, Old, j)
    BY DEF Stored
  <2>2. /\ d.new[j] \in Live(d) /\ d.new[j] \in Live(e) /\ e.rows[d.new[j]] = d.rows[d.new[j]]
        /\ EvidenceOf(e, d.new[j]) = EvidenceOf(d, d.new[j])
    BY <2>1 DEF CandidateAt, OfTable, Grows
  <2>. QED BY <1>1, <2>1, <2>2 DEF CandidateAt, OfTable, Package, EntityOf
<1>. QED BY <1>1, <1>2 DEF Stored

\* The archive stays a member of its package.
LEMMA MemberKept ==
  ASSUME NEW doc, NEW d, NEW Old, Stage(doc, d, Old), Member(doc, d), NEW e, Steady(d, e)
  PROVE  Member(doc, e)
<1>1. For(doc, d, d.package) /\ Only(doc, d) /\ Machined(d)
  BY DEF Stage
<1>. QED BY <1>1, SteadyKeeps DEF Member

\* Of the first pass: a candidate for each of k mentions, not promoted yet.
Listed(doc, x, Old, k) ==
  /\ Stage(doc, x, Old) /\ Member(doc, x) /\ Stored(x, Old, k) /\ Len(x.new) = k
  /\ \A j \in 1..k : EntityOf(x, j) = Null

\* A mention's evidence and its candidate.
LEMMA CandidateStep ==
  ASSUME NEW doc \in Docs, NEW d, NEW Old, NEW k \in Nat, Listed(doc, d, Old, k), NEW e, e = AddCandidate(d, doc)
  PROVE  Broken(e) \/ Listed(doc, e, Old, k + 1)
<1>1. PICK g : g = record(d, doc, Resolver)
  OBVIOUS
<1>2. PICK row : row = ResolverRow("engineering_entity_candidates", [package_id |-> d.package])
  OBVIOUS
<1>3. e = insert(g, row, {Last(g.found)})
  BY <1>1, <1>2 DEF AddCandidate, OnLast
<1>4. \/ Broken(g)
      \/ /\ Stage(doc, g, Old) /\ Steady(d, g) /\ Grows(d, g)
         /\ \E x \in EvidenceIds : RecordsAt(d, doc, g, x) /\ g.found = Append(d.found, x) /\ g.evidence[x] = doc
  <2>1. Stage(doc, d, Old)
    BY DEF Listed
  <2>. QED BY <1>1, <2>1, StageRecord
<1>5. CASE Broken(g)
  BY <1>3, <1>5 DEF insert, Broken
<1>6. ASSUME Stage(doc, g, Old), Steady(d, g), Grows(d, g), NEW x \in EvidenceIds, g.found = Append(d.found, x),
             g.evidence[x] = doc, g.new = d.new
      PROVE  Broken(e) \/ Listed(doc, e, Old, k + 1)
  <2>0. /\ d.new \in Seq(Ids) /\ d.found \in Seq(EvidenceIds) /\ Len(d.new) = k /\ Len(d.found) = k
        /\ Stored(d, Old, k) /\ \A j \in 1..k : EntityOf(d, j) = Null
    BY DEF Listed, Stage, Lists, Stored
  <2>1. Last(g.found) = x
    BY <1>6, <2>0 DEF Last
  <2>2. g.package = d.package /\ d.package \in Ids
    BY <1>6 DEF Steady, Stage, For, OfTable, Live, Listed
  <2>3. /\ "engineering_entity_candidates" \in EngineeringTables
        /\ "engineering_entity_candidates" \notin Unpackaged
        /\ {"package_id", "canonical_entity_id"} \subseteq Columns("engineering_entity_candidates")
    BY MadeColumns DEF ResolverTables, Unpackaged
  <2>. DEFINE refs == [package_id |-> d.package]
  <2>4. /\ DOMAIN refs = {"package_id"} /\ refs["package_id"] = d.package
        /\ Blank(row, "engineering_entity_candidates", refs) /\ row.method = Resolver
    BY <1>2, <2>2, <2>3, OfPackage
  <2>. HIDE DEF refs
  <2>5. /\ IsFields(row) /\ row.doc = Null /\ row.sides = << >> /\ row.code = Null /\ row.raced = FALSE
        /\ row.table = "engineering_entity_candidates"
    BY <2>4 DEF Blank
  <2>6. IsRow(row) /\ \A c \in Columns("engineering_entity_candidates") :
                        row.refs[c] = IF c \in DOMAIN refs THEN refs[c] ELSE Null
    <3>1. row.method \in {Manual, Worker, Resolver} /\ row.raced \in BOOLEAN /\ row.code \in Codes
          /\ row.doc \in Docs \cup {Null}
      BY <2>4, <2>5, CodesAre
    <3>. QED BY <2>3, <2>4, <2>5, <3>1, FilledIs
  <2>7. row.refs["package_id"] = d.package /\ row.refs["canonical_entity_id"] = Null
    BY <2>3, <2>4, <2>6
  <2>8. MadeRefs(g, row, g.package)
    BY <2>2, <2>5, <2>7 DEF MadeRefs
  <2>9. MadeBy(row)
    BY <2>4, <2>5 DEF MadeBy, Manual, Worker, Resolver, ResolverTables
  <2>10. Grounds(row.table) /\ ~row.raced
    BY <2>5, GroundsIs
  <2>11. May(doc, g, row, {x}, g.package)
    <3>1. {x} \subseteq Range(g.found)
      BY <1>6, <2>0 DEF Range
    <3>. QED BY <2>4, <2>5, <2>6, <2>8, <2>9, <2>10, <3>1 DEF May, ResolverTables, Manual, Resolver
  <2>12. \/ Broken(e)
         \/ Stage(doc, e, Old) /\ Steady(g, e) /\ \E i : Added(g, row, {x}, i, e)
    <3>1. row.table \notin {"engineering_entities", "engineering_conflicts"} /\ e = insert(g, row, {x})
      BY <1>3, <2>1, <2>5
    <3>. QED BY <1>6, <2>11, <3>1, StageInsert
  <2>13. ASSUME Stage(doc, e, Old), Steady(g, e), NEW i, Added(g, row, {x}, i, e)
         PROVE  Listed(doc, e, Old, k + 1)
    <3>1. /\ Grows(g, e) /\ e.new = Append(g.new, i) /\ e.found = g.found /\ i \in Live(e) /\ i \notin Live(g)
          /\ e.rows[i] = row /\ EvidenceOf(e, i) = {x}
      BY <2>5, <2>13, AddedIs
    <3>2. /\ e.new = Append(d.new, i) /\ e.found = Append(d.found, x) /\ e.package = d.package
      BY <1>6, <2>2, <2>13, <3>1 DEF Steady
    <3>3. /\ Len(e.new) = k + 1 /\ Len(e.found) = k + 1 /\ e.new[k + 1] = i /\ e.found[k + 1] = x
          /\ \A j \in 1..k : e.new[j] = d.new[j] /\ e.found[j] = d.found[j]
      BY <2>0, <3>2
    <3>4. ASSUME NEW j \in 1..k
          PROVE  CandidateAt(e, Old, j) /\ EntityOf(e, j) = Null /\ e.new[j] \in Live(d)
      <4>1. CandidateAt(d, Old, j) /\ EntityOf(d, j) = Null
        BY <2>0 DEF Stored
      <4>2. /\ d.new[j] \in Live(d) /\ d.new[j] \in Live(g) /\ g.rows[d.new[j]] = d.rows[d.new[j]]
            /\ EvidenceOf(g, d.new[j]) = EvidenceOf(d, d.new[j])
        BY <1>6, <4>1 DEF CandidateAt, OfTable, Grows
      <4>3. /\ d.new[j] \in Live(e) /\ e.rows[d.new[j]] = d.rows[d.new[j]]
            /\ EvidenceOf(e, d.new[j]) = EvidenceOf(d, d.new[j])
        BY <3>1, <4>2 DEF Grows
      <4>4. e.new[j] = d.new[j] /\ e.found[j] = d.found[j]
        BY <3>3
      <4>. QED BY <3>2, <4>1, <4>2, <4>3, <4>4 DEF CandidateAt, OfTable, Package, EntityOf
    <3>5. CandidateAt(e, Old, k + 1) /\ EntityOf(e, k + 1) = Null
      <4>1. i \notin Old
        BY <1>6, <3>1 DEF Stage, Going, Grown
      <4>. QED BY <2>4, <2>5, <2>7, <3>1, <3>2, <3>3, <4>1 DEF CandidateAt, OfTable, Package, EntityOf
    <3>6. \A j \in 1..k : e.new[j] # e.new[k + 1]
      BY <1>6, <3>1, <3>3, <3>4 DEF Grows
    <3>7. \A j \in 1..(k+1) : j \in 1..k \/ j = k + 1
      OBVIOUS
    <3>8. \A j \in 1..(k+1) : CandidateAt(e, Old, j) /\ EntityOf(e, j) = Null
      BY <3>4, <3>5, <3>7
    <3>9. \A j \in 1..(k+1) : \A l \in 1..(k+1) : e.new[j] = e.new[l] => j = l
      <4>1. \A j \in 1..k : \A l \in 1..k : d.new[j] = d.new[l] => j = l
        BY <2>0 DEF Stored
      <4>. QED BY <3>3, <3>6, <3>7, <4>1
    <3>10. k + 1 \in Nat /\ Len(e.new) >= k + 1
      BY <3>3
    <3>11. Member(doc, e)
      <4>1. Stage(doc, d, Old) /\ Member(doc, d)
        BY DEF Listed
      <4>2. Member(doc, g)
        BY <1>6, <4>1, MemberKept
      <4>. QED BY <1>6, <2>13, <4>2, MemberKept
    <3>. QED BY <2>13, <3>3, <3>8, <3>9, <3>10, <3>11 DEF Listed, Stored
  <2>. QED BY <2>12, <2>13
<1>. QED BY <1>4, <1>5, <1>6 DEF RecordsAt

\* Counting up from 0 stays in a set that is closed under it.
LEMMA UpTo ==
  ASSUME NEW n \in Nat, NEW B, 0 \in B, \A k \in B : k < n => k + 1 \in B
  PROVE  n \in B
<1>. DEFINE T == {k \in 0..n : k \notin B}
<1>1. SUFFICES ASSUME n \notin B PROVE FALSE
  OBVIOUS
<1>2. T \in SUBSET Nat /\ T # {}
  BY <1>1
<1>3. PICK x \in T : \A y \in T : x <= y
  <2>. HIDE DEF T
  <2>. QED BY <1>2, Waves!Least
<1>4. x # 0 /\ x - 1 \in 0..n /\ x - 1 < x /\ x - 1 < n
  OBVIOUS
<1>5. x - 1 \in B
  BY <1>3, <1>4
<1>6. (x - 1) + 1 \in B
  <2>1. PICK y : y = x - 1
    OBVIOUS
  <2>2. y \in B /\ y < n
    BY <1>4, <1>5, <2>1
  <2>3. y + 1 \in B
    BY <2>2
  <2>. QED BY <2>1, <2>3
<1>7. (x - 1) + 1 = x
  OBVIOUS
<1>. QED BY <1>3, <1>6, <1>7

\* g lists the databases from b on, mention by mention.
AddsOf(doc, s, b, g) ==
  /\ g[0] = b /\ \A k \in 1..Len(s) : g[k] = AddOp(doc, g[k-1], s[k])
  /\ Adds!Folded(doc, s, b) = g[Len(s)]

\* The intermediate results of that fold.
LEMMA AddsByPrefix ==
  ASSUME NEW doc, NEW S, NEW s \in Seq(S), NEW b
  PROVE  \E g : AddsOf(doc, s, b, g)
BY Adds!ByPrefix DEF AddsOf

\* The first pass stores every mention.
LEMMA CandidatesStep ==
  ASSUME NEW doc \in Docs, NEW d, NEW Old, Broken(d) \/ (Stage(doc, d, Old) /\ Member(doc, d) /\ d.new = << >> /\ d.found = << >>),
         NEW S, NEW ms \in Seq(S), NEW e, e = AddCandidates(d, doc, ms)
  PROVE  Broken(e) \/ Listed(doc, e, Old, Len(ms))
<1>1. e = Adds!Folded(doc, ms, d)
  BY DEF AddCandidates, FoldLeft, MapThenFoldSet, Max, Adds!Folded, Adds!Largest, AddOp
<1>2. PICK g : AddsOf(doc, ms, d, g)
  BY AddsByPrefix
<1>3. g[0] = d /\ e = g[Len(ms)]
  BY <1>1, <1>2 DEF AddsOf
<1>4. \A k \in 1..Len(ms) : g[k] = AddCandidate(g[k-1], doc)
  BY <1>2 DEF AddsOf, AddOp
<1>. DEFINE Good == {k \in 0..Len(ms) : Broken(g[k]) \/ Listed(doc, g[k], Old, k)}
<1>5. 0 \in Good
  <2>1. ASSUME ~Broken(d) PROVE Listed(doc, d, Old, 0)
    <3>1. Stored(d, Old, 0) /\ Len(d.new) = 0
      BY <2>1 DEF Stored
    <3>. QED BY <2>1, <3>1 DEF Listed
  <2>. QED BY <1>3, <2>1
<1>6. ASSUME NEW k \in Good, k < Len(ms) PROVE k + 1 \in Good
  <2>1. k + 1 \in 1..Len(ms) /\ k + 1 \in 0..Len(ms) /\ (k + 1) - 1 = k /\ k \in Nat
    BY <1>6
  <2>2. g[k+1] = AddCandidate(g[k], doc)
    BY <1>4, <2>1
  <2>3. CASE Broken(g[k])
    BY <2>1, <2>2, <2>3 DEF AddCandidate, OnLast, record, insert, Broken
  <2>4. CASE Listed(doc, g[k], Old, k)
    <3>1. Broken(g[k+1]) \/ Listed(doc, g[k+1], Old, k + 1)
      BY <2>1, <2>2, <2>4, CandidateStep
    <3>. QED BY <2>1, <3>1
  <2>. QED BY <1>6, <2>3, <2>4
<1>7. Len(ms) \in Good
  <2>. HIDE DEF Good
  <2>1. Len(ms) \in Nat
    OBVIOUS
  <2>. QED BY <1>5, <1>6, <2>1, UpTo
<1>. QED BY <1>3, <1>7

----------------------------------------------------------------------------
(* The second pass: an entity for every name. *)

\* The mention that an entity is named after is one of its group.
LEMMA PrimaryIs ==
  ASSUME NEW ms, NEW group \in SUBSET Nat, group # {}
  PROVE  Primary(ms, group) \in group
<1>1. \A m : Rank(m) \in 0..2
  BY DEF Rank
<1>. DEFINE best == {k \in group : \A j \in group : Rank(ms[j]) <= Rank(ms[k])}
<1>2. best # {}
  <2>1. CASE \E k \in group : Rank(ms[k]) = 2
    BY <1>1, <2>1
  <2>2. CASE (\E k \in group : Rank(ms[k]) = 1) /\ ~\E k \in group : Rank(ms[k]) = 2
    BY <1>1, <2>2
  <2>3. CASE (~\E k \in group : Rank(ms[k]) = 1) /\ ~\E k \in group : Rank(ms[k]) = 2
    <3>1. \A k \in group : Rank(ms[k]) = 0
      BY <1>1, <2>3
    <3>. QED BY <3>1
  <2>. QED BY <2>1, <2>2, <2>3
<1>3. Min(best) \in best
  BY <1>2, MinIsIn
<1>. QED BY <1>3 DEF Primary

\* The assembly that was ensured, if one was.
AssemblyHere(e) ==
  \/ e.id = Null
  \/ e.id \in OfTable(e, "assemblies") /\ Made(e, e.id) /\ Package(e, e.id) = e.package

\* Rows were added to d, and with them nothing that was found.
Follows(d, e) ==
  /\ Steady(d, e) /\ Grows(d, e) /\ e.found = d.found
  /\ e.new = d.new \/ \E i \in Ids : e.new = Append(d.new, i)

\* A row that refers to its package, a machine and nothing else, before its caller
\* fills it in.
LEMMA AssemblyMay ==
  ASSUME NEW doc \in Docs, NEW d, NEW Old, Stage(doc, d, Old), d.machine # Null, NEW code \in Codes,
         NEW r, r = WorkerRow("assemblies", [package_id |-> d.package, machine_id |-> d.machine]),
         NEW row, IsFields(row), row.table = r.table, row.refs = r.refs, row.doc = r.doc, row.method = r.method,
         row.sides = r.sides, row.code = code, row.raced = r.raced
  PROVE  May(doc, d, row, {}, d.package) /\ row.method = Worker /\ row.table = "assemblies"
         /\ row.refs["package_id"] = d.package
<1>1. d.package \in Ids /\ d.machine \in Ids
  BY DEF Stage, For, OfTable, Live, Machined
<1>2. "assemblies" \in EngineeringTables /\ "assemblies" \notin Unpackaged
      /\ {"package_id", "machine_id", "parent_assembly_id"} \subseteq Columns("assemblies")
  BY MadeColumns DEF WorkerTables, Unpackaged
<1>. DEFINE refs == [package_id |-> d.package, machine_id |-> d.machine]
<1>3. /\ DOMAIN refs = {"package_id", "machine_id"} /\ refs["package_id"] = d.package
      /\ refs["machine_id"] = d.machine
      /\ Blank(r, "assemblies", refs) /\ r.method = Worker
  BY <1>1, <1>2, OfMachine
<1>. HIDE DEF refs
<1>4. IsFields(r) /\ r.doc = Null /\ r.sides = << >> /\ r.code = Null /\ r.raced = FALSE
      /\ r.table = "assemblies"
  BY <1>3 DEF Blank
<1>5. /\ IsFields(row) /\ row.table = r.table /\ row.refs = r.refs /\ row.doc = r.doc /\ row.method = r.method
      /\ row.sides = r.sides /\ row.code = code /\ row.raced = r.raced
  OBVIOUS
<1>6. r.method \in {Manual, Worker, Resolver} /\ row.raced \in BOOLEAN /\ row.code \in Codes
      /\ row.doc \in Docs \cup {Null} /\ row.sides = << >>
  BY <1>3, <1>4, <1>5
<1>7. /\ IsRow(row) /\ row.table = "assemblies"
      /\ \A c \in Columns("assemblies") : row.refs[c] = IF c \in DOMAIN refs THEN refs[c] ELSE Null
  BY <1>2, <1>3, <1>5, <1>6, FilledIs
<1>8. row.refs["package_id"] = d.package /\ row.refs["machine_id"] = d.machine
      /\ row.refs["parent_assembly_id"] = Null
  BY <1>2, <1>3, <1>7
<1>9. MadeRefs(d, row, d.package)
  BY <1>7, <1>8 DEF MadeRefs, Machined, Stage
<1>10. MadeBy(row) /\ row.method = Worker
  BY <1>3, <1>5, <1>7 DEF MadeBy, Manual, Worker, Resolver, WorkerTables
<1>11. ~Grounds(row.table) /\ ~row.raced
  BY <1>4, <1>5, <1>7, GroundsIs
<1>. QED BY <1>7, <1>8, <1>9, <1>10, <1>11 DEF May, WorkerTables, Manual, Worker

\* _ensure_assembly.
LEMMA AssemblyStep ==
  ASSUME NEW doc \in Docs, NEW d, NEW Old, Stage(doc, d, Old), NEW code \in Codes, NEW e, e = ensure_assembly(d, code)
  PROVE  Broken(e) \/ (Stage(doc, e, Old) /\ Follows(d, e) /\ AssemblyHere(e))
<1>1. CASE d.machine = Null \/ code = Null
  <2>1. e = [d EXCEPT !.id = Null]
    BY <1>1 DEF ensure_assembly
  <2>2. IsDb(d) /\ Lists(doc, d, Old)
    BY DEF Stage, Going, Sound, Shape
  <2>3. SameTables(d, e) /\ e.package = d.package /\ e.machine = d.machine /\ e.new = d.new /\ e.found = d.found
        /\ e.id = Null
    BY <2>1, <2>2 DEF IsDb, SameTables
  <2>4. Lists(doc, e, Old)
    BY <2>2, <2>3, SameLists
  <2>5. Stage(doc, e, Old) /\ Steady(d, e) /\ Grows(d, e)
    BY <2>3, <2>4, StageSame
  <2>. QED BY <2>3, <2>5 DEF Follows, AssemblyHere
<1>2. CASE d.machine # Null /\ code # Null
  <2>. DEFINE have == {i \in InPackageOf(d, "assemblies", d.package) : d.rows[i].code = code}
  <2>1. PICK r : r = WorkerRow("assemblies", [package_id |-> d.package, machine_id |-> d.machine])
    OBVIOUS
  <2>2. PICK row : row = [r EXCEPT !.code = code]
    OBVIOUS
  <2>3. e = Ensured(d, have, row)
    BY <1>2, <2>1, <2>2 DEF ensure_assembly
  <2>4. have \in SUBSET Live(d)
    BY DEF InPackageOf, OfTable
  <2>5. May(doc, d, row, {}, d.package) /\ row.method = Worker /\ row.table = "assemblies"
        /\ row.refs["package_id"] = d.package
    <3>1. d.package \in Ids /\ d.machine \in Ids /\ "assemblies" \in EngineeringTables
      BY <1>2, MadeColumns DEF Stage, For, OfTable, Live, Machined, WorkerTables
    <3>2. IsFields(r)
      <4>1. Blank(r, "assemblies", [package_id |-> d.package, machine_id |-> d.machine])
        BY <2>1, <3>1, OfMachine
      <4>. QED BY <4>1 DEF Blank
    <3>3. /\ IsFields(row) /\ row.table = r.table /\ row.refs = r.refs /\ row.doc = r.doc /\ row.method = r.method
          /\ row.sides = r.sides /\ row.code = code /\ row.raced = r.raced
      BY <2>2, <3>2 DEF IsFields
    <3>. QED BY <1>2, <2>1, <3>3, AssemblyMay
  <2>6. Broken(e) \/ Ensures(doc, d, Old, have, row, e)
    <3>. HIDE DEF have
    <3>. QED BY <2>3, <2>4, <2>5, StageEnsure
  <2>7. ASSUME Ensures(doc, d, Old, have, row, e)
        PROVE  Stage(doc, e, Old) /\ Follows(d, e) /\ AssemblyHere(e)
    <3>1. /\ Stage(doc, e, Old) /\ Steady(d, e) /\ Grows(d, e) /\ e.found = d.found
          /\ \/ e.id \in have /\ e.new = d.new
             \/ e.id \in Live(e) /\ e.rows[e.id] = row /\ e.new = Append(d.new, e.id)
      BY <2>7 DEF Ensures
    <3>2. e.package = d.package
      BY <3>1 DEF Steady
    <3>3. CASE e.id \in have /\ e.new = d.new
      <4>1. e.id \in Live(d) /\ d.rows[e.id].table = "assemblies" /\ Package(d, e.id) = d.package
            /\ d.rows[e.id].code = code
        BY <3>3 DEF InPackageOf, OfTable, Package
      <4>2. d.rows[e.id].method # Manual
        BY <1>2, <4>1 DEF Stage, Going, Sound, Makers, MadeBy
      <4>3. e.id \in Live(e) /\ e.rows[e.id] = d.rows[e.id]
        BY <3>1, <4>1 DEF Grows
      <4>4. AssemblyHere(e)
        BY <3>2, <4>1, <4>2, <4>3 DEF AssemblyHere, OfTable, Made, Package
      <4>. QED BY <3>1, <3>3, <4>4 DEF Follows
    <3>4. CASE e.id \in Live(e) /\ e.rows[e.id] = row /\ e.new = Append(d.new, e.id)
      <4>1. AssemblyHere(e)
        BY <2>5, <3>2, <3>4 DEF AssemblyHere, OfTable, Made, Package, Worker, Manual
      <4>2. e.id \in Ids
        BY <3>4 DEF Live
      <4>. QED BY <3>1, <3>4, <4>1, <4>2 DEF Follows
    <3>. QED BY <3>1, <3>3, <3>4
  <2>. QED BY <2>6, <2>7
<1>. QED BY <1>1, <1>2

\* A row that refers to its package, a machine and an assembly.
LEMMA OfAssembly ==
  ASSUME NEW t \in EngineeringTables, NEW p \in Ids, NEW m \in Ids \cup {Null}, NEW a \in Ids \cup {Null}, NEW refs,
         refs = [package_id |-> p, machine_id |-> m, assembly_id |-> a]
  PROVE  /\ DOMAIN refs = {"package_id", "machine_id", "assembly_id"}
         /\ refs["package_id"] = p /\ refs["machine_id"] = m /\ refs["assembly_id"] = a
         /\ Blank(ResolverRow(t, refs), t, refs) /\ ResolverRow(t, refs).method = Resolver
<1>1. /\ DOMAIN refs = {"package_id", "machine_id", "assembly_id"}
      /\ refs["package_id"] = p /\ refs["machine_id"] = m /\ refs["assembly_id"] = a
  OBVIOUS
<1>2. \A c \in DOMAIN refs : refs[c] \in Ids \cup {Null}
  BY <1>1
<1>. QED BY <1>1, <1>2, RowFields

\* An entity is in, on the evidence evs.
EntityAdded(d, evs, i, e) ==
  \E row : Added(d, row, evs, i, e) /\ row.table = "engineering_entities" /\ row.method = Resolver
           /\ row.refs["package_id"] = d.package

\* The insert of _promote_group.
LEMMA EntityStep ==
  ASSUME NEW doc \in Docs, NEW d, NEW Old, Stage(doc, d, Old), AssemblyHere(d), NEW evs, evs \subseteq Range(d.found),
         evs # {},
         NEW e, e = insert(d, ResolverRow("engineering_entities",
                             [package_id |-> d.package, machine_id |-> d.machine, assembly_id |-> d.id]), evs)
  PROVE  Broken(e) \/ (Going(doc, e, Old) /\ Lists(doc, e, Old) /\ \E i : EntityAdded(d, evs, i, e))
<1>. DEFINE refs == [package_id |-> d.package, machine_id |-> d.machine, assembly_id |-> d.id]
<1>1. PICK row : row = ResolverRow("engineering_entities", refs)
  OBVIOUS
<1>2. d.package \in Ids /\ d.machine \in Ids \cup {Null} /\ d.id \in Ids \cup {Null}
  BY DEF Stage, For, OfTable, Live, Machined, AssemblyHere
<1>3. /\ "engineering_entities" \in EngineeringTables /\ "engineering_entities" \notin Unpackaged
      /\ {"package_id", "machine_id", "assembly_id"} \subseteq Columns("engineering_entities")
  BY MadeColumns DEF ResolverTables, Unpackaged
<1>4. /\ DOMAIN refs = {"package_id", "machine_id", "assembly_id"}
      /\ refs["package_id"] = d.package /\ refs["machine_id"] = d.machine /\ refs["assembly_id"] = d.id
      /\ Blank(row, "engineering_entities", refs) /\ row.method = Resolver
  BY <1>1, <1>2, <1>3, OfAssembly
<1>5. e = insert(d, row, evs)
  BY <1>1
<1>. HIDE DEF refs
<1>6. IsFields(row) /\ row.doc = Null /\ row.sides = << >> /\ row.code = Null /\ row.raced = FALSE
      /\ row.table = "engineering_entities"
  BY <1>4 DEF Blank
<1>7. IsRow(row) /\ \A c \in Columns("engineering_entities") : row.refs[c] = IF c \in DOMAIN refs THEN refs[c] ELSE Null
  <2>1. row.method \in {Manual, Worker, Resolver} /\ row.raced \in BOOLEAN /\ row.code \in Codes
        /\ row.doc \in Docs \cup {Null}
    BY <1>4, <1>6, CodesAre
  <2>. QED BY <1>3, <1>4, <1>6, <2>1, FilledIs
<1>8. row.refs["package_id"] = d.package /\ row.refs["machine_id"] = d.machine /\ row.refs["assembly_id"] = d.id
  BY <1>3, <1>4, <1>7
<1>9. MadeRefs(d, row, d.package)
  BY <1>6, <1>8 DEF MadeRefs, Machined, Stage, AssemblyHere
<1>10. MadeBy(row)
  BY <1>4, <1>6 DEF MadeBy, Manual, Worker, Resolver, ResolverTables
<1>11. Grounds(row.table) /\ ~row.raced
  BY <1>6, GroundsIs
<1>12. May(doc, d, row, evs, d.package)
  BY <1>4, <1>6, <1>7, <1>9, <1>10, <1>11 DEF May, ResolverTables, Manual, Resolver
<1>13. Going(doc, d, Old) /\ Lists(doc, d, Old) /\ For(doc, d, d.package)
  BY DEF Stage
<1>14. \/ Broken(e)
       \/ /\ Going(doc, e, Old) /\ Lists(doc, e, Old)
          /\ \E i \in FreshIds(d) : InsertsAt(d, row, evs, e, i) /\ RowAdded(d, row, evs, i, e)
  BY <1>5, <1>12, <1>13, AttemptInsert
<1>. QED BY <1>4, <1>6, <1>8, <1>14 DEF EntityAdded, Added

\* New candidates may be merged.
LEMMA GrownRelinked ==
  ASSUME NEW doc, NEW d, Shape(d), NEW Old, Grown(doc, d, Old),
         NEW M \in SUBSET OfTable(d, "engineering_entity_candidates"), M \cap Old = {},
         NEW v \in Ids \cup {Null}, NEW e, Relinks(d, e, M, v)
  PROVE  Grown(doc, e, Old) /\ \A x : NewOnly(d, Old, x) => NewOnly(e, Old, x)
<1>0. Alike(d, e, M, v)
  BY RelinkAlike
<1>1. /\ Live(e) = Live(d) /\ \A i \in Ids : i \notin M => e.rows[i] = d.rows[i]
      /\ \A i : EvidenceOf(e, i) = EvidenceOf(d, i)
      /\ e.bindings = d.bindings /\ e.evidence = d.evidence
  BY <1>0 DEF Alike, Relinks
<1>2. \A i \in Live(d) : /\ e.rows[i].table = d.rows[i].table /\ e.rows[i].method = d.rows[i].method
                         /\ e.rows[i].raced = d.rows[i].raced /\ i \in Ids
  BY <1>0 DEF Alike, Relinked, Live
<1>3. \A x : NewOnly(d, Old, x) <=> NewOnly(e, Old, x)
  BY <1>1 DEF NewOnly
<1>4. Old \subseteq Live(Db) \cap Live(e)
  BY <1>1 DEF Grown
<1>5. ASSUME NEW i \in Old
      PROVE  e.rows[i] = rows[i] /\ (~rows[i].raced => EvidenceOf(e, i) = EvidenceOf(Db, i))
  <2>1. e.rows[i] = d.rows[i]
    BY <1>1, <1>2 DEF Grown
  <2>2. d.rows[i] = rows[i] /\ (~rows[i].raced => EvidenceOf(d, i) = EvidenceOf(Db, i))
    BY DEF Grown
  <2>. QED BY <1>1, <2>1, <2>2
<1>6. ASSUME NEW i \in Live(e) \ Old
      PROVE  /\ i \notin Noted /\ e.rows[i].method # Manual /\ ~e.rows[i].raced
             /\ Grounds(e.rows[i].table) => \E x \in EvidenceOf(e, i) : NewOnly(e, Old, x)
  <2>1. i \in Live(d) \ Old
    BY <1>1
  <2>2. /\ i \notin Noted /\ d.rows[i].method # Manual /\ ~d.rows[i].raced
        /\ Grounds(d.rows[i].table) => \E x \in EvidenceOf(d, i) : NewOnly(d, Old, x)
    BY <2>1 DEF Grown
  <2>. QED BY <1>1, <1>2, <1>3, <2>1, <2>2
<1>7. \A b \in e.bindings : IF b[2] \in Live(e) \ Old THEN e.evidence[b[1]] = doc
                            ELSE b \in bindings /\ e.evidence[b[1]] = evidence[b[1]]
  BY <1>1 DEF Grown
<1>8. \A i \in Live(Db) \ Old : Clearable(i)
  BY DEF Grown
<1>. QED BY <1>3, <1>4, <1>5, <1>6, <1>7, <1>8 DEF Grown

\* A merge leaves conflicts alone.
LEMMA SidesRelinked ==
  ASSUME NEW d, Shape(d), Makers(d), Sides(d), NEW M \in SUBSET OfTable(d, "engineering_entity_candidates"),
         NEW v \in Ids \cup {Null}, NEW e, Relinks(d, e, M, v)
  PROVE  Sides(e)
<1>0. Alike(d, e, M, v)
  BY RelinkAlike
<1>1. Live(e) = Live(d) /\ \A t : OfTable(e, t) = OfTable(d, t)
  BY <1>0 DEF Alike
<1>2. \A i \in Live(d) : /\ e.rows[i].table = d.rows[i].table /\ e.rows[i].method = d.rows[i].method
                         /\ e.rows[i].sides = d.rows[i].sides
  BY <1>0 DEF Alike, Relinked
<1>3. \A i \in Live(d) : d.rows[i].table \notin Unpackaged => Package(e, i) = Package(d, i)
  BY <1>0 DEF Alike
<1>4. SUFFICES ASSUME NEW i \in OfTable(e, "engineering_conflicts"), e.rows[i].method = Resolver,
                      NEW s \in Range(e.rows[i].sides)
               PROVE  /\ s \in Live(e) /\ e.rows[s].method = Resolver /\ Package(e, s) = Package(e, i)
                      /\ e.rows[s].table # "engineering_conflicts"
  BY DEF Sides
<1>5. i \in OfTable(d, "engineering_conflicts") /\ i \in Live(d) /\ d.rows[i].table = "engineering_conflicts"
  BY <1>1 DEF OfTable
<1>6. /\ s \in Live(d) /\ d.rows[s].method = Resolver /\ Package(d, s) = Package(d, i)
      /\ d.rows[s].table # "engineering_conflicts"
  BY <1>2, <1>4, <1>5 DEF Sides
<1>7. d.rows[s].table \notin Unpackaged /\ d.rows[i].table \notin Unpackaged
  BY <1>5, <1>6 DEF Makers, MadeBy, ResolverTables, Unpackaged
<1>. QED BY <1>1, <1>2, <1>3, <1>5, <1>6, <1>7

\* An entity that candidates are merged into stands on their evidence.
LEMMA StandingMerged ==
  ASSUME NEW a, Shape(a), KeysOk(a), Standing(a), NEW i, NEW evs, NEW b, EntityAdded(a, evs, i, b),
         NEW M \in SUBSET OfTable(a, "engineering_entity_candidates"),
         \A m \in M : a.rows[m].refs["canonical_entity_id"] = Null,
         \A y : y \in evs <=> \E m \in M : y \in EvidenceOf(a, m),
         NEW e, Relinks(b, e, M, i)
  PROVE  Standing(e)
<1>1. PICK row : Added(a, row, evs, i, b) /\ row.table = "engineering_entities"
  BY DEF EntityAdded
<1>2. /\ Grows(a, b) /\ Shape(b) /\ i \in Live(b) /\ i \in Ids /\ i \notin Live(a)
      /\ b.rows[i].table = "engineering_entities"
      /\ EvidenceOf(b, i) = evs /\ Live(b) = Live(a) \cup {i}
  <2>1. /\ Grows(a, b) /\ i \in Live(b) /\ i \notin Live(a) /\ b.rows[i] = row
        /\ EvidenceOf(b, i) = evs /\ Live(b) = Live(a) \cup {i}
    BY <1>1, AddedIs
  <2>2. i \in Ids /\ Shape(b)
    BY <1>1 DEF Added, RowAdded
  <2>. QED BY <1>1, <2>1, <2>2
<1>3. M \in SUBSET OfTable(b, "engineering_entity_candidates") /\ M \subseteq Live(a)
  BY <1>2 DEF OfTable, Grows
<1>4. Alike(b, e, M, i)
  BY <1>2, <1>3, RelinkAlike
<1>5. /\ \A t : OfTable(e, t) = OfTable(b, t)
      /\ \A j \in Ids : j \notin M => e.rows[j] = b.rows[j]
      /\ \A j \in M : e.rows[j].refs["canonical_entity_id"] = i
      /\ \A j : EvidenceOf(e, j) = EvidenceOf(b, j)
  BY <1>4 DEF Alike
<1>6. \A j \in OfTable(b, "engineering_entity_candidates") : j \in OfTable(a, "engineering_entity_candidates") /\ j \in Ids
  BY <1>2 DEF OfTable, Grows, Live
<1>7. ASSUME NEW j \in OfTable(a, "engineering_entity_candidates")
      PROVE  j \in OfTable(b, "engineering_entity_candidates") /\ b.rows[j] = a.rows[j] /\ EvidenceOf(e, j) = EvidenceOf(a, j)
  BY <1>2, <1>5 DEF OfTable, Grows
<1>8. ASSUME NEW j \in OfTable(a, "engineering_entity_candidates") PROVE a.rows[j].refs["canonical_entity_id"] # i
  <2>1. PICK f \in ForeignKeys["engineering_entity_candidates"] : f.col = "canonical_entity_id"
    BY MadeColumns DEF Columns
  <2>2. j \in Live(a) /\ f \in ForeignKeys[a.rows[j].table]
    BY <2>1 DEF OfTable
  <2>3. a.rows[j].refs[f.col] # Null => a.rows[j].refs[f.col] \in Live(a)
    BY <2>2, RefsLive
  <2>4. i # Null
    BY <1>2, EvidenceAssumption DEF Ids
  <2>. QED BY <1>2, <2>1, <2>3, <2>4
<1>9. SUFFICES ASSUME NEW h \in OfTable(e, "engineering_entities"), e.rows[h].method = Resolver
               PROVE  Stands(e, h)
  BY DEF Standing
<1>10. CASE h = i
  <2>1. ASSUME NEW j PROVE j \in Merged(e, h) <=> j \in M
    <3>1. ASSUME j \in M PROVE j \in Merged(e, h)
      BY <1>3, <1>5, <1>10, <3>1 DEF Merged
    <3>2. ASSUME j \in Merged(e, h), j \notin M PROVE FALSE
      <4>1. j \in OfTable(b, "engineering_entity_candidates") /\ e.rows[j].refs["canonical_entity_id"] = i
        BY <1>5, <1>10, <3>2 DEF Merged
      <4>2. j \in OfTable(a, "engineering_entity_candidates") /\ j \in Ids
        BY <1>6, <4>1
      <4>3. e.rows[j] = a.rows[j]
        BY <1>5, <1>7, <3>2, <4>2
      <4>. QED BY <1>8, <4>1, <4>2, <4>3
    <3>. QED BY <3>1, <3>2
  <2>2. \A m \in M : EvidenceOf(e, m) = EvidenceOf(a, m)
    BY <1>7
  <2>3. EvidenceOf(e, h) = evs
    BY <1>2, <1>5, <1>10
  <2>. QED BY <2>1, <2>2, <2>3 DEF Stands
<1>11. CASE h # i
  <2>1. h \in OfTable(a, "engineering_entities") /\ e.rows[h] = a.rows[h] /\ EvidenceOf(e, h) = EvidenceOf(a, h)
        /\ h # Null
    <3>1. h \in OfTable(b, "engineering_entities") /\ h \in Live(a) /\ h \in Ids
      BY <1>2, <1>5, <1>11 DEF OfTable, Live
    <3>2. h \in OfTable(a, "engineering_entities") /\ b.rows[h] = a.rows[h] /\ EvidenceOf(b, h) = EvidenceOf(a, h)
      BY <1>2, <3>1 DEF OfTable, Grows
    <3>3. h \notin M
      BY <3>2 DEF OfTable
    <3>4. h # Null
      BY <3>1, EvidenceAssumption DEF Ids
    <3>. QED BY <1>5, <3>1, <3>2, <3>3, <3>4
  <2>2. Stands(a, h)
    BY <1>9, <2>1 DEF Standing
  <2>3. ASSUME NEW j PROVE j \in Merged(e, h) <=> j \in Merged(a, h)
    <3>1. ASSUME j \in Merged(e, h) PROVE j \in Merged(a, h)
      <4>1. j \in OfTable(b, "engineering_entity_candidates") /\ e.rows[j].refs["canonical_entity_id"] = h
        BY <1>5, <3>1 DEF Merged
      <4>2. j \notin M
        BY <1>5, <1>11, <4>1
      <4>3. j \in OfTable(a, "engineering_entity_candidates") /\ j \in Ids
        BY <1>6, <4>1
      <4>4. e.rows[j] = a.rows[j]
        BY <1>5, <1>7, <4>2, <4>3
      <4>. QED BY <4>1, <4>3, <4>4 DEF Merged
    <3>2. ASSUME j \in Merged(a, h) PROVE j \in Merged(e, h)
      <4>1. j \in OfTable(a, "engineering_entity_candidates") /\ a.rows[j].refs["canonical_entity_id"] = h
        BY <3>2 DEF Merged
      <4>2. j \notin M
        BY <2>1, <4>1
      <4>3. j \in OfTable(b, "engineering_entity_candidates") /\ b.rows[j] = a.rows[j] /\ j \in Ids
        BY <1>6, <1>7, <4>1
      <4>4. e.rows[j] = a.rows[j] /\ j \in OfTable(e, "engineering_entity_candidates")
        BY <1>5, <4>2, <4>3
      <4>. QED BY <4>1, <4>4 DEF Merged
    <3>. QED BY <3>1, <3>2
  <2>4. \A j \in Merged(a, h) : EvidenceOf(e, j) = EvidenceOf(a, j)
    BY <1>7 DEF Merged
  <2>5. ASSUME NEW y PROVE y \in EvidenceOf(e, h) <=> \E j \in Merged(e, h) : y \in EvidenceOf(e, j)
    BY <2>1, <2>2, <2>3, <2>4 DEF Stands
  <2>. QED BY <2>5 DEF Stands
<1>. QED BY <1>10, <1>11

\* v is an entity that the resolver made for the package.
EntityHere(x, v) ==
  v \in OfTable(x, "engineering_entities") /\ x.rows[v].method = Resolver /\ Package(x, v) = x.package

\* Of the second pass: the mentions of these names are promoted.
Passed(doc, x, Old, ms, done) ==
  /\ Stage(doc, x, Old) /\ Member(doc, x) /\ Stored(x, Old, Len(ms))
  /\ \A j \in 1..Len(ms) : ms[j].name \in done => EntityHere(x, EntityOf(x, j))
  /\ \A j \in 1..Len(ms) : ms[j].name \notin done => EntityOf(x, j) = Null

\* Statements that only add leave what is promoted.
LEMMA PassedKept ==
  ASSUME NEW doc, NEW d, NEW Old, NEW S, NEW ms \in Seq(S), NEW done, Passed(doc, d, Old, ms, done), NEW e,
         Stage(doc, e, Old), Follows(d, e)
  PROVE  Passed(doc, e, Old, ms, done)
<1>1. /\ Grows(d, e) /\ e.found = d.found /\ e.package = d.package
      /\ e.new = d.new \/ \E i \in Ids : e.new = Append(d.new, i)
  BY DEF Follows, Steady
<1>2. Stored(d, Old, Len(ms)) /\ d.new \in Seq(Ids) /\ d.found \in Seq(EvidenceIds) /\ Len(ms) \in Nat
  BY DEF Passed, Stage, Lists
<1>3. /\ Stored(e, Old, Len(ms))
      /\ \A j \in 1..Len(ms) : e.new[j] = d.new[j] /\ EntityOf(e, j) = EntityOf(d, j)
  BY <1>1, <1>2, StoredKept
<1>4. \A v : EntityHere(d, v) => EntityHere(e, v)
  BY <1>1 DEF EntityHere, Grows, OfTable, Package
<1>5. Member(doc, e)
  <2>1. Stage(doc, d, Old) /\ Member(doc, d) /\ Steady(d, e)
    BY DEF Passed, Follows
  <2>. QED BY <2>1, MemberKept
<1>. QED BY <1>3, <1>4, <1>5 DEF Passed

\* M are the candidates of the group of a name, none promoted.
GroupIs(d, Old, ms, group, M, name) ==
  /\ group \in SUBSET (1..Len(ms))
  /\ M \in SUBSET OfTable(d, "engineering_entity_candidates") /\ M \cap Old = {}
  /\ \A m \in M : /\ d.rows[m].refs["canonical_entity_id"] = Null
                  /\ d.rows[m].method = Resolver /\ Package(d, m) = d.package
  /\ \A y : y \in Support(d, ms, group) <=> \E m \in M : y \in EvidenceOf(d, m)
  /\ \A j \in 1..Len(ms) : d.new[j] \in M <=> ms[j].name = name
  /\ Support(d, ms, group) \subseteq Range(d.found)

\* The candidates of the mentions with a name.
LEMMA GroupCandidates ==
  ASSUME NEW doc, NEW d, NEW Old, NEW S, NEW ms \in Seq(S), NEW done, Passed(doc, d, Old, ms, done),
         NEW name, name \notin done, NEW group, group = Group(ms, name), NEW M, M = {d.new[k] : k \in group}
  PROVE  GroupIs(d, Old, ms, group, M, name)
<1>1. group \in SUBSET (1..Len(ms)) /\ \A j \in 1..Len(ms) : j \in group <=> ms[j].name = name
  BY DEF Group
<1>2. \A j \in 1..Len(ms) : CandidateAt(d, Old, j)
  BY DEF Passed, Stored
<1>3. \A j \in 1..Len(ms) : \A k \in 1..Len(ms) : d.new[j] = d.new[k] => j = k
  BY DEF Passed, Stored
<1>4. \A k \in group : EntityOf(d, k) = Null
  BY <1>1 DEF Passed
<1>5. \A m \in M : \E k \in group : m = d.new[k]
  OBVIOUS
<1>6. M \in SUBSET OfTable(d, "engineering_entity_candidates") /\ M \cap Old = {}
  BY <1>1, <1>2, <1>5 DEF CandidateAt
<1>7. ASSUME NEW m \in M
      PROVE  /\ d.rows[m].refs["canonical_entity_id"] = Null
             /\ d.rows[m].method = Resolver /\ Package(d, m) = d.package
  <2>1. PICK k \in group : m = d.new[k]
    BY <1>5
  <2>. QED BY <1>1, <1>2, <1>4, <2>1 DEF CandidateAt, EntityOf
<1>8. ASSUME NEW y PROVE y \in Support(d, ms, group) <=> \E m \in M : y \in EvidenceOf(d, m)
  <2>1. y \in Support(d, ms, group) <=> \E k \in group : y = d.found[k]
    BY DEF Support
  <2>2. \A k \in group : EvidenceOf(d, d.new[k]) = {d.found[k]} /\ d.new[k] \in M
    BY <1>1, <1>2 DEF CandidateAt
  <2>3. \A k \in group : y \in EvidenceOf(d, d.new[k]) <=> y = d.found[k]
    BY <2>2
  <2>. QED BY <1>5, <2>1, <2>2, <2>3
<1>9. \A j \in 1..Len(ms) : d.new[j] \in M <=> ms[j].name = name
  BY <1>1, <1>3, <1>5
<1>10. Support(d, ms, group) \subseteq Range(d.found)
  <2>1. Len(d.found) = Len(ms) /\ d.found \in Seq(EvidenceIds)
    BY DEF Passed, Stored, Stage, Lists
  <2>. QED BY <1>1, <2>1 DEF Support, Range
<1>. QED BY <1>1, <1>6, <1>7, <1>8, <1>9, <1>10 DEF GroupIs

\* The merge of _promote_group.
LEMMA MergeStep ==
  ASSUME NEW doc, NEW a, NEW Old, NEW S, NEW ms \in Seq(S), NEW done, Passed(doc, a, Old, ms, done),
         NEW name, name \notin done, NEW group, group = Group(ms, name), NEW evs, evs = Support(a, ms, group),
         NEW b, Going(doc, b, Old), Lists(doc, b, Old), NEW i, EntityAdded(a, evs, i, b),
         NEW e, e = Merge(b, group)
  PROVE  Passed(doc, e, Old, ms, done \cup {name})
<1>. DEFINE M == {a.new[k] : k \in group}
<1>0. GroupIs(a, Old, ms, group, M, name)
  <2>1. PICK m : m = M
    OBVIOUS
  <2>2. GroupIs(a, Old, ms, group, m, name)
    BY <2>1, GroupCandidates
  <2>. QED BY <2>1, <2>2
<1>1. /\ group \in SUBSET (1..Len(ms))
      /\ M \in SUBSET OfTable(a, "engineering_entity_candidates") /\ M \cap Old = {}
      /\ \A m \in M : /\ a.rows[m].refs["canonical_entity_id"] = Null
                      /\ a.rows[m].method = Resolver /\ Package(a, m) = a.package
      /\ \A y : y \in evs <=> \E m \in M : y \in EvidenceOf(a, m)
      /\ \A j \in 1..Len(ms) : a.new[j] \in M <=> ms[j].name = name
  <2>. HIDE DEF M
  <2>. QED BY <1>0 DEF GroupIs
<1>2. PICK row : /\ Added(a, row, evs, i, b) /\ row.table = "engineering_entities" /\ row.method = Resolver
                 /\ row.refs["package_id"] = a.package
  BY DEF EntityAdded
<1>3. /\ Steady(a, b) /\ Grows(a, b) /\ b.new = Append(a.new, i) /\ b.found = a.found /\ b.id = i
      /\ i \in Live(b) /\ i \notin Live(a) /\ b.rows[i] = row /\ Live(b) = Live(a) \cup {i}
      /\ EvidenceOf(b, i) = evs
  BY <1>2, AddedIs
<1>4. Sound(b) /\ Shape(b) /\ Makers(b) /\ Grown(doc, b, Old) /\ b.ok /\ IsDb(b) /\ i \in Ids /\ b.package = a.package
  BY <1>3 DEF Going, Sound, Shape, Live, Steady
<1>5. a.new \in Seq(Ids) /\ a.found \in Seq(EvidenceIds) /\ Len(ms) \in Nat /\ Stored(a, Old, Len(ms))
      /\ Shape(a) /\ KeysOk(a) /\ Makers(a) /\ Sides(a) /\ Standing(a)
  BY DEF Passed, Stage, Lists, Going, Sound, Coherent
<1>6. /\ Stored(b, Old, Len(ms))
      /\ \A j \in 1..Len(ms) : b.new[j] = a.new[j] /\ EntityOf(b, j) = EntityOf(a, j)
  <2>1. /\ Stored(a, Old, Len(ms)) /\ a.new \in Seq(Ids) /\ a.found \in Seq(EvidenceIds) /\ Len(ms) \in Nat
        /\ Grows(a, b) /\ b.found = a.found /\ b.package = a.package
        /\ b.new = a.new \/ \E h \in Ids : b.new = Append(a.new, h)
    BY <1>3, <1>4, <1>5
  <2>. QED BY <2>1, StoredKept
<1>7. M = {b.new[k] : k \in group}
  BY <1>1, <1>6
<1>8. Relinks(b, e, M, i)
  <2>. HIDE DEF M
  <2>1. PICK r : r = [j \in Ids |-> IF j \in M THEN [b.rows[j] EXCEPT !.refs["canonical_entity_id"] = i]
                                   ELSE b.rows[j]]
    OBVIOUS
  <2>2. e = [b EXCEPT !.rows = r]
    BY <1>3, <1>4, <1>7, <2>1 DEF Merge
  <2>3. /\ IsDb(e) /\ e.rows = r /\ e.evidence = b.evidence /\ e.bindings = b.bindings /\ e.swept = b.swept
        /\ e.ok = b.ok /\ e.full = b.full /\ e.new = b.new /\ e.found = b.found
        /\ e.package = b.package /\ e.machine = b.machine /\ e.id = b.id
    BY <1>4, <2>2 DEF IsDb
  <2>. QED BY <2>1, <2>3 DEF Relinks
<1>. HIDE DEF M
<1>9. /\ M \in SUBSET OfTable(b, "engineering_entity_candidates")
      /\ \A m \in M : b.rows[m].method = Resolver /\ Package(b, m) = a.package
  BY <1>1, <1>3 DEF OfTable, Grows, Package
<1>10. i \in OfTable(b, "engineering_entities") /\ Made(b, i) /\ Package(b, i) = a.package
  BY <1>2, <1>3 DEF OfTable, Made, Package, Manual, Resolver
<1>11. Sound(e)
  <2>1. i \in Ids \cup {Null} /\ \A m \in M : b.rows[m].method = Resolver /\ Package(b, i) = Package(b, m)
    BY <1>4, <1>9, <1>10
  <2>. QED BY <1>4, <1>8, <1>9, <1>10, <2>1, RelinkSound
<1>12. Grown(doc, e, Old) /\ \A x : NewOnly(b, Old, x) => NewOnly(e, Old, x)
  BY <1>1, <1>4, <1>8, <1>9, GrownRelinked
<1>13. Sides(e)
  <2>1. Sides(b)
    <3>1. SUFFICES ASSUME NEW c \in OfTable(b, "engineering_conflicts"), b.rows[c].method = Resolver,
                          NEW s \in Range(b.rows[c].sides)
                   PROVE  /\ s \in Live(b) /\ b.rows[s].method = Resolver /\ Package(b, s) = Package(b, c)
                          /\ b.rows[s].table # "engineering_conflicts"
      BY DEF Sides
    <3>2. c \in OfTable(a, "engineering_conflicts") /\ b.rows[c] = a.rows[c]
      BY <1>2, <1>3 DEF OfTable, Grows
    <3>3. /\ s \in Live(a) /\ a.rows[s].method = Resolver /\ Package(a, s) = Package(a, c)
          /\ a.rows[s].table # "engineering_conflicts"
      BY <1>5, <3>1, <3>2 DEF Sides
    <3>. QED BY <1>3, <3>2, <3>3 DEF Grows, Package
  <2>. QED BY <1>4, <1>8, <1>9, <2>1, SidesRelinked
<1>14. Standing(e)
  <2>1. \A m \in M : a.rows[m].refs["canonical_entity_id"] = Null
    BY <1>1
  <2>2. \A y : y \in evs <=> \E m \in M : y \in EvidenceOf(a, m)
    BY <1>1
  <2>3. M \in SUBSET OfTable(a, "engineering_entity_candidates")
    BY <1>1
  <2>. QED BY <1>5, <1>8, <2>1, <2>2, <2>3, StandingMerged
<1>15. Alike(b, e, M, i)
  BY <1>4, <1>8, <1>9, RelinkAlike
<1>16. /\ Live(e) = Live(b) /\ \A t : OfTable(e, t) = OfTable(b, t)
       /\ \A j \in Ids : j \notin M => e.rows[j] = b.rows[j]
       /\ \A j \in M : e.rows[j].refs["canonical_entity_id"] = i
       /\ \A j : EvidenceOf(e, j) = EvidenceOf(b, j)
  BY <1>15 DEF Alike
<1>17. \A j \in Live(b) : e.rows[j].table = b.rows[j].table /\ e.rows[j].method = b.rows[j].method
  BY <1>15 DEF Alike, Relinked
<1>18. \A j \in Live(b) : b.rows[j].table \notin Unpackaged => Package(e, j) = Package(b, j)
  BY <1>15 DEF Alike
<1>19. e.package = a.package /\ e.machine = a.machine /\ e.new = b.new /\ e.found = b.found /\ e.ok
       /\ e.evidence = b.evidence
  BY <1>3, <1>4, <1>8 DEF Relinks, Steady
<1>20. Steady(a, e)
  <2>1. ASSUME NEW j \in Live(a), a.rows[j].table \in WorkerTables PROVE j \in Live(e) /\ e.rows[j] = a.rows[j]
    <3>1. j \in Live(b) /\ b.rows[j] = a.rows[j] /\ j \in Ids
      BY <1>3 DEF Grows, Live
    <3>2. j \notin M
      BY <1>1, <2>1 DEF OfTable, WorkerTables
    <3>. QED BY <1>16, <3>1, <3>2
  <2>2. ASSUME NEW j \in Live(e), e.rows[j].table = "machine_packages" PROVE j \in Live(a) /\ a.rows[j] = e.rows[j]
    <3>1. j \in Live(b) /\ b.rows[j].table = "machine_packages" /\ j \in Ids
      BY <1>16, <1>17, <2>2 DEF Live
    <3>2. j \in Live(a) /\ b.rows[j] = a.rows[j]
      BY <1>2, <1>3, <3>1 DEF Grows
    <3>3. j \notin M
      BY <1>9, <3>1 DEF OfTable
    <3>. QED BY <1>16, <3>1, <3>2, <3>3
  <2>. QED BY <1>19, <2>1, <2>2 DEF Steady
<1>21. For(doc, e, e.package) /\ Only(doc, e) /\ Machined(e)
  <2>1. For(doc, a, a.package) /\ Only(doc, a) /\ Machined(a)
    BY DEF Passed, Stage
  <2>. QED BY <1>20, <2>1, SteadyKeeps
<1>22. Lists(doc, e, Old)
  BY <1>12, <1>19 DEF Lists
<1>23. Stage(doc, e, Old)
  BY <1>11, <1>12, <1>13, <1>14, <1>19, <1>21, <1>22 DEF Stage, Going, Coherent
<1>24. ASSUME NEW j \in 1..Len(ms)
       PROVE  CandidateAt(e, Old, j) /\ e.new[j] = a.new[j] /\ (e.new[j] \in M <=> ms[j].name = name)
              /\ e.new[j] \in Ids
  <2>1. CandidateAt(b, Old, j) /\ b.new[j] = a.new[j]
    BY <1>6 DEF Stored
  <2>2. b.new[j] \in Live(b) /\ b.rows[b.new[j]].table = "engineering_entity_candidates" /\ b.new[j] \in Ids
    BY <2>1 DEF CandidateAt, OfTable, Live
  <2>3. "engineering_entity_candidates" \notin Unpackaged
    BY DEF Unpackaged
  <2>4. Package(e, b.new[j]) = Package(b, b.new[j]) /\ e.rows[b.new[j]].method = b.rows[b.new[j]].method
    BY <1>17, <1>18, <2>2, <2>3
  <2>5. e.package = b.package
    BY <1>4, <1>19
  <2>. QED BY <1>1, <1>16, <1>19, <2>1, <2>2, <2>4, <2>5 DEF CandidateAt
<1>25. Stored(e, Old, Len(ms))
  BY <1>6, <1>19, <1>24 DEF Stored
<1>26. ASSUME NEW j \in 1..Len(ms), ms[j].name \in done \cup {name} PROVE EntityHere(e, EntityOf(e, j))
  <2>1. CASE ms[j].name = name
    <3>1. EntityOf(e, j) = i
      BY <1>16, <1>24, <2>1 DEF EntityOf
    <3>2. Package(e, i) = Package(b, i) /\ e.rows[i].method = b.rows[i].method /\ i \in OfTable(e, "engineering_entities")
      BY <1>2, <1>3, <1>10, <1>16, <1>17, <1>18 DEF Unpackaged
    <3>. QED BY <1>2, <1>3, <1>10, <1>19, <3>1, <3>2 DEF EntityHere
  <2>2. CASE ms[j].name # name
    <3>1. EntityOf(e, j) = EntityOf(a, j)
      BY <1>6, <1>16, <1>19, <1>24, <2>2 DEF EntityOf
    <3>2. EntityHere(a, EntityOf(a, j))
      BY <1>26, <2>2 DEF Passed
    <3>. DEFINE v == EntityOf(a, j)
    <3>3. v \in Live(a) /\ a.rows[v].table = "engineering_entities" /\ a.rows[v].method = Resolver
          /\ Package(a, v) = a.package
      BY <3>2 DEF EntityHere, OfTable
    <3>. HIDE DEF v
    <3>4. v \in Live(b) /\ b.rows[v] = a.rows[v] /\ v \in Ids
      BY <1>3, <3>3 DEF Grows, Live
    <3>5. v \notin M
      BY <1>1, <3>3 DEF OfTable
    <3>6. e.rows[v] = a.rows[v] /\ v \in Live(e)
      BY <1>16, <3>4, <3>5
    <3>7. EntityHere(e, v)
      BY <1>19, <3>3, <3>6 DEF EntityHere, OfTable, Package
    <3>. QED BY <3>1, <3>7 DEF v
  <2>. QED BY <2>1, <2>2
<1>27. ASSUME NEW j \in 1..Len(ms), ms[j].name \notin done \cup {name} PROVE EntityOf(e, j) = Null
  <2>1. EntityOf(e, j) = EntityOf(a, j)
    BY <1>6, <1>16, <1>19, <1>24, <1>27 DEF EntityOf
  <2>. QED BY <1>27, <2>1 DEF Passed
<1>28. Member(doc, e)
  <2>1. Stage(doc, a, Old) /\ Member(doc, a)
    BY DEF Passed
  <2>. QED BY <1>20, <2>1, MemberKept
<1>. QED BY <1>23, <1>25, <1>26, <1>27, <1>28 DEF Passed

\* A failed statement fails the rest of a promotion.
LEMMA BrokenPromote ==
  ASSUME NEW d, Broken(d), NEW ms, NEW group
  PROVE  Broken(Promote(d, ms, group))
<1>1. PICK a : a = ensure_assembly(d, ms[Primary(ms, group)].zone)
  OBVIOUS
<1>2. Broken(a)
  <2>1. PICK c : c = [d EXCEPT !.id = Null]
    OBVIOUS
  <2>2. Broken(c)
    BY <2>1 DEF Broken, IsDb
  <2>3. a = c \/ a = d
    BY <1>1, <2>1 DEF ensure_assembly, Ensured, Broken
  <2>. QED BY <2>2, <2>3
<1>3. AddEntity(a, ms, group) = a
  BY <1>2 DEF AddEntity, insert, Broken
<1>4. Merge(a, group) = a
  BY <1>2 DEF Merge, Broken
<1>. QED BY <1>1, <1>2, <1>3, <1>4 DEF Promote

\* _promote_group.
LEMMA PromoteStep ==
  ASSUME NEW doc \in Docs, NEW d, NEW Old, NEW ms \in Seq(Mentions), NEW done, Passed(doc, d, Old, ms, done),
         NEW name \in Names(ms), name \notin done, NEW e, e = Promote(d, ms, Group(ms, name))
  PROVE  Broken(e) \/ Passed(doc, e, Old, ms, done \cup {name})
<1>1. PICK group : group = Group(ms, name)
  OBVIOUS
<1>2. PICK code : code = ms[Primary(ms, group)].zone
  OBVIOUS
<1>3. PICK a : a = ensure_assembly(d, code)
  OBVIOUS
<1>4. PICK evs : evs = Support(a, ms, group)
  OBVIOUS
<1>5. PICK b : b = insert(a, ResolverRow("engineering_entities",
                         [package_id |-> a.package, machine_id |-> a.machine, assembly_id |-> a.id]), evs)
  OBVIOUS
<1>6. b = AddEntity(a, ms, group)
  BY <1>4, <1>5 DEF AddEntity
<1>7. e = Merge(b, group)
  BY <1>1, <1>2, <1>3, <1>6 DEF Promote
<1>8. group \in SUBSET (1..Len(ms)) /\ group # {}
  BY <1>1 DEF Group, Names
<1>9. code \in Codes
  <2>1. Primary(ms, group) \in group
    <3>1. group \in SUBSET Nat
      BY <1>8
    <3>. QED BY <1>8, <3>1, PrimaryIs
  <2>2. ms[Primary(ms, group)] \in Mentions
    <3>1. PICK k : k = Primary(ms, group)
      OBVIOUS
    <3>2. k \in 1..Len(ms)
      BY <1>8, <2>1, <3>1
    <3>3. ms[k] \in Mentions
      BY <3>2
    <3>. QED BY <3>1, <3>3
  <2>. QED BY <1>2, <2>2, ZonesAre
<1>10. Stage(doc, d, Old)
  BY DEF Passed
<1>11. Broken(a) \/ (Stage(doc, a, Old) /\ Follows(d, a) /\ AssemblyHere(a))
  BY <1>3, <1>9, <1>10, AssemblyStep
<1>12. CASE Broken(a)
  <2>1. b = a
    BY <1>5, <1>12 DEF insert, Broken
  <2>2. e = a
    BY <1>7, <1>12, <2>1 DEF Merge, Broken
  <2>. QED BY <1>12, <2>2
<1>13. CASE Stage(doc, a, Old) /\ Follows(d, a) /\ AssemblyHere(a)
  <2>1. Passed(doc, a, Old, ms, done)
    BY <1>13, PassedKept
  <2>2. evs \subseteq Range(a.found)
    <3>1. PICK M : M = {a.new[k] : k \in group}
      OBVIOUS
    <3>2. GroupIs(a, Old, ms, group, M, name)
      BY <1>1, <2>1, <3>1, GroupCandidates
    <3>. QED BY <1>4, <3>2 DEF GroupIs
  <2>3. evs # {}
    BY <1>4, <1>8 DEF Support
  <2>4. Broken(b) \/ (Going(doc, b, Old) /\ Lists(doc, b, Old) /\ \E i : EntityAdded(a, evs, i, b))
    BY <1>5, <1>13, <2>2, <2>3, EntityStep
  <2>5. CASE Broken(b)
    <3>1. e = b
      BY <1>7, <2>5 DEF Merge, Broken
    <3>. QED BY <2>5, <3>1
  <2>6. ASSUME Going(doc, b, Old), Lists(doc, b, Old), NEW i, EntityAdded(a, evs, i, b)
        PROVE  Passed(doc, e, Old, ms, done \cup {name})
    BY <1>1, <1>4, <1>7, <2>1, <2>6, MergeStep
  <2>. QED BY <2>4, <2>5, <2>6
<1>. QED BY <1>11, <1>12, <1>13

PromoteOp(ms, x, n) == Promote(x, ms, Group(ms, n))

Promotes == INSTANCE PrefixFold WITH Op <- PromoteOp

\* g lists the databases from b on, name by name.
PromotesOf(ms, s, b, g) ==
  /\ g[0] = b /\ \A k \in 1..Len(s) : g[k] = PromoteOp(ms, g[k-1], s[k])
  /\ Promotes!Folded(ms, s, b) = g[Len(s)]

\* The intermediate results of that fold.
LEMMA PromotesByPrefix ==
  ASSUME NEW ms, NEW S, NEW s \in Seq(S), NEW b
  PROVE  \E g : PromotesOf(ms, s, b, g)
BY Promotes!ByPrefix DEF PromotesOf

\* There are finitely many names.
LEMMA NamesFinite ==
  ASSUME NEW S, NEW ms \in Seq(S)
  PROVE  IsFiniteSet(Names(ms))
<1>1. Len(ms) \in Nat /\ DOMAIN ms = 1..Len(ms) /\ IsFiniteSet(1..Len(ms))
  BY FS_Interval
<1>. DEFINE f == [k \in 1..Len(ms) |-> ms[k].name]
<1>2. f \in Surjection(1..Len(ms), Names(ms))
  <2>1. f \in [1..Len(ms) -> Names(ms)]
    BY <1>1 DEF Names
  <2>2. \A n \in Names(ms) : \E k \in 1..Len(ms) : f[k] = n
    BY <1>1 DEF Names
  <2>. QED BY <2>1, <2>2 DEF Surjection
<1>. QED BY <1>1, <1>2, FS_Surjection

\* The second pass promotes every mention.
LEMMA PromoteAllStep ==
  ASSUME NEW doc \in Docs, NEW d, NEW Old, NEW ms \in Seq(Mentions), Broken(d) \/ Listed(doc, d, Old, Len(ms)),
         NEW e, e = PromoteAll(d, ms)
  PROVE  Broken(e) \/ Passed(doc, e, Old, ms, Names(ms))
<1>1. PICK s : s = SetToSeq(Names(ms))
  OBVIOUS
<1>2. Enumerates(Names(ms), s)
  BY <1>1, NamesFinite, SetIsListed
<1>3. s \in Seq(Names(ms)) /\ Len(s) \in Nat
  BY <1>2 DEF Enumerates
<1>4. e = Promotes!Folded(ms, s, d)
  BY <1>1 DEF PromoteAll, FoldLeft, MapThenFoldSet, Max, Promotes!Folded, Promotes!Largest, PromoteOp
<1>5. PICK g : PromotesOf(ms, s, d, g)
  BY <1>3, PromotesByPrefix
<1>6. g[0] = d /\ e = g[Len(s)]
  BY <1>4, <1>5 DEF PromotesOf
<1>7. \A k \in 1..Len(s) : g[k] = Promote(g[k-1], ms, Group(ms, s[k]))
  BY <1>5 DEF PromotesOf, PromoteOp
<1>. DEFINE Done(k) == {s[j] : j \in 1..k}
            Good == {k \in 0..Len(s) : Broken(g[k]) \/ Passed(doc, g[k], Old, ms, Done(k))}
<1>8. 0 \in Good
  <2>1. Broken(d) \/ Passed(doc, d, Old, ms, {})
    BY DEF Listed, Passed
  <2>2. Done(0) = {}
    OBVIOUS
  <2>. HIDE DEF Done
  <2>3. Broken(g[0]) \/ Passed(doc, g[0], Old, ms, Done(0))
    BY <1>6, <2>1, <2>2
  <2>. QED BY <1>3, <2>3
<1>9. ASSUME NEW k \in Good, k < Len(s) PROVE k + 1 \in Good
  <2>1. k + 1 \in 1..Len(s) /\ k + 1 \in 0..Len(s) /\ (k + 1) - 1 = k /\ k \in Nat
    BY <1>3, <1>9
  <2>2. g[k+1] = Promote(g[k], ms, Group(ms, s[k+1]))
    BY <1>7, <2>1
  <2>3. CASE Broken(g[k])
    <3>1. Broken(g[k+1])
      BY <2>2, <2>3, BrokenPromote
    <3>. QED BY <2>1, <3>1
  <2>4. CASE Passed(doc, g[k], Old, ms, Done(k))
    <3>1. s[k+1] \in Names(ms)
      BY <1>3, <2>1
    <3>2. s[k+1] \notin Done(k)
      <4>1. \A j \in 1..k : j \in 1..Len(s) /\ j # k + 1
        BY <1>3, <2>1
      <4>. QED BY <1>2, <2>1, <4>1 DEF Enumerates
    <3>3. Done(k+1) = Done(k) \cup {s[k+1]}
      <4>1. \A j : j \in 1..(k+1) <=> j \in 1..k \/ j = k + 1
        BY <2>1
      <4>. QED BY <4>1
    <3>4. PICK name, done : name = s[k+1] /\ done = Done(k)
      OBVIOUS
    <3>. HIDE DEF Done
    <3>5. Broken(g[k+1]) \/ Passed(doc, g[k+1], Old, ms, done \cup {name})
      BY <2>2, <2>4, <3>1, <3>2, <3>4, PromoteStep
    <3>. QED BY <2>1, <3>3, <3>4, <3>5
  <2>. QED BY <1>9, <2>3, <2>4
<1>10. Len(s) \in Good
  <2>. HIDE DEF Good
  <2>. QED BY <1>3, <1>8, <1>9, UpTo
<1>11. Done(Len(s)) = Names(ms)
  BY <1>2, <1>3 DEF Enumerates
<1>. QED BY <1>6, <1>10, <1>11

----------------------------------------------------------------------------
(* The third pass: conflicts. *)

\* What a conflict may name.
SideHere(x, s) ==
  /\ s \in Live(x) /\ x.rows[s].method = Resolver /\ Package(x, s) = x.package
  /\ x.rows[s].table # "engineering_conflicts"

\* AddConflict.
LEMMA ConflictStep ==
  ASSUME NEW doc \in Docs, NEW d, NEW Old, Stage(doc, d, Old), NEW l, NEW r, SideHere(d, l), SideHere(d, r),
         NEW evs, evs \subseteq Range(d.found), evs # {}, NEW e, e = AddConflict(d, l, r, evs)
  PROVE  Broken(e) \/ (Stage(doc, e, Old) /\ Follows(d, e))
<1>1. PICK q : q = ResolverRow("engineering_conflicts", [package_id |-> d.package])
  OBVIOUS
<1>2. PICK row : row = [q EXCEPT !.sides = <<l, r>>]
  OBVIOUS
<1>3. e = insert(d, row, evs)
  BY <1>1, <1>2 DEF AddConflict
<1>4. d.package \in Ids
  BY DEF Stage, For, OfTable, Live
<1>5. "engineering_conflicts" \in EngineeringTables /\ "engineering_conflicts" \notin Unpackaged
      /\ "package_id" \in Columns("engineering_conflicts")
  BY MadeColumns DEF ResolverTables, Unpackaged
<1>. DEFINE refs == [package_id |-> d.package]
<1>6. /\ DOMAIN refs = {"package_id"} /\ refs["package_id"] = d.package
      /\ Blank(q, "engineering_conflicts", refs) /\ q.method = Resolver
  BY <1>1, <1>4, <1>5, OfPackage
<1>. HIDE DEF refs
<1>7. IsFields(q) /\ q.doc = Null /\ q.code = Null /\ q.raced = FALSE /\ q.table = "engineering_conflicts"
  BY <1>6 DEF Blank
<1>8. /\ IsFields(row) /\ row.table = q.table /\ row.refs = q.refs /\ row.doc = q.doc /\ row.method = q.method
      /\ row.sides = <<l, r>> /\ row.code = q.code /\ row.raced = q.raced
  BY <1>2, <1>7 DEF IsFields
<1>9. /\ q.method \in {Manual, Worker, Resolver} /\ row.raced \in BOOLEAN /\ row.code \in Codes
      /\ row.doc \in Docs \cup {Null}
  BY <1>6, <1>7, <1>8, CodesAre
<1>10. row.sides \in Seq(Ids) /\ Range(row.sides) = {l, r}
  <2>1. l \in Ids /\ r \in Ids
    BY DEF SideHere, Live
  <2>2. <<l, r>> \in Seq(Ids) /\ Range(<<l, r>>) = {l, r}
    BY <2>1 DEF Range
  <2>. QED BY <1>8, <2>2
<1>11. /\ IsRow(row) /\ row.table = "engineering_conflicts"
       /\ \A c \in Columns("engineering_conflicts") : row.refs[c] = IF c \in DOMAIN refs THEN refs[c] ELSE Null
  <2>1. /\ "engineering_conflicts" \in EngineeringTables /\ Blank(q, "engineering_conflicts", refs)
        /\ q.method \in {Manual, Worker, Resolver} /\ IsFields(row) /\ row.table = q.table /\ row.refs = q.refs
        /\ row.method = q.method /\ row.doc \in Docs \cup {Null} /\ row.sides \in Seq(Ids) /\ row.code \in Codes
        /\ row.raced \in BOOLEAN
    BY <1>5, <1>6, <1>8, <1>9, <1>10
  <2>. QED BY <2>1, FilledIs
<1>12. row.refs["package_id"] = d.package
  BY <1>5, <1>6, <1>11
<1>13. MadeRefs(d, row, d.package)
  BY <1>11, <1>12 DEF MadeRefs
<1>14. MadeBy(row) /\ row.method = Resolver
  BY <1>6, <1>7, <1>8 DEF MadeBy, Manual, Worker, Resolver, ResolverTables
<1>15. Grounds(row.table) /\ ~row.raced
  BY <1>7, <1>8, GroundsIs
<1>16. May(doc, d, row, evs, d.package)
  BY <1>11, <1>13, <1>14, <1>15 DEF May, ResolverTables, Manual, Resolver
<1>17. \A s \in Range(row.sides) : /\ s \in Live(d) /\ d.rows[s].method = Resolver
                                   /\ Package(d, s) = row.refs["package_id"]
                                   /\ d.rows[s].table # "engineering_conflicts"
  BY <1>10, <1>12 DEF SideHere
<1>18. \/ Broken(e)
       \/ Stage(doc, e, Old) /\ Steady(d, e) /\ \E i : Added(d, row, evs, i, e)
  <2>1. row.table # "engineering_entities"
    BY <1>11
  <2>. QED BY <1>3, <1>16, <1>17, <2>1, StageInsert
<1>19. ASSUME Stage(doc, e, Old), Steady(d, e), NEW i, Added(d, row, evs, i, e) PROVE Follows(d, e)
  <2>1. /\ Grows(d, e) /\ e.new = Append(d.new, i) /\ e.found = d.found /\ i \in Live(e)
    BY <1>11, <1>19, AddedIs
  <2>. QED BY <1>19, <2>1 DEF Follows, Live
<1>. QED BY <1>18, <1>19

\* Of the third pass: nothing that d had is lost.
Concludes(doc, d, x, Old) ==
  Stage(doc, x, Old) /\ Member(doc, x) /\ Grows(d, x) /\ x.found = d.found /\ x.package = d.package

\* g adds conflicts between rows of d.
AddsConflicts(d, n, g, l, r, ev) ==
  \A k \in 1..n : /\ SideHere(d, l[k]) /\ SideHere(d, r[k]) /\ ev[k] \subseteq Range(d.found) /\ ev[k] # {}
                  /\ g[k] = AddConflict(g[k-1], l[k], r[k], ev[k])

\* Conflicts between rows of d, one after the other.
LEMMA ConflictsAdded ==
  ASSUME NEW doc \in Docs, NEW d, NEW Old, NEW n \in Nat, NEW g, Broken(g[0]) \/ Concludes(doc, d, g[0], Old),
         NEW l, NEW r, NEW ev, AddsConflicts(d, n, g, l, r, ev)
  PROVE  Broken(g[n]) \/ Concludes(doc, d, g[n], Old)
<1>. DEFINE Good == {k \in 0..n : Broken(g[k]) \/ Concludes(doc, d, g[k], Old)}
<1>1. 0 \in Good
  OBVIOUS
<1>2. ASSUME NEW k \in Good, k < n PROVE k + 1 \in Good
  <2>1. k + 1 \in 1..n /\ k + 1 \in 0..n /\ (k + 1) - 1 = k
    BY <1>2
  <2>2. PICK x, y, m : x = g[k] /\ y = g[k+1] /\ m = k + 1
    OBVIOUS
  <2>3. y = AddConflict(x, l[m], r[m], ev[m]) /\ SideHere(d, l[m]) /\ SideHere(d, r[m])
        /\ ev[m] \subseteq Range(d.found) /\ ev[m] # {}
    BY <2>1, <2>2 DEF AddsConflicts
  <2>4. CASE Broken(x)
    <3>1. y = x
      BY <2>3, <2>4 DEF AddConflict, insert, Broken
    <3>. QED BY <2>1, <2>2, <2>4, <3>1
  <2>5. CASE Concludes(doc, d, x, Old)
    <3>1. Stage(doc, x, Old) /\ Member(doc, x) /\ Grows(d, x) /\ x.found = d.found /\ x.package = d.package
      BY <2>5 DEF Concludes
    <3>2. SideHere(x, l[m]) /\ SideHere(x, r[m])
      BY <2>3, <3>1 DEF SideHere, Grows, Package
    <3>3. ev[m] \subseteq Range(x.found)
      BY <2>3, <3>1
    <3>4. Broken(y) \/ (Stage(doc, y, Old) /\ Follows(x, y))
      BY <2>3, <3>1, <3>2, <3>3, ConflictStep
    <3>5. ASSUME Stage(doc, y, Old), Follows(x, y) PROVE Concludes(doc, d, y, Old)
      <4>1. Grows(x, y) /\ y.found = x.found /\ y.package = x.package
        BY <3>5 DEF Follows, Steady
      <4>2. Grows(d, y)
        BY <3>1, <4>1 DEF Grows
      <4>3. Member(doc, y)
        <5>1. Steady(x, y)
          BY <3>5 DEF Follows
        <5>. QED BY <3>1, <5>1, MemberKept
      <4>. QED BY <3>1, <3>5, <4>1, <4>2, <4>3 DEF Concludes
    <3>. QED BY <2>1, <2>2, <3>4, <3>5
  <2>. QED BY <1>2, <2>2, <2>4, <2>5
<1>3. n \in Good
  <2>. HIDE DEF Good
  <2>. QED BY <1>1, <1>2, UpTo
<1>. QED BY <1>3

\* The first mention of a name is one of them.
LEMMA FirstIs ==
  ASSUME NEW S, NEW ms \in Seq(S), NEW n \in Names(ms)
  PROVE  Min(Group(ms, n)) \in 1..Len(ms)
<1>1. Group(ms, n) \in SUBSET Nat /\ Group(ms, n) # {} /\ Group(ms, n) \subseteq 1..Len(ms)
  BY DEF Group, Names
<1>. QED BY <1>1, MinIsIn

\* Conflicts are between mentions.
LEMMA PairsAre ==
  ASSUME NEW S, NEW ms \in Seq(S)
  PROVE  /\ SharedComments(ms) \subseteq (1..Len(ms)) \X (1..Len(ms)) /\ IsFiniteSet(SharedComments(ms))
         /\ Revisions(ms) \subseteq (1..Len(ms)) \X (1..Len(ms)) /\ IsFiniteSet(Revisions(ms))
<1>1. ASSUME NEW jk \in SharedComments(ms) PROVE jk \in (1..Len(ms)) \X (1..Len(ms))
  <2>. DEFINE first(n) == Min(Group(ms, n))
              sharing(n) == {o \in Names(ms) : CommentOf(ms, o) = CommentOf(ms, n)}
              firsts(n) == {first(o) : o \in sharing(n)}
  <2>1. PICK n \in Names(ms) : jk = <<Min(firsts(n)), first(n)>>
    BY DEF SharedComments
  <2>2. \A o \in Names(ms) : first(o) \in 1..Len(ms)
    BY FirstIs
  <2>. HIDE DEF first
  <2>3. firsts(n) \subseteq 1..Len(ms) /\ first(n) \in firsts(n)
    BY <2>2
  <2>. HIDE DEF firsts
  <2>4. Min(firsts(n)) \in firsts(n)
    <3>1. firsts(n) \in SUBSET Nat /\ firsts(n) # {}
      BY <2>3
    <3>. QED BY <3>1, MinIsIn
  <2>. QED BY <2>1, <2>2, <2>3, <2>4
<1>2. ASSUME NEW jk \in Revisions(ms) PROVE jk \in (1..Len(ms)) \X (1..Len(ms))
  <2>. DEFINE having(n, role) == {k \in Group(ms, n) : ms[k].role = role}
  <2>1. PICK n \in Names(ms) :
          /\ having(n, "current") # {} /\ having(n, "superseded") # {}
          /\ jk = <<Min(having(n, "current")), Min(having(n, "superseded"))>>
    BY DEF Revisions
  <2>2. \A role : having(n, role) \subseteq 1..Len(ms)
    BY DEF Group
  <2>3. PICK a, b : a = having(n, "current") /\ b = having(n, "superseded")
    OBVIOUS
  <2>4. a \subseteq 1..Len(ms) /\ b \subseteq 1..Len(ms) /\ a # {} /\ b # {} /\ jk = <<Min(a), Min(b)>>
    BY <2>1, <2>2, <2>3
  <2>. HIDE DEF having
  <2>5. a \in SUBSET Nat /\ b \in SUBSET Nat
    BY <2>4
  <2>6. Min(a) \in a /\ Min(b) \in b
    BY <2>4, <2>5, MinIsIn
  <2>. QED BY <2>4, <2>6
<1>3. IsFiniteSet((1..Len(ms)) \X (1..Len(ms)))
  <2>1. Len(ms) \in Int /\ 1 \in Int
    OBVIOUS
  <2>2. IsFiniteSet(1..Len(ms))
    BY <2>1, FS_Interval
  <2>. QED BY <2>2, FS_Product
<1>. QED BY <1>1, <1>2, <1>3, FS_Subset

SharedOp(d, x, jk) ==
  AddConflict(x, EntityOf(d, jk[1]), EntityOf(d, jk[2]), {d.found[jk[1]], d.found[jk[2]]})
RevisionOp(d, x, jk) == AddConflict(x, d.new[jk[1]], d.new[jk[2]], {d.found[jk[1]], d.found[jk[2]]})

Shares == INSTANCE PrefixFold WITH Op <- SharedOp
Revises == INSTANCE PrefixFold WITH Op <- RevisionOp

\* g lists the databases from b on, pair by pair.
SharesOf(d, s, b, g) ==
  /\ g[0] = b /\ \A k \in 1..Len(s) : g[k] = SharedOp(d, g[k-1], s[k])
  /\ Shares!Folded(d, s, b) = g[Len(s)]
RevisesOf(d, s, b, g) ==
  /\ g[0] = b /\ \A k \in 1..Len(s) : g[k] = RevisionOp(d, g[k-1], s[k])
  /\ Revises!Folded(d, s, b) = g[Len(s)]

\* The intermediate results of those folds.
LEMMA ConflictsByPrefix ==
  ASSUME NEW d, NEW S, NEW s \in Seq(S), NEW b
  PROVE  (\E g : SharesOf(d, s, b, g)) /\ (\E g : RevisesOf(d, s, b, g))
<1>1. \E g : SharesOf(d, s, b, g)
  BY Shares!ByPrefix DEF SharesOf
<1>2. \E g : RevisesOf(d, s, b, g)
  BY Revises!ByPrefix DEF RevisesOf
<1>. QED BY <1>1, <1>2

\* The two folds of _record_identity_conflicts.
LEMMA ConflictsIs ==
  ASSUME NEW d, NEW ms
  PROVE  RecordConflicts(d, ms) =
           Revises!Folded(d, SetToSeq(Revisions(ms)), Shares!Folded(d, SetToSeq(SharedComments(ms)), d))
<1>1. \A a, s : FoldLeft(LAMBDA x, jk :
                  AddConflict(x, EntityOf(d, jk[1]), EntityOf(d, jk[2]), {d.found[jk[1]], d.found[jk[2]]}), a, s)
                = Shares!Folded(d, s, a)
  BY DEF FoldLeft, MapThenFoldSet, Max, Shares!Folded, Shares!Largest, SharedOp
<1>2. \A a, s : FoldLeft(LAMBDA x, jk :
                  AddConflict(x, d.new[jk[1]], d.new[jk[2]], {d.found[jk[1]], d.found[jk[2]]}), a, s)
                = Revises!Folded(d, s, a)
  BY DEF FoldLeft, MapThenFoldSet, Max, Revises!Folded, Revises!Largest, RevisionOp
<1>. QED BY <1>1, <1>2 DEF RecordConflicts

\* The third pass records every conflict.
LEMMA ConflictsStep ==
  ASSUME NEW doc \in Docs, NEW d, NEW Old, NEW S, NEW ms \in Seq(S), Passed(doc, d, Old, ms, Names(ms)),
         NEW e, e = RecordConflicts(d, ms)
  PROVE  Broken(e) \/ Concludes(doc, d, e, Old)
<1>1. PICK s, t : s = SetToSeq(SharedComments(ms)) /\ t = SetToSeq(Revisions(ms))
  OBVIOUS
<1>. DEFINE P == (1..Len(ms)) \X (1..Len(ms))
<1>2. SharedComments(ms) \subseteq P /\ Revisions(ms) \subseteq P
      /\ IsFiniteSet(SharedComments(ms)) /\ IsFiniteSet(Revisions(ms))
  BY PairsAre
<1>3. Enumerates(SharedComments(ms), s) /\ Enumerates(Revisions(ms), t)
  BY <1>1, <1>2, SetIsListed
<1>4. s \in Seq(SharedComments(ms)) /\ t \in Seq(Revisions(ms))
  BY <1>3 DEF Enumerates
<1>5. PICK b : b = Shares!Folded(d, s, d)
  OBVIOUS
<1>6. e = Revises!Folded(d, t, b)
  BY <1>1, <1>5, ConflictsIs
<1>7. PICK g : SharesOf(d, s, d, g)
  BY <1>4, ConflictsByPrefix
<1>8. PICK h : RevisesOf(d, t, b, h)
  BY <1>4, ConflictsByPrefix
<1>9. /\ g[0] = d /\ b = g[Len(s)] /\ Len(s) \in Nat
      /\ \A k \in 1..Len(s) : g[k] = SharedOp(d, g[k-1], s[k])
  BY <1>4, <1>5, <1>7 DEF SharesOf
<1>10. /\ h[0] = b /\ e = h[Len(t)] /\ Len(t) \in Nat
       /\ \A k \in 1..Len(t) : h[k] = RevisionOp(d, h[k-1], t[k])
  BY <1>4, <1>6, <1>8 DEF RevisesOf
<1>11. Concludes(doc, d, d, Old)
  BY DEF Concludes, Passed, Grows
<1>12. ASSUME NEW j \in 1..Len(ms)
       PROVE  SideHere(d, EntityOf(d, j)) /\ SideHere(d, d.new[j]) /\ d.found[j] \in Range(d.found)
  <2>1. ms[j].name \in Names(ms)
    BY DEF Names
  <2>2. EntityHere(d, EntityOf(d, j)) /\ CandidateAt(d, Old, j)
    BY <2>1 DEF Passed, Stored
  <2>3. d.found \in Seq(EvidenceIds) /\ Len(d.found) = Len(ms)
    BY DEF Passed, Stage, Lists, Stored
  <2>4. SideHere(d, EntityOf(d, j))
    BY <2>2 DEF EntityHere, SideHere, OfTable
  <2>5. SideHere(d, d.new[j])
    BY <2>2 DEF CandidateAt, SideHere, OfTable
  <2>6. d.found[j] \in Range(d.found)
    BY <2>3 DEF Range
  <2>. QED BY <2>4, <2>5, <2>6
<1>13. Broken(b) \/ Concludes(doc, d, b, Old)
  <2>. DEFINE l == [k \in 1..Len(s) |-> EntityOf(d, s[k][1])]
              r == [k \in 1..Len(s) |-> EntityOf(d, s[k][2])]
              ev == [k \in 1..Len(s) |-> {d.found[s[k][1]], d.found[s[k][2]]}]
  <2>1. ASSUME NEW k \in 1..Len(s)
        PROVE  /\ SideHere(d, l[k]) /\ SideHere(d, r[k]) /\ ev[k] \subseteq Range(d.found) /\ ev[k] # {}
               /\ g[k] = AddConflict(g[k-1], l[k], r[k], ev[k])
    <3>1. s[k] \in P
      BY <1>2, <1>4
    <3>2. s[k][1] \in 1..Len(ms) /\ s[k][2] \in 1..Len(ms)
      BY <3>1
    <3>3. SideHere(d, EntityOf(d, s[k][1])) /\ SideHere(d, EntityOf(d, s[k][2]))
          /\ d.found[s[k][1]] \in Range(d.found) /\ d.found[s[k][2]] \in Range(d.found)
      BY <1>12, <3>2
    <3>4. g[k] = AddConflict(g[k-1], EntityOf(d, s[k][1]), EntityOf(d, s[k][2]), {d.found[s[k][1]], d.found[s[k][2]]})
      BY <1>9 DEF SharedOp
    <3>. QED BY <3>3, <3>4
  <2>. HIDE DEF l, r, ev
  <2>2. Broken(g[0]) \/ Concludes(doc, d, g[0], Old)
    BY <1>9, <1>11
  <2>4. Len(s) \in Nat
    BY <1>9
  <2>5. AddsConflicts(d, Len(s), g, l, r, ev)
    BY <2>1 DEF AddsConflicts
  <2>3. Broken(g[Len(s)]) \/ Concludes(doc, d, g[Len(s)], Old)
    BY <2>2, <2>4, <2>5, ConflictsAdded
  <2>. QED BY <1>9, <2>3
<1>14. Broken(e) \/ Concludes(doc, d, e, Old)
  <2>. DEFINE l == [k \in 1..Len(t) |-> d.new[t[k][1]]]
              r == [k \in 1..Len(t) |-> d.new[t[k][2]]]
              ev == [k \in 1..Len(t) |-> {d.found[t[k][1]], d.found[t[k][2]]}]
  <2>1. ASSUME NEW k \in 1..Len(t)
        PROVE  /\ SideHere(d, l[k]) /\ SideHere(d, r[k]) /\ ev[k] \subseteq Range(d.found) /\ ev[k] # {}
               /\ h[k] = AddConflict(h[k-1], l[k], r[k], ev[k])
    <3>1. t[k] \in P
      BY <1>2, <1>4
    <3>2. t[k][1] \in 1..Len(ms) /\ t[k][2] \in 1..Len(ms)
      BY <3>1
    <3>3. SideHere(d, d.new[t[k][1]]) /\ SideHere(d, d.new[t[k][2]])
          /\ d.found[t[k][1]] \in Range(d.found) /\ d.found[t[k][2]] \in Range(d.found)
      BY <1>12, <3>2
    <3>4. h[k] = AddConflict(h[k-1], d.new[t[k][1]], d.new[t[k][2]], {d.found[t[k][1]], d.found[t[k][2]]})
      BY <1>10 DEF RevisionOp
    <3>. QED BY <3>3, <3>4
  <2>. HIDE DEF l, r, ev
  <2>2. Broken(h[0]) \/ Concludes(doc, d, h[0], Old)
    BY <1>10, <1>13
  <2>4. Len(t) \in Nat
    BY <1>10
  <2>5. AddsConflicts(d, Len(t), h, l, r, ev)
    BY <2>1 DEF AddsConflicts
  <2>3. Broken(h[Len(t)]) \/ Concludes(doc, d, h[Len(t)], Old)
    BY <2>2, <2>4, <2>5, ConflictsAdded
  <2>. QED BY <1>10, <2>3
<1>. QED BY <1>14

\* A failed statement fails the third pass.
LEMMA ConflictsBroken ==
  ASSUME NEW d, Broken(d), NEW S, NEW ms \in Seq(S)
  PROVE  Broken(RecordConflicts(d, ms))
<1>1. PICK s, t : s = SetToSeq(SharedComments(ms)) /\ t = SetToSeq(Revisions(ms))
  OBVIOUS
<1>2. s \in Seq(SharedComments(ms)) /\ t \in Seq(Revisions(ms))
  <2>1. IsFiniteSet(SharedComments(ms)) /\ IsFiniteSet(Revisions(ms))
    BY PairsAre
  <2>. QED BY <1>1, <2>1, SetIsListed DEF Enumerates
<1>3. PICK g : SharesOf(d, s, d, g)
  BY <1>2, ConflictsByPrefix
<1>4. PICK h : RevisesOf(d, t, g[Len(s)], h)
  BY <1>2, ConflictsByPrefix
<1>5. Len(s) \in Nat /\ Len(t) \in Nat
  BY <1>2
<1>6. g[0] = d /\ \A k \in 1..Len(s) : g[k-1] = d => g[k] = d
  BY <1>3 DEF SharesOf, SharedOp, AddConflict, insert, Broken
<1>7. ASSUME NEW n \in Nat, NEW f, f[0] = d, \A k \in 1..n : f[k-1] = d => f[k] = d
      PROVE  f[n] = d
  <2>. DEFINE Good == {k \in 0..n : f[k] = d}
  <2>1. 0 \in Good
    BY <1>7
  <2>2. ASSUME NEW k \in Good, k < n PROVE k + 1 \in Good
    <3>1. k + 1 \in 1..n /\ k + 1 \in 0..n /\ (k + 1) - 1 = k
      BY <2>2
    <3>. QED BY <1>7, <3>1
  <2>3. n \in Good
    <3>. HIDE DEF Good
    <3>. QED BY <2>1, <2>2, UpTo
  <2>. QED BY <2>3
<1>8. g[Len(s)] = d
  BY <1>5, <1>6, <1>7
<1>9. h[0] = d /\ \A k \in 1..Len(t) : h[k-1] = d => h[k] = d
  BY <1>4, <1>8 DEF RevisesOf, RevisionOp, AddConflict, insert, Broken
<1>10. h[Len(t)] = d
  BY <1>5, <1>7, <1>9
<1>11. RecordConflicts(d, ms) = h[Len(t)]
  BY <1>1, <1>3, <1>4, ConflictsIs DEF SharesOf, RevisesOf
<1>. QED BY <1>10, <1>11

----------------------------------------------------------------------------
(* The attempt. *)

\* What the transaction commits if it does: Old are the committed rows that stay.
Resolves(doc, e) ==
  \E Old \in SUBSET Live(Db) : Stage(doc, e, Old) /\ Member(doc, e)

\* A failed statement fails the resolution.
LEMMA BrokenResolve ==
  ASSUME NEW doc, NEW d, Broken(d), NEW ms, NEW seen
  PROVE  resolve_package_identities(d, doc, ms, seen) = d
BY DEF resolve_package_identities, Broken

\* Whatever a resolution finds, it breaks or it commits a sound and coherent
\* database, in which the package is the archive's.
LEMMA ResolveStep ==
  ASSUME NEW doc \in Docs, NEW ms \in Seq(Mentions), NEW seen, Sees(doc, seen),
         NEW d, Stage(doc, d, Live(Db)), Member(doc, d), Worked(d),
         NEW e, e = resolve_package_identities(d, doc, ms, seen)
  PROVE  Broken(e) \/ Resolves(doc, e)
<1>1. CASE ms = << >>
  BY <1>1 DEF resolve_package_identities, Resolves
<1>2. CASE ms # << >>
  <2>0. d.ok
    BY DEF Stage, Going
  <2>1. PICK c : c = clear_package_identities(d, d.package, seen)
    OBVIOUS
  <2>2. PICK x : x = [c EXCEPT !.new = << >>, !.found = << >>]
    OBVIOUS
  <2>3. PICK y : y = AddCandidates(x, doc, ms)
    OBVIOUS
  <2>4. PICK z : z = PromoteAll(y, ms)
    OBVIOUS
  <2>5. e = RecordConflicts(z, ms)
    BY <1>2, <2>0, <2>1, <2>2, <2>3, <2>4 DEF resolve_package_identities
  <2>6. \/ Broken(x)
        \/ /\ Stage(doc, x, Live(Db) \cap Live(x)) /\ Steady(d, x) /\ x.new = << >> /\ x.found = << >>
    BY <2>1, <2>2, ClearStep
  <2>. DEFINE Old == Live(Db) \cap Live(x)
  <2>11. Steady(d, x) => Member(doc, x)
    BY MemberKept
  <2>7. Broken(y) \/ Listed(doc, y, Old, Len(ms))
    BY <2>3, <2>6, <2>11, CandidatesStep
  <2>8. Broken(z) \/ Passed(doc, z, Old, ms, Names(ms))
    BY <2>4, <2>7, PromoteAllStep
  <2>9. CASE Broken(z)
    BY <2>5, <2>9, ConflictsBroken
  <2>10. CASE Passed(doc, z, Old, ms, Names(ms))
    <3>1. Broken(e) \/ Concludes(doc, z, e, Old)
      BY <2>5, <2>10, ConflictsStep
    <3>2. Old \in SUBSET Live(Db)
      OBVIOUS
    <3>. QED BY <3>1, <3>2 DEF Resolves, Concludes
  <2>. QED BY <2>8, <2>9, <2>10
<1>. QED BY <1>1, <1>2

----------------------------------------------------------------------------
(* The inductive invariant: of a database d, what adapter.json records, the  *)
(* deleted documents, and what the transactions that hold a document read.   *)

Phases == {"none", "resolving", "read", "dropped"}
Holding ==
  [phase : Phases, rows : SUBSET Ids, seen : SUBSET (EvidenceIds \X Ids), package : Ids \cup {Null, Lost}]

Settled(rec, del, h) ==
  rec \in [Docs -> Ids \cup {Null, Lost}] /\ del \in SUBSET Docs /\ h \in [Docs -> Holding]

\* What adapter.json of x names is x's package; while x is not deleted, x has no
\* other package and is a member of that one.
PackageOk(d, rec, del, x) ==
  /\ rec[x] \in Live(d) => For(x, d, rec[x])
  /\ x \notin del => \A p : For(x, d, p) => rec[x] \in {p, Lost} /\ x \in MembersOf(d, p)
  /\ x \notin del => \A p : \A q : For(x, d, p) /\ For(x, d, q) => p = q

\* No binding to the evidence of x escapes what a transaction has read.
Seen(d, x, seen) ==
  \A b \in d.bindings : d.evidence[b[1]] = x /\ d.rows[b[2]] # NoRow /\ ~d.rows[b[2]].raced => b \in seen

ReadAll(d, x, read) ==
  \A b \in d.bindings : d.evidence[b[1]] = x /\ d.rows[b[2]] # NoRow /\ ~d.rows[b[2]].raced => b[2] \in read

\* What the transaction that holds x goes by is still so.
HeldOk(d, rec, del, hx, x) ==
  /\ hx.phase = "none" => hx = Free
  /\ hx.phase = "resolving" => x \notin del /\ rec[x] # Lost /\ Seen(d, x, hx.seen)
  /\ hx.phase \in {"read", "dropped"} => hx.package = rec[x]
  /\ hx.phase = "read" =>
       /\ \A i \in hx.rows \cap Live(d) : d.rows[i].method = Resolver => d.rows[Package(d, i)].code = x
       /\ ReadAll(d, x, hx.rows)
  /\ hx.phase = "dropped" => \A i \in hx.rows : EvidenceOf(d, i) \subseteq EvidenceAt(d, x)

\* The delete that is about to commit takes row i.
Dropping(h, i) == \E x \in Docs : h[x].phase = "dropped" /\ i \in h[x].rows

\* A grounded row has evidence, and if all of it is being removed it goes as well.
Grounding(d, h, i) ==
  Grounds(d.rows[i].table) /\ ~d.rows[i].raced =>
    /\ EvidenceOf(d, i) # {}
    /\ Dropping(h, i) \/ \E y \in EvidenceOf(d, i) : h[d.evidence[y]].phase # "dropped"

Good(d, rec, del, h) ==
  /\ Sound(d) /\ Coherent(d) /\ Settled(rec, del, h)
  /\ \A x \in Docs : PackageOk(d, rec, del, x) /\ HeldOk(d, rec, del, h[x], x)
  /\ \A i \in Live(d) : Grounding(d, h, i)

IInv ==
  /\ Good(Db, recorded, deleted, held)
  /\ refusal # Null => ManualReference(Db)

----------------------------------------------------------------------------
(* COMMIT. *)

\* n is what is stored when d is committed.
Saves(d, n) ==
  /\ IsDb(n) /\ n.rows = d.rows /\ n.evidence = d.evidence /\ n.bindings = d.bindings
  /\ n.swept = d.swept \cap {b[2] : b \in d.bindings}

\* The rows and bindings are the same.
LEMMA StoredLive ==
  ASSUME NEW d, NEW n, Saves(d, n)
  PROVE  /\ Live(n) = Live(d) /\ \A t : OfTable(n, t) = OfTable(d, t)
         /\ \A i : EvidenceOf(n, i) = EvidenceOf(d, i) /\ Package(n, i) = Package(d, i) /\ Made(n, i) = Made(d, i)
         /\ n.rows = d.rows /\ n.evidence = d.evidence /\ n.bindings = d.bindings
<1>1. n.rows = d.rows /\ n.bindings = d.bindings /\ n.evidence = d.evidence
  BY DEF Saves
<1>2. Live(n) = Live(d)
  BY <1>1 DEF Live
<1>3. \A t : OfTable(n, t) = OfTable(d, t)
  BY <1>1, <1>2 DEF OfTable
<1>4. \A i : EvidenceOf(n, i) = EvidenceOf(d, i)
  BY <1>1 DEF EvidenceOf
<1>5. \A i : Package(n, i) = Package(d, i) /\ Made(n, i) = Made(d, i)
  BY <1>1 DEF Package, Made
<1>. QED BY <1>1, <1>2, <1>3, <1>4, <1>5

\* A commit keeps a sound database sound.
LEMMA StoredSound ==
  ASSUME NEW d, Sound(d), NEW n, Saves(d, n)
  PROVE  Sound(n)
<1>0. Shape(d) /\ KeysOk(d) /\ Bound(d) /\ Makers(d) /\ OwnEvidence(d)
  BY DEF Sound
<1>1. /\ Live(n) = Live(d) /\ \A t : OfTable(n, t) = OfTable(d, t)
      /\ \A i : EvidenceOf(n, i) = EvidenceOf(d, i) /\ Package(n, i) = Package(d, i) /\ Made(n, i) = Made(d, i)
      /\ n.rows = d.rows /\ n.evidence = d.evidence /\ n.bindings = d.bindings
  BY StoredLive
<1>2. Shape(n)
  BY <1>0, <1>1 DEF Shape, Saves
<1>3. KeysOk(n)
  <2>1. ASSUME NEW j \in Live(n), NEW f \in ForeignKeys[d.rows[j].table]
        PROVE  \/ /\ d.rows[j].refs[f.col] \in OfTable(n, f.parent)
                  /\ f.packaged => d.rows[d.rows[j].refs[f.col]].refs["package_id"] = d.rows[j].refs["package_id"]
               \/ d.rows[j].refs[f.col] = Null /\ ~f.required
    <3>1. j \in Live(d) /\ OfTable(n, f.parent) = OfTable(d, f.parent)
      BY <1>1
    <3>. QED BY <1>0, <3>1 DEF KeysOk
  <2>. QED BY <1>1, <2>1 DEF KeysOk
<1>4. Bound(n)
  BY <1>0, <1>1 DEF Bound, Saves
<1>5. Makers(n)
  <2>1. \A r : OwnRefs(d, r) => OwnRefs(n, r)
    BY <1>1 DEF OwnRefs
  <2>. QED BY <1>0, <1>1, <2>1 DEF Makers
<1>6. OwnEvidence(n)
  BY <1>0, <1>1 DEF OwnEvidence
<1>. QED BY <1>2, <1>3, <1>4, <1>5, <1>6 DEF Sound

\* A commit keeps the invariant.
LEMMA StoredGood ==
  ASSUME NEW d, NEW rec, NEW del, NEW h, Good(d, rec, del, h), NEW n, Saves(d, n)
  PROVE  Good(n, rec, del, h)
<1>1. /\ Live(n) = Live(d) /\ \A t : OfTable(n, t) = OfTable(d, t)
      /\ \A i : EvidenceOf(n, i) = EvidenceOf(d, i) /\ Package(n, i) = Package(d, i)
      /\ n.rows = d.rows /\ n.evidence = d.evidence /\ n.bindings = d.bindings
  BY StoredLive
<1>2. Sound(n)
  BY StoredSound DEF Good
<1>3. Coherent(n)
  <2>1. \A i : Merged(n, i) = Merged(d, i)
    BY <1>1 DEF Merged
  <2>2. Sides(n)
    BY <1>1 DEF Sides, Good, Coherent
  <2>3. Standing(n)
    BY <1>1, <2>1 DEF Standing, Stands, Good, Coherent
  <2>. QED BY <2>2, <2>3 DEF Coherent
<1>4. ASSUME NEW x \in Docs PROVE PackageOk(n, rec, del, x) /\ HeldOk(n, rec, del, h[x], x)
  <2>1. (\A p : For(x, n, p) <=> For(x, d, p)) /\ \A p : MembersOf(n, p) = MembersOf(d, p)
    BY <1>1 DEF For, MembersOf, InPackageOf
  <2>2. PackageOk(d, rec, del, x) /\ HeldOk(d, rec, del, h[x], x)
    BY DEF Good
  <2>3. PackageOk(n, rec, del, x)
    BY <1>1, <2>1, <2>2 DEF PackageOk
  <2>4. (\A s : Seen(n, x, s) <=> Seen(d, x, s)) /\ (\A s : ReadAll(n, x, s) <=> ReadAll(d, x, s))
        /\ EvidenceAt(n, x) = EvidenceAt(d, x)
    BY <1>1 DEF Seen, ReadAll, EvidenceAt
  <2>5. HeldOk(n, rec, del, h[x], x)
    BY <1>1, <2>2, <2>4 DEF HeldOk
  <2>. QED BY <2>3, <2>5
<1>5. \A i \in Live(n) : Grounding(n, h, i)
  BY <1>1 DEF Grounding, Good
<1>. QED BY <1>2, <1>3, <1>4, <1>5 DEF Good

----------------------------------------------------------------------------
(* The end of an attempt. *)

\* What an attempt on doc leaves to the others.
LEMMA GrownOthers ==
  ASSUME NEW doc \in Docs, Sound(Db), NEW d, NEW Old, Grown(doc, d, Old), Sound(d)
  PROVE  /\ \A j \in Live(Db) : rows[j].table \in WorkerTables => j \in Live(d) /\ d.rows[j] = rows[j]
         /\ \A i \in Noted \cap Live(d) : i \in Live(Db) /\ d.rows[i] = rows[i]
         /\ \A i \in Noted : \A b \in d.bindings : b[2] = i => b \in bindings /\ d.evidence[b[1]] = evidence[b[1]]
         /\ \A b \in d.bindings : d.evidence[b[1]] # doc /\ d.rows[b[2]] # NoRow =>
              b \in bindings /\ d.evidence[b[1]] = evidence[b[1]] /\ rows[b[2]] # NoRow /\ d.rows[b[2]] = rows[b[2]]
<1>0. /\ Old \subseteq Live(Db) \cap Live(d) /\ \A i \in Old : d.rows[i] = rows[i]
      /\ \A i \in Live(Db) \ Old : Clearable(i)
      /\ \A i \in Live(d) \ Old : i \notin Noted
      /\ \A b \in d.bindings :
           IF b[2] \in Live(d) \ Old THEN d.evidence[b[1]] = doc
           ELSE b \in bindings /\ d.evidence[b[1]] = evidence[b[1]]
  BY DEF Grown
<1>1. ASSUME NEW j \in Live(Db), rows[j].table \in WorkerTables PROVE j \in Live(d) /\ d.rows[j] = rows[j]
  <2>1. MadeBy(rows[j])
    BY DEF Sound, Makers, Db
  <2>2. ~Clearable(j)
    BY <1>1, <2>1 DEF Clearable, OnResolved, MadeBy, WorkerTables, ResolverTables, Db
  <2>. QED BY <1>0, <2>2
<1>2. ASSUME NEW i \in Noted \cap Live(d) PROVE i \in Live(Db) /\ d.rows[i] = rows[i]
  BY <1>0
<1>3. ASSUME NEW i \in Noted, NEW b \in d.bindings, b[2] = i PROVE b \in bindings /\ d.evidence[b[1]] = evidence[b[1]]
  BY <1>0, <1>3
<1>4. ASSUME NEW b \in d.bindings, d.evidence[b[1]] # doc, d.rows[b[2]] # NoRow
      PROVE  b \in bindings /\ d.evidence[b[1]] = evidence[b[1]] /\ rows[b[2]] # NoRow /\ d.rows[b[2]] = rows[b[2]]
  <2>1. b[2] \in Ids
    BY DEF Sound, Shape
  <2>2. b[2] \in Live(d) /\ b[2] \notin Live(d) \ Old
    BY <1>0, <1>4, <2>1 DEF Live
  <2>3. b \in bindings /\ d.evidence[b[1]] = evidence[b[1]]
    BY <1>0, <2>2
  <2>. QED BY <1>0, <2>2, <2>3 DEF Live, Db
<1>. QED BY <1>1, <1>2, <1>3, <1>4

\* The attempt on doc commits.
LEMMA AttemptGood ==
  ASSUME Good(Db, recorded, deleted, held), NEW doc \in Docs, doc \notin deleted, NEW e, Resolves(doc, e),
         NEW rec, rec = [recorded EXCEPT ![doc] = e.package], NEW h, h = [held EXCEPT ![doc] = Free]
  PROVE  Good(e, rec, deleted, h)
<1>0. /\ Sound(Db) /\ Coherent(Db) /\ Settled(recorded, deleted, held)
      /\ \A x \in Docs : PackageOk(Db, recorded, deleted, x) /\ HeldOk(Db, recorded, deleted, held[x], x)
      /\ \A i \in Live(Db) : Grounding(Db, held, i)
  BY DEF Good
<1>1. PICK Old \in SUBSET Live(Db) : Stage(doc, e, Old) /\ Member(doc, e)
  BY DEF Resolves
<1>2. Sound(e) /\ Grown(doc, e, Old) /\ Coherent(e) /\ For(doc, e, e.package) /\ Only(doc, e)
  BY <1>1 DEF Stage, Going
<1>3. /\ \A j \in Live(Db) : rows[j].table \in WorkerTables => j \in Live(e) /\ e.rows[j] = rows[j]
      /\ \A i \in Noted \cap Live(e) : i \in Live(Db) /\ e.rows[i] = rows[i]
      /\ \A i \in Noted : \A b \in e.bindings : b[2] = i => b \in bindings /\ e.evidence[b[1]] = evidence[b[1]]
      /\ \A b \in e.bindings : e.evidence[b[1]] # doc /\ e.rows[b[2]] # NoRow =>
           b \in bindings /\ e.evidence[b[1]] = evidence[b[1]] /\ rows[b[2]] # NoRow /\ e.rows[b[2]] = rows[b[2]]
  BY <1>0, <1>2, GrownOthers
<1>4. Free \in Holding /\ Free.phase = "none" /\ Free.rows = {}
  BY DEF Free, Holding, Phases
<1>5. e.package \in Ids /\ e.package # Lost /\ e.package \in OfTable(e, "machine_packages") /\ doc # Null
  <2>1. e.package \in OfTable(e, "machine_packages")
    BY <1>2 DEF For
  <2>. QED BY <2>1, EvidenceAssumption DEF OfTable, Live, Ids
<1>6. Settled(rec, deleted, h)
  BY <1>0, <1>4, <1>5 DEF Settled
<1>7. /\ rec[doc] = e.package /\ h[doc] = Free
      /\ \A x \in Docs : x # doc => rec[x] = recorded[x] /\ h[x] = held[x]
  BY <1>0 DEF Settled
<1>8. PackageOk(e, rec, deleted, doc) /\ HeldOk(e, rec, deleted, h[doc], doc)
  <2>1. \A q : For(doc, e, q) => q = e.package
    BY <1>2 DEF Only
  <2>2. doc \in MembersOf(e, e.package)
    BY <1>1 DEF Member
  <2>3. PackageOk(e, rec, deleted, doc)
    BY <1>2, <1>7, <2>1, <2>2 DEF PackageOk
  <2>. QED BY <1>4, <1>7, <2>3 DEF HeldOk
<1>9. ASSUME NEW x \in Docs, x # doc PROVE PackageOk(e, rec, deleted, x)
  <2>0. PackageOk(Db, recorded, deleted, x) /\ recorded[x] \in Noted
    <3>1. recorded[x] \in Range(recorded)
      BY <1>0 DEF Settled, Range
    <3>. QED BY <1>0, <3>1 DEF Noted
  <2>1. ASSUME NEW p, For(x, e, p) PROVE For(x, Db, p)
    <3>1. p # e.package /\ p \in OfTable(e, "machine_packages")
      BY <1>2, <1>9, <2>1 DEF For
    <3>2. p \in Live(Db) /\ e.rows[p] = rows[p] /\ Db.rows = rows
      BY <1>2, <3>1 DEF Only, Db
    <3>. QED BY <2>1, <3>2 DEF For, OfTable
  <2>2. ASSUME rec[x] \in Live(e) PROVE For(x, e, rec[x])
    <3>1. rec[x] \in Live(Db) /\ e.rows[rec[x]] = rows[rec[x]] /\ Db.rows = rows
      BY <1>3, <1>7, <1>9, <2>0, <2>2 DEF Db
    <3>2. For(x, Db, rec[x])
      BY <1>7, <1>9, <2>0, <3>1 DEF PackageOk
    <3>. QED BY <2>2, <3>1, <3>2 DEF For, OfTable
  <2>3. ASSUME NEW p, x \in MembersOf(Db, p) PROVE x \in MembersOf(e, p)
    <3>1. PICK i \in InPackageOf(Db, "package_documents", p) : Db.rows[i].doc = x
      BY <2>3 DEF MembersOf
    <3>2. i \in Live(Db) /\ Db.rows = rows /\ rows[i].table = "package_documents"
      BY <3>1 DEF InPackageOf, OfTable, Db
    <3>3. i \in Live(e) /\ e.rows[i] = rows[i]
      BY <1>3, <3>2 DEF WorkerTables
    <3>4. i \in InPackageOf(e, "package_documents", p) /\ e.rows[i].doc = x
      BY <3>1, <3>2, <3>3 DEF InPackageOf, OfTable
    <3>. QED BY <3>4 DEF MembersOf
  <2>. QED BY <1>7, <1>9, <2>0, <2>1, <2>2, <2>3 DEF PackageOk
<1>10. ASSUME NEW x \in Docs, x # doc PROVE HeldOk(e, rec, deleted, h[x], x)
  <2>0. HeldOk(Db, recorded, deleted, held[x], x) /\ h[x] = held[x] /\ rec[x] = recorded[x]
    BY <1>0, <1>7, <1>10
  <2>1. held[x].rows \subseteq Noted
    BY DEF Noted
  <2>2. \A b \in e.bindings : e.evidence[b[1]] = x /\ e.rows[b[2]] # NoRow =>
           b \in bindings /\ evidence[b[1]] = x /\ rows[b[2]] # NoRow /\ e.rows[b[2]] = rows[b[2]]
    BY <1>3, <1>10
  <2>3. Db.bindings = bindings /\ Db.evidence = evidence /\ Db.rows = rows
    BY DEF Db
  <2>4. (\A s : Seen(Db, x, s) => Seen(e, x, s)) /\ \A s : ReadAll(Db, x, s) => ReadAll(e, x, s)
    BY <2>2, <2>3 DEF Seen, ReadAll
  <2>5. ASSUME NEW i \in held[x].rows \cap Live(e), e.rows[i].method = Resolver,
               \A j \in held[x].rows \cap Live(Db) : rows[j].method = Resolver => rows[Package(Db, j)].code = x
        PROVE  e.rows[Package(e, i)].code = x
    <3>1. i \in Live(Db) /\ e.rows[i] = rows[i]
      BY <1>3, <2>1, <2>5
    <3>2. rows[Package(Db, i)].code = x /\ Package(e, i) = Package(Db, i)
      BY <2>3, <2>5, <3>1 DEF Package
    <3>3. Package(Db, i) \in Live(Db) /\ rows[Package(Db, i)].table = "machine_packages"
      <4>1. rows[i].table \in ResolverTables
        BY <1>0, <2>3, <2>5, <3>1 DEF Sound, Makers, MadeBy
      <4>2. rows[i].table \notin Unpackaged
        BY <4>1 DEF ResolverTables, Unpackaged
      <4>. QED BY <1>0, <2>3, <3>1, <4>2, PackageLive DEF Sound
    <3>4. e.rows[Package(Db, i)] = rows[Package(Db, i)]
      BY <1>3, <3>3 DEF WorkerTables
    <3>. QED BY <3>2, <3>4
  <2>6. ASSUME NEW i \in held[x].rows, EvidenceOf(Db, i) \subseteq EvidenceAt(Db, x)
        PROVE  EvidenceOf(e, i) \subseteq EvidenceAt(e, x)
    <3>1. SUFFICES ASSUME NEW b \in e.bindings, b[2] = i PROVE b[1] \in EvidenceAt(e, x)
      BY DEF EvidenceOf
    <3>2. b \in bindings /\ e.evidence[b[1]] = evidence[b[1]]
      BY <1>3, <2>1, <3>1
    <3>3. b[1] \in EvidenceOf(Db, i)
      BY <2>3, <3>1, <3>2 DEF EvidenceOf
    <3>. QED BY <2>3, <2>6, <3>2, <3>3 DEF EvidenceAt
  <2>7. held[x].phase = "read" =>
         /\ \A i \in held[x].rows \cap Live(e) : e.rows[i].method = Resolver => e.rows[Package(e, i)].code = x
         /\ ReadAll(e, x, held[x].rows)
    BY <2>0, <2>3, <2>4, <2>5 DEF HeldOk
  <2>8. held[x].phase = "dropped" => \A i \in held[x].rows : EvidenceOf(e, i) \subseteq EvidenceAt(e, x)
    BY <2>0, <2>6 DEF HeldOk
  <2>. QED BY <2>0, <2>4, <2>7, <2>8 DEF HeldOk
<1>11. ASSUME NEW i \in Live(e) PROVE Grounding(e, h, i)
  <2>1. SUFFICES ASSUME Grounds(e.rows[i].table), ~e.rows[i].raced
                 PROVE  /\ EvidenceOf(e, i) # {}
                        /\ Dropping(h, i) \/ \E y \in EvidenceOf(e, i) : h[e.evidence[y]].phase # "dropped"
    BY DEF Grounding
  <2>2. CASE i \in Live(e) \ Old
    <3>1. PICK y \in EvidenceOf(e, i) : NewOnly(e, Old, y)
      BY <1>2, <2>1, <2>2 DEF Grown
    <3>2. PICK b \in e.bindings : b[1] = y /\ b[2] = i
      BY <3>1 DEF EvidenceOf
    <3>3. e.evidence[y] = doc
      BY <1>2, <2>2, <3>2 DEF Grown
    <3>. QED BY <1>4, <1>7, <3>1, <3>3
  <2>3. CASE i \in Old
    <3>1. i \in Live(Db) /\ e.rows[i] = rows[i] /\ EvidenceOf(e, i) = EvidenceOf(Db, i) /\ Db.rows = rows /\ Db.evidence = evidence
      BY <1>2, <2>1, <2>3 DEF Grown, Db
    <3>2. /\ EvidenceOf(Db, i) # {}
          /\ Dropping(held, i) \/ \E y \in EvidenceOf(Db, i) : held[evidence[y]].phase # "dropped"
      BY <1>0, <2>1, <3>1 DEF Grounding
    <3>3. ASSUME NEW y \in EvidenceOf(e, i) PROVE e.evidence[y] = evidence[y] /\ e.evidence[y] \in Docs
      <4>1. PICK b \in e.bindings : b[1] = y /\ b[2] = i
        BY <3>3 DEF EvidenceOf
      <4>2. e.evidence[y] = evidence[y]
        BY <1>2, <2>3, <4>1 DEF Grown
      <4>3. y \in EvidenceIds /\ e.evidence[y] # Null
        BY <1>2, <4>1 DEF Sound, Shape, Bound
      <4>. QED BY <1>2, <4>2, <4>3 DEF Sound, Shape
    <3>4. \A x \in Docs : held[x].phase # "dropped" => h[x].phase # "dropped"
      BY <1>4, <1>7
    <3>5. CASE \E y \in EvidenceOf(Db, i) : held[evidence[y]].phase # "dropped"
      BY <3>1, <3>3, <3>4, <3>5
    <3>6. CASE Dropping(held, i)
      <4>1. PICK x \in Docs : held[x].phase = "dropped" /\ i \in held[x].rows
        BY <3>6 DEF Dropping
      <4>2. CASE x # doc
        BY <1>7, <3>1, <3>2, <4>1, <4>2 DEF Dropping
      <4>3. CASE x = doc
        <5>1. PICK y \in EvidenceOf(e, i) : TRUE
          BY <3>1, <3>2
        <5>2. y \in EvidenceAt(Db, doc)
          BY <1>0, <3>1, <4>1, <4>3, <5>1 DEF HeldOk
        <5>3. e.evidence[y] = doc
          BY <3>1, <3>3, <5>1, <5>2 DEF EvidenceAt
        <5>. QED BY <1>4, <1>7, <3>1, <3>2, <5>1, <5>3
      <4>. QED BY <4>2, <4>3
    <3>. QED BY <3>1, <3>2, <3>5, <3>6
  <2>. QED BY <2>2, <2>3
<1>. QED BY <1>2, <1>6, <1>8, <1>9, <1>10, <1>11 DEF Good

\* A transaction that ends without a commit leaves the rest as it is; a delete
\* may have removed adapter.json.
LEMMA FreeGood ==
  ASSUME NEW d, NEW rec, NEW del, NEW h, Good(d, rec, del, h), NEW doc \in Docs,
         NEW r, r \in {rec[doc], LostRecord(rec[doc])},
         NEW rec2, rec2 = [rec EXCEPT ![doc] = r], NEW h2, h2 = [h EXCEPT ![doc] = Free]
  PROVE  Good(d, rec2, del, h2)
<1>0. /\ Sound(d) /\ Coherent(d) /\ Settled(rec, del, h)
      /\ \A x \in Docs : PackageOk(d, rec, del, x) /\ HeldOk(d, rec, del, h[x], x)
      /\ \A i \in Live(d) : Grounding(d, h, i)
  BY DEF Good
<1>1. Free \in Holding /\ Free.phase = "none" /\ Free.rows = {}
  BY DEF Free, Holding, Phases
<1>2. r \in Ids \cup {Null, Lost} /\ (r = rec[doc] \/ r = Lost) /\ Lost \notin Ids /\ Lost # Null
  <2>1. rec[doc] \in Ids \cup {Null, Lost}
    BY <1>0 DEF Settled
  <2>. QED BY <2>1, EvidenceAssumption DEF LostRecord, Ids
<1>3. Settled(rec2, del, h2)
  BY <1>0, <1>1, <1>2 DEF Settled
<1>4. /\ rec2[doc] = r /\ h2[doc] = Free
      /\ \A x \in Docs : x # doc => rec2[x] = rec[x] /\ h2[x] = h[x]
  BY <1>0 DEF Settled
<1>5. PackageOk(d, rec2, del, doc) /\ HeldOk(d, rec2, del, h2[doc], doc)
  <2>1. PackageOk(d, rec, del, doc) /\ Live(d) \subseteq Ids
    BY <1>0 DEF Live
  <2>2. PackageOk(d, rec2, del, doc)
    BY <1>2, <1>4, <2>1 DEF PackageOk
  <2>. QED BY <1>1, <1>4, <2>2 DEF HeldOk
<1>6. ASSUME NEW x \in Docs, x # doc PROVE PackageOk(d, rec2, del, x) /\ HeldOk(d, rec2, del, h2[x], x)
  <2>1. PackageOk(d, rec, del, x) /\ HeldOk(d, rec, del, h[x], x) /\ rec2[x] = rec[x] /\ h2[x] = h[x]
    BY <1>0, <1>4, <1>6
  <2>2. PackageOk(d, rec2, del, x)
    BY <2>1 DEF PackageOk
  <2>3. HeldOk(d, rec2, del, h[x], x)
    BY <2>1 DEF HeldOk
  <2>. QED BY <2>1, <2>2, <2>3
<1>7. ASSUME NEW i \in Live(d) PROVE Grounding(d, h2, i)
  <2>1. SUFFICES ASSUME Grounds(d.rows[i].table), ~d.rows[i].raced
                 PROVE  /\ EvidenceOf(d, i) # {}
                        /\ Dropping(h2, i) \/ \E y \in EvidenceOf(d, i) : h2[d.evidence[y]].phase # "dropped"
    BY DEF Grounding
  <2>2. /\ EvidenceOf(d, i) # {}
        /\ Dropping(h, i) \/ \E y \in EvidenceOf(d, i) : h[d.evidence[y]].phase # "dropped"
    BY <1>0, <2>1 DEF Grounding
  <2>3. ASSUME NEW y \in EvidenceOf(d, i) PROVE d.evidence[y] \in Docs
    <3>1. PICK b \in d.bindings : b[1] = y
      BY <2>3 DEF EvidenceOf
    <3>2. y \in EvidenceIds /\ d.evidence[y] # Null
      BY <1>0, <3>1 DEF Sound, Shape, Bound
    <3>. QED BY <1>0, <3>2 DEF Sound, Shape
  <2>4. \A x \in Docs : h[x].phase # "dropped" => h2[x].phase # "dropped"
    BY <1>1, <1>4
  <2>5. CASE \E y \in EvidenceOf(d, i) : h[d.evidence[y]].phase # "dropped"
    BY <2>2, <2>3, <2>4, <2>5
  <2>6. CASE Dropping(h, i)
    <3>1. PICK x \in Docs : h[x].phase = "dropped" /\ i \in h[x].rows
      BY <2>6 DEF Dropping
    <3>2. CASE x # doc
      BY <1>4, <2>2, <3>1, <3>2 DEF Dropping
    <3>3. CASE x = doc
      <4>1. PICK y \in EvidenceOf(d, i) : TRUE
        BY <2>2
      <4>2. d.evidence[y] = doc
        BY <1>0, <3>1, <3>3, <4>1 DEF HeldOk, EvidenceAt
      <4>. QED BY <1>1, <1>4, <2>2, <4>1, <4>2
    <3>. QED BY <3>2, <3>3
  <2>. QED BY <2>2, <2>5, <2>6
<1>. QED BY <1>0, <1>3, <1>5, <1>6, <1>7 DEF Good

----------------------------------------------------------------------------
(* The actions of an attempt. *)

\* A transaction commits database d.
LEMMA Committed ==
  ASSUME NEW d, Commit(d)
  PROVE  Saves(d, Db') /\ d.ok /\ refusal' = Null
BY DEF Commit, Saves, Db, IsDb

\* What an attempt computes.
LEMMA AttemptResolves ==
  ASSUME IInv, NEW doc \in Docs, held[doc].phase = "resolving", NEW ms \in Readings[doc],
         NEW d, d = resolve_package_identities(intake(Db, doc), doc, ms, held[doc].seen)
  PROVE  Broken(d) \/ Resolves(doc, d)
<1>0. /\ Sound(Db) /\ Coherent(Db) /\ PackageOk(Db, recorded, deleted, doc)
      /\ HeldOk(Db, recorded, deleted, held[doc], doc)
  BY DEF IInv, Good
<1>1. doc \notin deleted /\ recorded[doc] # Lost /\ Seen(Db, doc, held[doc].seen)
  BY <1>0 DEF HeldOk
<1>2. Recorded(doc)
  BY <1>0, <1>1 DEF Recorded, PackageOk
<1>3. Sees(doc, held[doc].seen)
  BY <1>1 DEF Sees, Seen, Db
<1>4. PICK e : e = intake(Db, doc)
  OBVIOUS
<1>5. Broken(e) \/ (Stage(doc, e, Live(Db)) /\ Member(doc, e) /\ Worked(e))
  BY <1>0, <1>2, <1>4, IntakeStep
<1>6. CASE Broken(e)
  BY <1>4, <1>6, BrokenResolve
<1>7. CASE Stage(doc, e, Live(Db)) /\ Member(doc, e) /\ Worked(e)
  <2>1. ms \in Seq(Mentions) /\ d = resolve_package_identities(e, doc, ms, held[doc].seen)
    BY <1>4, ReadingIs
  <2>. QED BY <1>3, <1>7, <2>1, ResolveStep
<1>. QED BY <1>5, <1>6, <1>7

\* AttemptEnd.
LEMMA AttemptEndStep ==
  ASSUME IInv, NEW doc \in Docs, AttemptEnd(doc)
  PROVE  IInv'
<1>0. Good(Db, recorded, deleted, held) /\ doc \notin deleted
  BY DEF IInv, Good, HeldOk, AttemptEnd
<1>1. held[doc].phase = "resolving" /\ held' = [held EXCEPT ![doc] = Free] /\ deleted' = deleted
  BY DEF AttemptEnd
<1>2. PICK ms \in Readings[doc] :
        \E d \in {resolve_package_identities(intake(Db, doc), doc, ms, held[doc].seen)} :
          \/ Commit(d) /\ recorded' = [recorded EXCEPT ![doc] = d.package]
          \/ Rollback(d, <<"resolve", doc>>) /\ UNCHANGED recorded
  BY DEF AttemptEnd
<1>3. PICK d : /\ d = resolve_package_identities(intake(Db, doc), doc, ms, held[doc].seen)
               /\ \/ Commit(d) /\ recorded' = [recorded EXCEPT ![doc] = d.package]
                  \/ Rollback(d, <<"resolve", doc>>) /\ UNCHANGED recorded
  BY <1>2
<1>4. Broken(d) \/ Resolves(doc, d)
  BY <1>1, <1>3, AttemptResolves
<1>5. Resolves(doc, d) => d.ok
  BY DEF Resolves, Stage, Going
<1>6. CASE Commit(d) /\ recorded' = [recorded EXCEPT ![doc] = d.package]
  <2>1. Saves(d, Db') /\ d.ok /\ refusal' = Null
    BY <1>6, Committed
  <2>2. Resolves(doc, d)
    BY <1>4, <2>1 DEF Broken
  <2>3. Good(d, recorded', deleted', held')
    BY <1>0, <1>1, <1>6, <2>2, AttemptGood
  <2>4. Good(Db', recorded', deleted', held')
    BY <2>1, <2>3, StoredGood
  <2>. QED BY <2>1, <2>4 DEF IInv
<1>7. CASE Rollback(d, <<"resolve", doc>>) /\ UNCHANGED recorded
  <2>1. Db' = Db /\ ~d.ok /\ ~d.full
    BY <1>7 DEF Rollback, Db
  <2>2. ManualReference(Db)
    BY <1>4, <1>5, <2>1 DEF Broken
  <2>3. recorded' = [recorded EXCEPT ![doc] = recorded[doc]]
    BY <1>0, <1>7 DEF Good, Settled
  <2>4. Good(Db, recorded', deleted, held')
    BY <1>0, <1>1, <2>3, FreeGood
  <2>. QED BY <1>1, <2>1, <2>2, <2>4 DEF IInv
<1>. QED BY <1>3, <1>6, <1>7

\* AttemptBegin: every binding is seen.
LEMMA AttemptBeginStep ==
  ASSUME IInv, NEW doc \in Docs, AttemptBegin(doc)
  PROVE  IInv'
<1>0. /\ Sound(Db) /\ Coherent(Db) /\ Settled(recorded, deleted, held)
      /\ \A x \in Docs : PackageOk(Db, recorded, deleted, x) /\ HeldOk(Db, recorded, deleted, held[x], x)
      /\ \A i \in Live(Db) : Grounding(Db, held, i)
  BY DEF IInv, Good
<1>1. /\ held[doc] = Free /\ doc \notin deleted /\ recorded[doc] # Lost /\ refusal' = Null
      /\ held' = [held EXCEPT ![doc].phase = "resolving", ![doc].seen = bindings]
      /\ Db' = Db /\ recorded' = recorded /\ deleted' = deleted
  BY DEF AttemptBegin, Db
<1>2. PICK x : x = [Free EXCEPT !.phase = "resolving", !.seen = bindings]
  OBVIOUS
<1>3. held' = [held EXCEPT ![doc] = x]
  BY <1>0, <1>1, <1>2 DEF Settled
<1>4. x.phase = "resolving" /\ x.rows = {} /\ x.seen = bindings /\ x.package = Null /\ x \in Holding
      /\ Free.phase = "none"
  BY <1>0, <1>2 DEF Free, Holding, Phases, Sound, Shape, Db
<1>5. Settled(recorded, deleted, held') /\ held'[doc] = x /\ \A y \in Docs : y # doc => held'[y] = held[y]
  BY <1>0, <1>3, <1>4 DEF Settled
<1>6. HeldOk(Db, recorded, deleted, x, doc)
  <2>1. Seen(Db, doc, bindings)
    BY DEF Seen, Db
  <2>. QED BY <1>1, <1>4, <2>1 DEF HeldOk
<1>7. \A y \in Docs : HeldOk(Db, recorded, deleted, held'[y], y)
  BY <1>0, <1>5, <1>6
<1>8. ASSUME NEW i \in Live(Db) PROVE Grounding(Db, held', i)
  <2>1. \A y \in Docs : (held'[y].phase = "dropped" <=> held[y].phase = "dropped")
                        /\ (held[y].phase = "dropped" => held'[y] = held[y])
    BY <1>1, <1>4, <1>5
  <2>2. Dropping(held, i) => Dropping(held', i)
    BY <2>1 DEF Dropping
  <2>3. \A y \in EvidenceOf(Db, i) : Db.evidence[y] \in Docs
    BY <1>0 DEF Sound, Shape, Bound, EvidenceOf
  <2>. QED BY <1>0, <2>1, <2>2, <2>3 DEF Grounding
<1>9. Good(Db, recorded, deleted, held')
  BY <1>0, <1>5, <1>7, <1>8 DEF Good
<1>. QED BY <1>1, <1>9 DEF IInv

\* Abort.
LEMMA AbortStep ==
  ASSUME IInv, NEW doc \in Docs, Abort(doc)
  PROVE  IInv'
<1>1. /\ held' = [held EXCEPT ![doc] = Free] /\ refusal' = Null /\ Db' = Db /\ deleted' = deleted
      /\ recorded' = [recorded EXCEPT ![doc] = IF held[doc].phase = "resolving" THEN @ ELSE LostRecord(@)]
  BY DEF Abort, Db
<1>2. PICK r : r = IF held[doc].phase = "resolving" THEN recorded[doc] ELSE LostRecord(recorded[doc])
  OBVIOUS
<1>3. recorded' = [recorded EXCEPT ![doc] = r] /\ r \in {recorded[doc], LostRecord(recorded[doc])}
  BY <1>1, <1>2
<1>4. Good(Db, recorded', deleted, held')
  BY <1>1, <1>3, FreeGood DEF IInv
<1>. QED BY <1>1, <1>4 DEF IInv

----------------------------------------------------------------------------
(* The first two steps of a delete. *)

\* DeleteBegin: what the evidence supports is read.
LEMMA DeleteBeginStep ==
  ASSUME IInv, NEW doc \in Docs, DeleteBegin(doc)
  PROVE  IInv'
<1>0. /\ Sound(Db) /\ Coherent(Db) /\ Settled(recorded, deleted, held)
      /\ \A x \in Docs : PackageOk(Db, recorded, deleted, x) /\ HeldOk(Db, recorded, deleted, held[x], x)
      /\ \A i \in Live(Db) : Grounding(Db, held, i)
  BY DEF IInv, Good
<1>1. PICK x : x = [phase |-> "read", rows |-> affected(Db, doc), seen |-> {}, package |-> recorded[doc]]
  OBVIOUS
<1>2. /\ held[doc] = Free /\ refusal' = Null /\ held' = [held EXCEPT ![doc] = x]
      /\ Db' = Db /\ recorded' = recorded /\ deleted' = deleted
  BY <1>1 DEF DeleteBegin, Db
<1>3. affected(Db, doc) \subseteq Ids /\ \A b \in bindings : evidence[b[1]] = doc => b[2] \in affected(Db, doc)
  BY <1>0 DEF affected, Sound, Shape, Db
<1>4. x.phase = "read" /\ x.rows = affected(Db, doc) /\ x.package = recorded[doc] /\ x \in Holding
  BY <1>0, <1>1, <1>3 DEF Holding, Phases, Settled
<1>5. Settled(recorded, deleted, held') /\ held'[doc] = x /\ \A y \in Docs : y # doc => held'[y] = held[y]
  BY <1>0, <1>2, <1>4 DEF Settled
<1>6. HeldOk(Db, recorded, deleted, x, doc)
  <2>1. ReadAll(Db, doc, x.rows)
    BY <1>3, <1>4 DEF ReadAll, Db
  <2>2. ASSUME NEW i \in x.rows \cap Live(Db), Db.rows[i].method = Resolver
        PROVE  Db.rows[Package(Db, i)].code = doc
    <3>1. PICK b \in Db.bindings : b[2] = i /\ Db.evidence[b[1]] = doc
      BY <1>4, <2>2 DEF affected
    <3>2. b[1] \in EvidenceOf(Db, i)
      BY <3>1 DEF EvidenceOf
    <3>. QED BY <1>0, <2>2, <3>1, <3>2 DEF Sound, OwnEvidence
  <2>. QED BY <1>4, <2>1, <2>2 DEF HeldOk
<1>7. \A y \in Docs : HeldOk(Db, recorded, deleted, held'[y], y)
  BY <1>0, <1>5, <1>6
<1>8. ASSUME NEW i \in Live(Db) PROVE Grounding(Db, held', i)
  <2>0. Free.phase = "none"
    BY DEF Free
  <2>1. \A y \in Docs : (held'[y].phase = "dropped" <=> held[y].phase = "dropped")
                        /\ (held[y].phase = "dropped" => held'[y] = held[y])
    BY <1>2, <1>4, <1>5, <2>0
  <2>2. Dropping(held, i) => Dropping(held', i)
    BY <2>1 DEF Dropping
  <2>3. \A y \in EvidenceOf(Db, i) : Db.evidence[y] \in Docs
    BY <1>0 DEF Sound, Shape, Bound, EvidenceOf
  <2>. QED BY <1>0, <2>1, <2>2, <2>3 DEF Grounding
<1>9. Good(Db, recorded, deleted, held')
  BY <1>0, <1>5, <1>7, <1>8 DEF Good
<1>. QED BY <1>2, <1>9 DEF IInv

\* d with some rows marked.
Marks(d, e, M) ==
  /\ IsDb(e) /\ e.evidence = d.evidence /\ e.bindings = d.bindings /\ e.swept = d.swept
  /\ e.rows = [i \in Ids |-> IF i \in M THEN [d.rows[i] EXCEPT !.raced = TRUE] ELSE d.rows[i]]

\* The row but for the mark.
Marked(q, r) ==
  /\ r.table = q.table /\ r.refs = q.refs /\ r.doc = q.doc /\ r.method = q.method /\ r.sides = q.sides
  /\ r.code = q.code /\ r.raced

\* Marking a row.
LEMMA MarkedRow ==
  ASSUME NEW q, IsRow(q), NEW r, r = [q EXCEPT !.raced = TRUE]
  PROVE  Marked(q, r) /\ IsRow(r)
<1>1. /\ q \in [table : EngineeringTables,
                refs : UNION {[Columns(t) -> Ids \cup {Null}] : t \in EngineeringTables},
                doc : Docs \cup {Null}, method : {Manual, Resolver, Worker}, sides : Seq(Ids),
                code : Codes, raced : BOOLEAN]
      /\ q.refs \in [Columns(q.table) -> Ids \cup {Null}]
  BY DEF IsRow, AnyRow
<1>2. Marked(q, r) /\ r \in AnyRow
  BY <1>1 DEF Marked, AnyRow
<1>. QED BY <1>1, <1>2 DEF IsRow, Marked

\* What marking keeps.
Remains(d, e, M) ==
  /\ Live(e) = Live(d) /\ \A t : OfTable(e, t) = OfTable(d, t)
  /\ \A i \in Live(d) : \/ i \in M /\ Marked(d.rows[i], e.rows[i])
                        \/ i \notin M /\ e.rows[i] = d.rows[i]
  /\ \A i \in Live(d) : e.rows[i].table = d.rows[i].table /\ e.rows[i].refs = d.rows[i].refs
                        /\ e.rows[i].doc = d.rows[i].doc /\ e.rows[i].method = d.rows[i].method
                        /\ e.rows[i].sides = d.rows[i].sides /\ e.rows[i].code = d.rows[i].code
  /\ \A i : EvidenceOf(e, i) = EvidenceOf(d, i)
  /\ e.evidence = d.evidence /\ e.bindings = d.bindings /\ e.swept = d.swept
  /\ Shape(e)

\* Marks change nothing else.
LEMMA MarksRemain ==
  ASSUME NEW d, Shape(d), NEW M \in SUBSET Live(d), NEW e, Marks(d, e, M)
  PROVE  Remains(d, e, M)
<1>1. \A i \in Ids : e.rows[i] = IF i \in M THEN [d.rows[i] EXCEPT !.raced = TRUE] ELSE d.rows[i]
  BY DEF Marks
<1>2. \A i \in M : i \in Ids /\ d.rows[i] # NoRow /\ IsRow(d.rows[i])
  BY DEF Shape, Live
<1>3. \A i \in M : Marked(d.rows[i], e.rows[i]) /\ IsRow(e.rows[i])
  BY <1>1, <1>2, MarkedRow
<1>4. \A i \in Ids : i \notin M => e.rows[i] = d.rows[i]
  BY <1>1
<1>5. \A i \in M : e.rows[i] # NoRow
  BY <1>3, NoRowIsNoRow DEF IsRow
<1>6. Live(e) = Live(d)
  BY <1>2, <1>4, <1>5 DEF Live
<1>7. \A i \in Live(d) : i \in Ids
  BY DEF Live
<1>8. \A i \in Live(d) : e.rows[i].table = d.rows[i].table /\ e.rows[i].refs = d.rows[i].refs
                        /\ e.rows[i].doc = d.rows[i].doc /\ e.rows[i].method = d.rows[i].method
                        /\ e.rows[i].sides = d.rows[i].sides /\ e.rows[i].code = d.rows[i].code
  BY <1>3, <1>4, <1>7 DEF Marked
<1>9. \A t : OfTable(e, t) = OfTable(d, t)
  BY <1>6, <1>8 DEF OfTable
<1>10. e.evidence = d.evidence /\ e.bindings = d.bindings /\ e.swept = d.swept
  BY DEF Marks
<1>11. \A i : EvidenceOf(e, i) = EvidenceOf(d, i)
  BY <1>10 DEF EvidenceOf
<1>12. Shape(e)
  <2>1. \A i \in Ids : e.rows[i] \in AnyRow \cup {NoRow}
    BY <1>3, <1>4 DEF Shape, IsRow
  <2>2. \A i \in Live(e) : IsRow(e.rows[i])
    BY <1>3, <1>4, <1>6, <1>7 DEF Shape
  <2>3. e.rows \in [Ids -> AnyRow \cup {NoRow}]
    BY <2>1 DEF Marks
  <2>. QED BY <1>10, <2>2, <2>3 DEF Shape, Marks
<1>. QED BY <1>3, <1>4, <1>6, <1>7, <1>8, <1>9, <1>10, <1>11, <1>12 DEF Remains

\* Marking rows that the resolver did not make keeps a database sound and coherent.
LEMMA MarksSound ==
  ASSUME NEW d, Sound(d), Coherent(d), NEW M \in SUBSET Live(d), \A i \in M : d.rows[i].method # Resolver,
         NEW e, Remains(d, e, M)
  PROVE  Sound(e) /\ Coherent(e)
<1>0. Shape(d) /\ KeysOk(d) /\ Bound(d) /\ Makers(d) /\ OwnEvidence(d) /\ Sides(d) /\ Standing(d)
  BY DEF Sound, Coherent
<1>1. /\ Live(e) = Live(d) /\ \A t : OfTable(e, t) = OfTable(d, t)
      /\ \A i \in Live(d) : e.rows[i].table = d.rows[i].table /\ e.rows[i].refs = d.rows[i].refs
                        /\ e.rows[i].doc = d.rows[i].doc /\ e.rows[i].method = d.rows[i].method
                        /\ e.rows[i].sides = d.rows[i].sides /\ e.rows[i].code = d.rows[i].code
      /\ \A i : EvidenceOf(e, i) = EvidenceOf(d, i)
      /\ e.evidence = d.evidence /\ e.bindings = d.bindings /\ e.swept = d.swept /\ Shape(e)
  BY DEF Remains
<1>2. \A i \in Live(d) : Package(e, i) = Package(d, i) /\ Made(e, i) = Made(d, i)
  BY <1>1 DEF Package, Made
<1>3. KeysOk(e)
  <2>1. ASSUME NEW j \in Live(e), NEW f \in ForeignKeys[d.rows[j].table]
        PROVE  \/ /\ d.rows[j].refs[f.col] \in OfTable(e, f.parent)
                  /\ f.packaged => e.rows[d.rows[j].refs[f.col]].refs["package_id"] = d.rows[j].refs["package_id"]
               \/ d.rows[j].refs[f.col] = Null /\ ~f.required
    <3>1. j \in Live(d) /\ OfTable(e, f.parent) = OfTable(d, f.parent)
      BY <1>1
    <3>2. \A r \in OfTable(d, f.parent) : e.rows[r].refs = d.rows[r].refs
      BY <1>1 DEF OfTable
    <3>. QED BY <1>0, <3>1, <3>2 DEF KeysOk
  <2>2. ASSUME NEW j \in Live(e), NEW f \in ForeignKeys[e.rows[j].table], NEW r, r = e.rows[j].refs[f.col]
        PROVE  \/ /\ r \in OfTable(e, f.parent)
                  /\ f.packaged => e.rows[r].refs["package_id"] = e.rows[j].refs["package_id"]
               \/ r = Null /\ ~f.required
    <3>1. e.rows[j].table = d.rows[j].table /\ e.rows[j].refs = d.rows[j].refs
      BY <1>1, <2>2
    <3>. QED BY <2>1, <2>2, <3>1
  <2>. QED BY <2>2 DEF KeysOk
<1>4. Bound(e)
  <2>1. \A i \in Ids : (d.rows[i] = NoRow <=> e.rows[i] = NoRow)
                       /\ (d.rows[i] # NoRow => e.rows[i].table = d.rows[i].table)
    BY <1>1 DEF Live
  <2>2. \A b \in d.bindings : b[2] \in Ids
    BY <1>0 DEF Shape
  <2>. QED BY <1>0, <1>1, <2>1, <2>2 DEF Bound
<1>5. Makers(e)
  <2>1. ASSUME NEW j \in Live(d) PROVE MadeBy(e.rows[j]) /\ OwnRefs(e, e.rows[j])
    <3>1. MadeBy(d.rows[j]) /\ OwnRefs(d, d.rows[j])
      BY <1>0 DEF Makers
    <3>2. MadeBy(e.rows[j])
      <4>1. d.rows[j].method = Resolver => e.rows[j] = d.rows[j]
        BY DEF Remains
      <4>2. d.rows[j].method # Resolver => MadeBy(e.rows[j])
        BY <1>1, <3>1 DEF MadeBy
      <4>. QED BY <3>1, <4>1, <4>2
    <3>3. ASSUME d.rows[j].method # Manual, NEW f \in ForeignKeys[d.rows[j].table], d.rows[j].refs[f.col] # Null
          PROVE  Made(e, d.rows[j].refs[f.col])
                 /\ (f.col # "package_id" => Package(e, d.rows[j].refs[f.col]) = d.rows[j].refs["package_id"])
      <4>1. d.rows[j].refs[f.col] \in Live(d)
        BY <1>0, <3>3, RefsLive
      <4>. QED BY <1>2, <3>1, <3>3, <4>1 DEF OwnRefs
    <3>4. OwnRefs(e, e.rows[j])
      BY <1>1, <3>3 DEF OwnRefs
    <3>. QED BY <3>2, <3>4
  <2>. QED BY <1>1, <2>1 DEF Makers
<1>6. OwnEvidence(e)
  <2>1. ASSUME NEW j \in Live(d), d.rows[j].method = Resolver, NEW x \in EvidenceOf(d, j)
        PROVE  e.evidence[x] = e.rows[Package(e, j)].code
    <3>1. d.rows[j].table \notin Unpackaged
      BY <1>0, <2>1 DEF Makers, MadeBy, ResolverTables, Unpackaged
    <3>2. Package(d, j) \in Live(d)
      BY <1>0, <3>1, PackageLive
    <3>. QED BY <1>0, <1>1, <1>2, <2>1, <3>2 DEF OwnEvidence
  <2>. QED BY <1>1, <2>1 DEF OwnEvidence
<1>7. Sides(e)
  <2>1. SUFFICES ASSUME NEW c \in OfTable(e, "engineering_conflicts"), e.rows[c].method = Resolver,
                        NEW s \in Range(e.rows[c].sides)
                 PROVE  /\ s \in Live(e) /\ e.rows[s].method = Resolver /\ Package(e, s) = Package(e, c)
                        /\ e.rows[s].table # "engineering_conflicts"
    BY DEF Sides
  <2>2. c \in OfTable(d, "engineering_conflicts") /\ c \in Live(d)
    BY <1>1 DEF OfTable
  <2>3. d.rows[c].method = Resolver /\ s \in Range(d.rows[c].sides)
    BY <1>1, <2>1, <2>2
  <2>4. /\ s \in Live(d) /\ d.rows[s].method = Resolver /\ Package(d, s) = Package(d, c)
        /\ d.rows[s].table # "engineering_conflicts"
    BY <1>0, <2>2, <2>3 DEF Sides
  <2>. QED BY <1>1, <1>2, <2>2, <2>4
<1>8. Standing(e)
  <2>1. SUFFICES ASSUME NEW n \in OfTable(e, "engineering_entities"), e.rows[n].method = Resolver
                 PROVE  Stands(e, n)
    BY DEF Standing
  <2>2. n \in OfTable(d, "engineering_entities") /\ d.rows[n].method = Resolver
    BY <1>1, <2>1 DEF OfTable
  <2>3. \A x : x \in Merged(e, n) <=> x \in Merged(d, n)
    BY <1>1 DEF Merged, OfTable
  <2>4. Stands(d, n)
    BY <1>0, <2>2 DEF Standing
  <2>. QED BY <1>1, <2>3, <2>4 DEF Stands
<1>. QED BY <1>1, <1>3, <1>4, <1>5, <1>6, <1>7, <1>8 DEF Sound, Coherent

\* Marks do not matter to packages and what is read of them.
LEMMA MarksPackages ==
  ASSUME NEW d, Sound(d), NEW M \in SUBSET Live(d), NEW e, Remains(d, e, M), NEW rec, NEW del, NEW x \in Docs,
         PackageOk(d, rec, del, x)
  PROVE  PackageOk(e, rec, del, x) /\ \A hx \in Holding : HeldOk(d, rec, del, hx, x) => HeldOk(e, rec, del, hx, x)
<1>1. /\ Live(e) = Live(d) /\ \A t : OfTable(e, t) = OfTable(d, t)
      /\ \A i \in Live(d) : e.rows[i].table = d.rows[i].table /\ e.rows[i].refs = d.rows[i].refs
                        /\ e.rows[i].doc = d.rows[i].doc /\ e.rows[i].method = d.rows[i].method
                        /\ e.rows[i].sides = d.rows[i].sides /\ e.rows[i].code = d.rows[i].code
      /\ \A i : EvidenceOf(e, i) = EvidenceOf(d, i)
      /\ e.evidence = d.evidence /\ e.bindings = d.bindings
  BY DEF Remains
<1>2. \A t : \A i \in OfTable(d, t) : i \in Live(d)
  BY DEF OfTable
<1>3. \A p : For(x, e, p) <=> For(x, d, p)
  BY <1>1, <1>2 DEF For
<1>4. \A p : x \in MembersOf(d, p) => x \in MembersOf(e, p)
  <2>1. SUFFICES ASSUME NEW p, NEW i \in InPackageOf(d, "package_documents", p), d.rows[i].doc = x
                 PROVE  x \in MembersOf(e, p)
    BY DEF MembersOf
  <2>2. i \in InPackageOf(e, "package_documents", p) /\ e.rows[i].doc = x
    BY <1>1, <1>2, <2>1 DEF InPackageOf
  <2>. QED BY <2>2 DEF MembersOf
<1>5. PackageOk(e, rec, del, x)
  BY <1>1, <1>3, <1>4 DEF PackageOk
<1>6. ASSUME NEW hx \in Holding, HeldOk(d, rec, del, hx, x) PROVE HeldOk(e, rec, del, hx, x)
  <2>1. ASSUME NEW b \in e.bindings, e.rows[b[2]] # NoRow, ~e.rows[b[2]].raced
        PROVE  b \in d.bindings /\ d.rows[b[2]] # NoRow /\ ~d.rows[b[2]].raced
    <3>1. b[2] \in Ids /\ b \in d.bindings
      BY <1>1, <2>1 DEF Sound, Shape
    <3>2. b[2] \in Live(d)
      BY <1>1, <2>1, <3>1 DEF Live
    <3>. QED BY <2>1, <3>1, <3>2 DEF Remains, Marked, Live
  <2>2. (\A s : Seen(d, x, s) => Seen(e, x, s)) /\ \A s : ReadAll(d, x, s) => ReadAll(e, x, s)
    BY <1>1, <2>1 DEF Seen, ReadAll
  <2>3. ASSUME NEW i \in Live(d), d.rows[i].method = Resolver
        PROVE  e.rows[Package(e, i)].code = d.rows[Package(d, i)].code
    <3>1. d.rows[i].table \notin Unpackaged
      BY <2>3 DEF Sound, Makers, MadeBy, ResolverTables, Unpackaged
    <3>2. Package(d, i) \in Live(d)
      BY <3>1, PackageLive DEF Sound
    <3>3. Package(e, i) = Package(d, i)
      BY <1>1 DEF Package
    <3>. QED BY <1>1, <3>2, <3>3
  <2>4. EvidenceAt(e, x) = EvidenceAt(d, x)
    BY <1>1 DEF EvidenceAt
  <2>5. hx.phase = "read" =>
         /\ \A i \in hx.rows \cap Live(e) : e.rows[i].method = Resolver => e.rows[Package(e, i)].code = x
         /\ ReadAll(e, x, hx.rows)
    BY <1>1, <1>6, <2>2, <2>3 DEF HeldOk
  <2>6. hx.phase = "dropped" => \A i \in hx.rows : EvidenceOf(e, i) \subseteq EvidenceAt(e, x)
    BY <1>1, <1>6, <2>4 DEF HeldOk
  <2>. QED BY <1>6, <2>2, <2>5, <2>6 DEF HeldOk
<1>. QED BY <1>5, <1>6

\* DeleteDrop: what it does not take keeps evidence that nobody is removing, or is marked.
LEMMA DeleteDropStep ==
  ASSUME IInv, NEW doc \in Docs, DeleteDrop(doc)
  PROVE  IInv'
<1>0. /\ Sound(Db) /\ Coherent(Db) /\ Settled(recorded, deleted, held)
      /\ \A x \in Docs : PackageOk(Db, recorded, deleted, x) /\ HeldOk(Db, recorded, deleted, held[x], x)
      /\ \A i \in Live(Db) : Grounding(Db, held, i)
  BY DEF IInv, Good
<1>. DEFINE M == {i \in held[doc].rows \cap Live(Db) :
                    \E y \in EvidenceOf(Db, i) : evidence[y] # doc /\ held[evidence[y]].phase = "dropped"}
<1>1. /\ held[doc].phase = "read" /\ refusal' = Null /\ recorded' = recorded /\ deleted' = deleted
      /\ held' = [held EXCEPT ![doc].phase = "dropped", ![doc].rows = unbound(Db, doc, @)]
      /\ evidence' = evidence /\ bindings' = bindings /\ swept' = swept
  BY DEF DeleteDrop
<1>2. rows' = [i \in Ids |-> IF i \in M THEN [rows[i] EXCEPT !.raced = TRUE] ELSE rows[i]]
  BY DEF DeleteDrop
<1>3. PICK e : e = Db'
  OBVIOUS
<1>4. Db.rows = rows /\ Db.evidence = evidence /\ Db.bindings = bindings /\ Db.swept = swept
  BY DEF Db
<1>5. Marks(Db, e, M)
  <2>1. IsDb(e) /\ e.rows = rows' /\ e.evidence = evidence' /\ e.bindings = bindings' /\ e.swept = swept'
    BY <1>3 DEF Db, IsDb
  <2>. HIDE DEF M
  <2>. QED BY <1>1, <1>2, <1>4, <2>1 DEF Marks
<1>6. M \in SUBSET Live(Db) /\ \A i \in M : Db.rows[i].method # Resolver
  <2>1. ASSUME NEW i \in M, Db.rows[i].method = Resolver PROVE FALSE
    <3>1. Db.rows[Package(Db, i)].code = doc
      BY <1>0, <1>1, <1>4, <2>1 DEF HeldOk
    <3>2. \A y \in EvidenceOf(Db, i) : evidence[y] = doc
      BY <1>0, <1>4, <2>1, <3>1 DEF Sound, OwnEvidence
    <3>. QED BY <2>1, <3>2
  <2>. QED BY <2>1
<1>7. PICK x : x = [held[doc] EXCEPT !.phase = "dropped", !.rows = unbound(Db, doc, held[doc].rows)]
  OBVIOUS
<1>8. held' = [held EXCEPT ![doc] = x]
  BY <1>0, <1>1, <1>7 DEF Settled
<1>9. /\ x.phase = "dropped" /\ x.package = recorded[doc] /\ x \in Holding
      /\ \A i : i \in x.rows <=> i \in held[doc].rows /\ EvidenceOf(Db, i) \subseteq EvidenceAt(Db, doc)
  <2>1. held[doc] \in Holding /\ held[doc].package = recorded[doc]
    BY <1>0, <1>1 DEF Settled, HeldOk
  <2>2. \A i : i \in unbound(Db, doc, held[doc].rows) <=>
               i \in held[doc].rows /\ EvidenceOf(Db, i) \subseteq EvidenceAt(Db, doc)
    BY DEF unbound
  <2>3. unbound(Db, doc, held[doc].rows) \in SUBSET Ids
    BY <2>1, <2>2 DEF Holding
  <2>. QED BY <1>7, <2>1, <2>2, <2>3 DEF Holding, Phases
<1>10. Settled(recorded, deleted, held') /\ held'[doc] = x /\ \A y \in Docs : y # doc => held'[y] = held[y]
  BY <1>0, <1>8, <1>9 DEF Settled
<1>. HIDE DEF M
<1>11. Remains(Db, e, M)
  BY <1>0, <1>5, <1>6, MarksRemain DEF Sound
<1>12. Sound(e) /\ Coherent(e)
  BY <1>0, <1>6, <1>11, MarksSound
<1>13. ASSUME NEW y \in Docs PROVE PackageOk(e, recorded, deleted, y) /\ HeldOk(e, recorded, deleted, held'[y], y)
  <2>1. PackageOk(e, recorded, deleted, y) /\ \A hx \in Holding : HeldOk(Db, recorded, deleted, hx, y) => HeldOk(e, recorded, deleted, hx, y)
    BY <1>0, <1>6, <1>11, MarksPackages
  <2>2. HeldOk(Db, recorded, deleted, x, doc)
    BY <1>9 DEF HeldOk
  <2>3. HeldOk(Db, recorded, deleted, held'[y], y) /\ held'[y] \in Holding
    BY <1>0, <1>10, <2>2 DEF Settled
  <2>. QED BY <2>1, <2>3
<1>14. ASSUME NEW i \in Live(e) PROVE Grounding(e, held', i)
  <2>1. SUFFICES ASSUME Grounds(e.rows[i].table), ~e.rows[i].raced
                 PROVE  /\ EvidenceOf(e, i) # {}
                        /\ Dropping(held', i) \/ \E y \in EvidenceOf(e, i) : held'[e.evidence[y]].phase # "dropped"
    BY DEF Grounding
  <2>2. i \in Live(Db) /\ i \notin M /\ e.rows[i] = rows[i] /\ EvidenceOf(e, i) = EvidenceOf(Db, i) /\ e.evidence = evidence
    BY <1>4, <1>11, <2>1 DEF Remains, Marked
  <2>3. /\ EvidenceOf(Db, i) # {}
        /\ Dropping(held, i) \/ \E y \in EvidenceOf(Db, i) : held[evidence[y]].phase # "dropped"
    BY <1>0, <1>4, <2>1, <2>2 DEF Grounding
  <2>4. ASSUME NEW y \in EvidenceOf(Db, i) PROVE evidence[y] \in Docs /\ <<y, i>> \in bindings /\ y \in EvidenceIds
    <3>1. PICK b \in bindings : b[1] = y /\ b[2] = i
      BY <1>4, <2>4 DEF EvidenceOf
    <3>2. y \in EvidenceIds /\ evidence[y] # Null /\ b = <<y, i>>
      BY <1>0, <1>4, <3>1 DEF Sound, Shape, Bound
    <3>3. evidence[y] \in Docs
      BY <1>0, <1>4, <3>2 DEF Sound, Shape
    <3>. QED BY <3>1, <3>2, <3>3
  <2>5. CASE Dropping(held, i)
    <3>1. Dropping(held', i)
      BY <1>1, <1>10, <2>5 DEF Dropping
    <3>. QED BY <2>2, <2>3, <3>1
  <2>6. CASE \E y \in EvidenceOf(Db, i) : held[evidence[y]].phase # "dropped"
    <3>1. PICK y \in EvidenceOf(Db, i) : held[evidence[y]].phase # "dropped"
      BY <2>6
    <3>2. CASE evidence[y] # doc
      BY <1>10, <2>2, <2>3, <2>4, <3>1, <3>2
    <3>3. CASE evidence[y] = doc
      <4>1. i \in held[doc].rows
        <5>1. <<y, i>> \in Db.bindings /\ Db.evidence[y] = doc /\ Db.rows[i] # NoRow /\ ~Db.rows[i].raced
          BY <1>4, <2>1, <2>2, <2>4, <3>3 DEF Live
        <5>2. ReadAll(Db, doc, held[doc].rows)
          BY <1>0, <1>1 DEF HeldOk
        <5>3. LET b == <<y, i>> IN b[1] = y /\ b[2] = i
          OBVIOUS
        <5>. QED BY <5>1, <5>2, <5>3 DEF ReadAll
      <4>2. CASE EvidenceOf(Db, i) \subseteq EvidenceAt(Db, doc)
        <5>1. Dropping(held', i)
          BY <1>9, <1>10, <4>1, <4>2 DEF Dropping
        <5>. QED BY <2>2, <2>3, <5>1
      <4>3. CASE ~(EvidenceOf(Db, i) \subseteq EvidenceAt(Db, doc))
        <5>1. PICK z \in EvidenceOf(Db, i) : z \notin EvidenceAt(Db, doc)
          BY <4>3
        <5>2. evidence[z] # doc /\ evidence[z] \in Docs
          BY <1>4, <2>4, <5>1 DEF EvidenceAt
        <5>3. held[evidence[z]].phase # "dropped"
          BY <2>2, <4>1, <5>1, <5>2 DEF M
        <5>. QED BY <1>10, <2>2, <2>3, <5>1, <5>2, <5>3
      <4>. QED BY <4>2, <4>3
    <3>. QED BY <3>2, <3>3
  <2>. QED BY <2>3, <2>5, <2>6
<1>15. Good(e, recorded, deleted, held')
  BY <1>10, <1>12, <1>13, <1>14 DEF Good
<1>. QED BY <1>1, <1>3, <1>15 DEF IInv

----------------------------------------------------------------------------
(* What callers add. *)

\* A reference that the caller of an engineering.py function may give.
KeyFits(d, refs, f) ==
  IF f.col \in DOMAIN refs
    THEN \/ /\ refs[f.col] \in OfTable(d, f.parent)
            /\ f.packaged => d.rows[refs[f.col]].refs["package_id"] = refs["package_id"]
         \/ refs[f.col] = Null /\ ~f.required
    ELSE ~f.required

RefsFit(d, t, refs) ==
  /\ \A c \in DOMAIN refs : refs[c] \in Ids \cup {Null}
  /\ \A f \in ForeignKeys[t] : KeyFits(d, refs, f)
  /\ t \notin Unpackaged => "package_id" \in DOMAIN refs
  /\ {"canonical_entity_id", "canonical_relation_id"} \cap DOMAIN refs = {}

\* row is a row of a caller's.
Fills(row, r) ==
  /\ IsFields(row) /\ row.table = r.table /\ row.refs = r.refs /\ row.method = r.method
  /\ row.sides = r.sides /\ row.code = r.code /\ row.raced = FALSE /\ row.doc \in Docs \cup {Null}

Called(d, row) ==
  \E t \in EngineeringTables : \E refs : RefsFit(d, t, refs) /\ Fills(row, Row(t, refs))

\* The row itself, or with its document.
LEMMA CalledIs ==
  ASSUME NEW d, NEW t \in EngineeringTables, NEW refs, RefsFit(d, t, refs), NEW row, NEW doc \in Docs \cup {Null},
         row = Row(t, refs) \/ row = [Row(t, refs) EXCEPT !.doc = doc]
  PROVE  Called(d, row)
<1>1. PICK r : r = Row(t, refs)
  OBVIOUS
<1>2. Blank(r, t, refs)
  BY <1>1, RowFields DEF RefsFit
<1>3. CASE row = r
  <2>1. Fills(row, r)
    BY <1>2, <1>3 DEF Fills, Blank
  <2>. QED BY <1>1, <2>1 DEF Called
<1>4. CASE row = [r EXCEPT !.doc = doc]
  <2>1. IsFields(row) /\ row.table = r.table /\ row.refs = r.refs /\ row.doc = doc /\ row.method = r.method
        /\ row.sides = r.sides /\ row.code = r.code /\ row.raced = r.raced
    BY <1>2, <1>4 DEF Blank, IsFields
  <2>2. Fills(row, r)
    BY <1>2, <2>1 DEF Fills, Blank
  <2>. QED BY <1>1, <2>2 DEF Called
<1>. QED BY <1>1, <1>3, <1>4

\* The tables.
LEMMA TablesAre ==
  EngineeringTables =
    {"machine_packages", "machines", "assemblies", "package_documents", "package_assignments",
     "engineering_entities", "engineering_entity_candidates", "engineering_relations",
     "engineering_relation_candidates", "plc_programs", "plc_blocks", "plc_variables", "plc_references",
     "engineering_conflicts", "unsupported_constructs", "human_overrides", "derived_behavior_claims"}
BY KeyTable DEF Keys

\* A program is in a package, and on a machine or on none.
LEMMA ProgramIs ==
  ASSUME NEW row, row \in create_plc_program
  PROVE  \E p \in Packages : \E m \in OrNull("machines") : row = Row("plc_programs", [package_id |-> p, machine_id |-> m])
<1>1. PICK A : A = Packages
  OBVIOUS
<1>2. PICK B : B = OrNull("machines")
  OBVIOUS
<1>3. row \in {Row("plc_programs", [package_id |-> p, machine_id |-> m]) : p \in A, m \in B}
  BY <1>1, <1>2 DEF create_plc_program
<1>4. \E p \in A : \E m \in B : row = Row("plc_programs", [package_id |-> p, machine_id |-> m])
  BY <1>3
<1>. QED BY <1>1, <1>2, <1>4

\* What a caller adds has references that the foreign keys accept.
LEMMA AdditionsFit ==
  ASSUME NEW row \in Additions
  PROVE  Called(Db, row)
<1>1. ASSUME row \in create_package PROVE Called(Db, row)
  <2>1. row = Row("machine_packages", << >>)
    BY <1>1 DEF create_package
  <2>2. PICK refs : refs = << >>
    OBVIOUS
  <2>3. DOMAIN refs = {}
    BY <2>2
  <2>4. "machine_packages" \in EngineeringTables
    BY TablesAre
  <2>6. \A c \in DOMAIN refs : refs[c] \in Ids \cup {Null}
    BY <2>3 DEF OfTable, Live
  <2>7. ASSUME NEW f \in ForeignKeys["machine_packages"] PROVE KeyFits(Db, refs, f)
    BY <2>3, <2>4, KeyCases, KeyFields, SetsNull DEF KeyFits, KeyCase, Owned, Unpackaged
  <2>8. RefsFit(Db, "machine_packages", refs)
    BY <2>3, <2>6, <2>7 DEF RefsFit, Unpackaged
  <2>. QED BY <2>1, <2>2, <2>4, <2>8, CalledIs
<1>2. ASSUME row \in add_package_document PROVE Called(Db, row)
  <2>01. PICK p \in Packages : \E doc \in Unlocked : row = [Row("package_documents", [package_id |-> p]) EXCEPT !.doc = doc]
    BY <1>2 DEF add_package_document
  <2>1. PICK doc \in Unlocked : row = [Row("package_documents", [package_id |-> p]) EXCEPT !.doc = doc]
    BY <2>01
  <2>2. PICK refs : refs = [package_id |-> p]
    OBVIOUS
  <2>3. DOMAIN refs = {"package_id"} /\ refs["package_id"] = p
    BY <2>2
  <2>4. "package_documents" \in EngineeringTables
    BY TablesAre
  <2>5. p \in OfTable(Db, "machine_packages")
    BY DEF Packages, Rows, OrNull, InSame, InPackageOf
  <2>6. \A c \in DOMAIN refs : refs[c] \in Ids \cup {Null}
    BY <2>3, <2>5 DEF OfTable, Live
  <2>7. ASSUME NEW f \in ForeignKeys["package_documents"] PROVE KeyFits(Db, refs, f)
    BY <2>3, <2>4, <2>5, KeyCases, KeyFields, SetsNull DEF KeyFits, KeyCase, Owned, Unpackaged
  <2>8. RefsFit(Db, "package_documents", refs)
    BY <2>3, <2>6, <2>7 DEF RefsFit, Unpackaged
  <2>9. doc \in Docs \cup {Null}
    BY DEF Unlocked
  <2>. QED BY <2>1, <2>2, <2>4, <2>8, <2>9, CalledIs
<1>3. ASSUME row \in create_machine PROVE Called(Db, row)
  <2>1. PICK p \in Packages : row = Row("machines", [package_id |-> p])
    BY <1>3 DEF create_machine
  <2>2. PICK refs : refs = [package_id |-> p]
    OBVIOUS
  <2>3. DOMAIN refs = {"package_id"} /\ refs["package_id"] = p
    BY <2>2
  <2>4. "machines" \in EngineeringTables
    BY TablesAre
  <2>5. p \in OfTable(Db, "machine_packages")
    BY DEF Packages, Rows, OrNull, InSame, InPackageOf
  <2>6. \A c \in DOMAIN refs : refs[c] \in Ids \cup {Null}
    BY <2>3, <2>5 DEF OfTable, Live
  <2>7. ASSUME NEW f \in ForeignKeys["machines"] PROVE KeyFits(Db, refs, f)
    BY <2>3, <2>4, <2>5, KeyCases, KeyFields, SetsNull DEF KeyFits, KeyCase, Owned, Unpackaged
  <2>8. RefsFit(Db, "machines", refs)
    BY <2>3, <2>6, <2>7 DEF RefsFit, Unpackaged
  <2>. QED BY <2>1, <2>2, <2>4, <2>8, CalledIs
<1>4. ASSUME row \in create_assembly PROVE Called(Db, row)
  <2>01. PICK p \in Packages : \E m \in Rows("machines") : \E a \in OrNull("assemblies") : row = Row("assemblies", [package_id |-> p, machine_id |-> m, parent_assembly_id |-> a])
    BY <1>4 DEF create_assembly
  <2>02. PICK m \in Rows("machines") : \E a \in OrNull("assemblies") : row = Row("assemblies", [package_id |-> p, machine_id |-> m, parent_assembly_id |-> a])
    BY <2>01
  <2>1. PICK a \in OrNull("assemblies") : row = Row("assemblies", [package_id |-> p, machine_id |-> m, parent_assembly_id |-> a])
    BY <2>02
  <2>2. PICK refs : refs = [package_id |-> p, machine_id |-> m, parent_assembly_id |-> a]
    OBVIOUS
  <2>3. DOMAIN refs = {"package_id", "machine_id", "parent_assembly_id"} /\ refs["package_id"] = p /\ refs["machine_id"] = m /\ refs["parent_assembly_id"] = a
    BY <2>2
  <2>4. "assemblies" \in EngineeringTables
    BY TablesAre
  <2>5. p \in OfTable(Db, "machine_packages") /\ m \in OfTable(Db, "machines") /\ (a = Null \/ a \in OfTable(Db, "assemblies"))
    BY DEF Packages, Rows, OrNull, InSame, InPackageOf
  <2>6. \A c \in DOMAIN refs : refs[c] \in Ids \cup {Null}
    BY <2>3, <2>5 DEF OfTable, Live
  <2>7. ASSUME NEW f \in ForeignKeys["assemblies"] PROVE KeyFits(Db, refs, f)
    BY <2>3, <2>4, <2>5, KeyCases, KeyFields, SetsNull DEF KeyFits, KeyCase, Owned, Unpackaged
  <2>8. RefsFit(Db, "assemblies", refs)
    BY <2>3, <2>6, <2>7 DEF RefsFit, Unpackaged
  <2>. QED BY <2>1, <2>2, <2>4, <2>8, CalledIs
<1>5. ASSUME row \in create_assignment PROVE Called(Db, row)
  <2>00. PICK p \in Packages : \E m \in OrNull("machines") : \E a \in OrNull("assemblies") : \E doc \in Unlocked :
           row = [Row("package_assignments", [package_id |-> p, machine_id |-> m, assembly_id |-> a]) EXCEPT !.doc = doc]
    BY <1>5 DEF create_assignment, OrNull, Packages
  <2>02. PICK m \in OrNull("machines") : \E a \in OrNull("assemblies") : \E doc \in Unlocked :
           row = [Row("package_assignments", [package_id |-> p, machine_id |-> m, assembly_id |-> a]) EXCEPT !.doc = doc]
    BY <2>00
  <2>03. PICK a \in OrNull("assemblies") : \E doc \in Unlocked :
           row = [Row("package_assignments", [package_id |-> p, machine_id |-> m, assembly_id |-> a]) EXCEPT !.doc = doc]
    BY <2>02
  <2>01. PICK doc \in Unlocked :
           row = [Row("package_assignments", [package_id |-> p, machine_id |-> m, assembly_id |-> a]) EXCEPT !.doc = doc]
    BY <2>03
  <2>1. row = [Row("package_assignments", [package_id |-> p, machine_id |-> m, assembly_id |-> a]) EXCEPT !.doc = doc]
    BY <2>01
  <2>2. PICK refs : refs = [package_id |-> p, machine_id |-> m, assembly_id |-> a]
    OBVIOUS
  <2>3. /\ DOMAIN refs = {"package_id", "machine_id", "assembly_id"}
        /\ refs["package_id"] = p /\ refs["machine_id"] = m /\ refs["assembly_id"] = a
    BY <2>2
  <2>4. "package_assignments" \in EngineeringTables
    BY TablesAre
  <2>5. p \in OfTable(Db, "machine_packages") /\ (m = Null \/ m \in OfTable(Db, "machines"))
       /\ (a = Null \/ a \in OfTable(Db, "assemblies"))
    BY DEF Packages, Rows, OrNull, InSame, InPackageOf
  <2>6. \A c \in DOMAIN refs : refs[c] \in Ids \cup {Null}
    BY <2>3, <2>5 DEF OfTable, Live
  <2>7. ASSUME NEW f \in ForeignKeys["package_assignments"] PROVE KeyFits(Db, refs, f)
    BY <2>3, <2>4, <2>5, KeyCases, KeyFields, SetsNull DEF KeyFits, KeyCase, Owned, Unpackaged
  <2>8. RefsFit(Db, "package_assignments", refs)
    BY <2>3, <2>6, <2>7 DEF RefsFit, Unpackaged
  <2>9. doc \in Docs \cup {Null}
    BY DEF Unlocked
  <2>. QED BY <2>1, <2>2, <2>4, <2>8, <2>9, CalledIs
<1>6. ASSUME row \in create_entity_candidate PROVE Called(Db, row)
  <2>1. PICK p \in Packages : row = Row("engineering_entity_candidates", [package_id |-> p])
    BY <1>6 DEF create_entity_candidate
  <2>2. PICK refs : refs = [package_id |-> p]
    OBVIOUS
  <2>3. DOMAIN refs = {"package_id"} /\ refs["package_id"] = p
    BY <2>2
  <2>4. "engineering_entity_candidates" \in EngineeringTables
    BY TablesAre
  <2>5. p \in OfTable(Db, "machine_packages")
    BY DEF Packages, Rows, OrNull, InSame, InPackageOf
  <2>6. \A c \in DOMAIN refs : refs[c] \in Ids \cup {Null}
    BY <2>3, <2>5 DEF OfTable, Live
  <2>7. ASSUME NEW f \in ForeignKeys["engineering_entity_candidates"] PROVE KeyFits(Db, refs, f)
    BY <2>3, <2>4, <2>5, KeyCases, KeyFields, SetsNull DEF KeyFits, KeyCase, Owned, Unpackaged
  <2>8. RefsFit(Db, "engineering_entity_candidates", refs)
    BY <2>3, <2>6, <2>7 DEF RefsFit, Unpackaged
  <2>. QED BY <2>1, <2>2, <2>4, <2>8, CalledIs
<1>7. ASSUME row \in create_canonical_entity PROVE Called(Db, row)
  <2>01. PICK p \in Packages : \E m \in OrNull("machines") : \E a \in OrNull("assemblies") : row = Row("engineering_entities", [package_id |-> p, machine_id |-> m, assembly_id |-> a])
    BY <1>7 DEF create_canonical_entity, OrNull, Packages
  <2>02. PICK m \in OrNull("machines") : \E a \in OrNull("assemblies") : row = Row("engineering_entities", [package_id |-> p, machine_id |-> m, assembly_id |-> a])
    BY <2>01
  <2>1. PICK a \in OrNull("assemblies") : row = Row("engineering_entities", [package_id |-> p, machine_id |-> m, assembly_id |-> a])
    BY <2>02
  <2>2. PICK refs : refs = [package_id |-> p, machine_id |-> m, assembly_id |-> a]
    OBVIOUS
  <2>3. DOMAIN refs = {"package_id", "machine_id", "assembly_id"} /\ refs["package_id"] = p /\ refs["machine_id"] = m /\ refs["assembly_id"] = a
    BY <2>2
  <2>4. "engineering_entities" \in EngineeringTables
    BY TablesAre
  <2>5. p \in OfTable(Db, "machine_packages") /\ (m = Null \/ m \in OfTable(Db, "machines")) /\ (a = Null \/ a \in OfTable(Db, "assemblies"))
    BY DEF Packages, Rows, OrNull, InSame, InPackageOf
  <2>6. \A c \in DOMAIN refs : refs[c] \in Ids \cup {Null}
    BY <2>3, <2>5 DEF OfTable, Live
  <2>7. ASSUME NEW f \in ForeignKeys["engineering_entities"] PROVE KeyFits(Db, refs, f)
    BY <2>3, <2>4, <2>5, KeyCases, KeyFields, SetsNull DEF KeyFits, KeyCase, Owned, Unpackaged
  <2>8. RefsFit(Db, "engineering_entities", refs)
    BY <2>3, <2>6, <2>7 DEF RefsFit, Unpackaged
  <2>. QED BY <2>1, <2>2, <2>4, <2>8, CalledIs
<1>8. ASSUME row \in create_canonical_relation PROVE Called(Db, row)
  <2>0. PICK p \in Packages : \E e \in InSame("engineering_entities", p) \X InSame("engineering_entities", p) :
          row = Row("engineering_relations", [package_id |-> p, source_entity_id |-> e[1], target_entity_id |-> e[2]])
    BY <1>8 DEF create_canonical_relation
  <2>02. PICK s \in InSame("engineering_entities", p) : \E t \in InSame("engineering_entities", p) :
          row = Row("engineering_relations", [package_id |-> p, source_entity_id |-> s, target_entity_id |-> t])
    BY <2>0
  <2>1. PICK t \in InSame("engineering_entities", p) : row = Row("engineering_relations", [package_id |-> p, source_entity_id |-> s, target_entity_id |-> t])
    BY <2>02
  <2>2. PICK refs : refs = [package_id |-> p, source_entity_id |-> s, target_entity_id |-> t]
    OBVIOUS
  <2>3. DOMAIN refs = {"package_id", "source_entity_id", "target_entity_id"} /\ refs["package_id"] = p /\ refs["source_entity_id"] = s /\ refs["target_entity_id"] = t
    BY <2>2
  <2>4. "engineering_relations" \in EngineeringTables
    BY TablesAre
  <2>5. p \in OfTable(Db, "machine_packages") /\ (s \in OfTable(Db, "engineering_entities") /\ Db.rows[s].refs["package_id"] = p) /\ (t \in OfTable(Db, "engineering_entities") /\ Db.rows[t].refs["package_id"] = p)
    BY DEF Packages, Rows, OrNull, InSame, InPackageOf
  <2>6. \A c \in DOMAIN refs : refs[c] \in Ids \cup {Null}
    BY <2>3, <2>5 DEF OfTable, Live
  <2>7. ASSUME NEW f \in ForeignKeys["engineering_relations"] PROVE KeyFits(Db, refs, f)
    BY <2>3, <2>4, <2>5, KeyCases, KeyFields, SetsNull DEF KeyFits, KeyCase, Owned, Unpackaged
  <2>8. RefsFit(Db, "engineering_relations", refs)
    BY <2>3, <2>6, <2>7 DEF RefsFit, Unpackaged
  <2>. QED BY <2>1, <2>2, <2>4, <2>8, CalledIs
<1>9. ASSUME row \in create_relation_candidate PROVE Called(Db, row)
  <2>0. PICK p \in Packages : \E e \in (InSame("engineering_entities", p) \cup {Null}) \X (InSame("engineering_entities", p) \cup {Null}) :
          row = Row("engineering_relation_candidates", [package_id |-> p, source_entity_id |-> e[1], target_entity_id |-> e[2]])
    BY <1>9 DEF create_relation_candidate
  <2>02. PICK s \in InSame("engineering_entities", p) \cup {Null} : \E t \in InSame("engineering_entities", p) \cup {Null} :
          row = Row("engineering_relation_candidates", [package_id |-> p, source_entity_id |-> s, target_entity_id |-> t])
    BY <2>0
  <2>1. PICK t \in InSame("engineering_entities", p) \cup {Null} : row = Row("engineering_relation_candidates", [package_id |-> p, source_entity_id |-> s, target_entity_id |-> t])
    BY <2>02
  <2>2. PICK refs : refs = [package_id |-> p, source_entity_id |-> s, target_entity_id |-> t]
    OBVIOUS
  <2>3. DOMAIN refs = {"package_id", "source_entity_id", "target_entity_id"} /\ refs["package_id"] = p /\ refs["source_entity_id"] = s /\ refs["target_entity_id"] = t
    BY <2>2
  <2>4. "engineering_relation_candidates" \in EngineeringTables
    BY TablesAre
  <2>5. p \in OfTable(Db, "machine_packages") /\ (s = Null \/ (s \in OfTable(Db, "engineering_entities") /\ Db.rows[s].refs["package_id"] = p)) /\ (t = Null \/ (t \in OfTable(Db, "engineering_entities") /\ Db.rows[t].refs["package_id"] = p))
    BY DEF Packages, Rows, OrNull, InSame, InPackageOf
  <2>6. \A c \in DOMAIN refs : refs[c] \in Ids \cup {Null}
    BY <2>3, <2>5 DEF OfTable, Live
  <2>7. ASSUME NEW f \in ForeignKeys["engineering_relation_candidates"] PROVE KeyFits(Db, refs, f)
    BY <2>3, <2>4, <2>5, KeyCases, KeyFields, SetsNull DEF KeyFits, KeyCase, Owned, Unpackaged
  <2>8. RefsFit(Db, "engineering_relation_candidates", refs)
    BY <2>3, <2>6, <2>7 DEF RefsFit, Unpackaged
  <2>. QED BY <2>1, <2>2, <2>4, <2>8, CalledIs
<1>10. ASSUME row \in create_plc_program PROVE Called(Db, row)
  <2>01. PICK p \in Packages : \E m \in OrNull("machines") : row = Row("plc_programs", [package_id |-> p, machine_id |-> m])
    BY <1>10, ProgramIs
  <2>1. PICK m \in OrNull("machines") : row = Row("plc_programs", [package_id |-> p, machine_id |-> m])
    BY <2>01
  <2>2. PICK refs : refs = [package_id |-> p, machine_id |-> m]
    OBVIOUS
  <2>3. DOMAIN refs = {"package_id", "machine_id"} /\ refs["package_id"] = p /\ refs["machine_id"] = m
    BY <2>2
  <2>4. "plc_programs" \in EngineeringTables
    BY TablesAre
  <2>5. p \in OfTable(Db, "machine_packages") /\ (m = Null \/ m \in OfTable(Db, "machines"))
    BY DEF Packages, Rows, OrNull, InSame, InPackageOf
  <2>6. \A c \in DOMAIN refs : refs[c] \in Ids \cup {Null}
    BY <2>3, <2>5 DEF OfTable, Live
  <2>7. ASSUME NEW f \in ForeignKeys["plc_programs"] PROVE KeyFits(Db, refs, f)
    BY <2>3, <2>4, <2>5, KeyCases, KeyFields, SetsNull DEF KeyFits, KeyCase, Owned, Unpackaged
  <2>8. RefsFit(Db, "plc_programs", refs)
    BY <2>3, <2>6, <2>7 DEF RefsFit, Unpackaged
  <2>. QED BY <2>1, <2>2, <2>4, <2>8, CalledIs
<1>11. ASSUME row \in create_plc_block PROVE Called(Db, row)
  <2>1. PICK g \in Rows("plc_programs") : row = Row("plc_blocks", [program_id |-> g])
    BY <1>11 DEF create_plc_block
  <2>2. PICK refs : refs = [program_id |-> g]
    OBVIOUS
  <2>3. DOMAIN refs = {"program_id"} /\ refs["program_id"] = g
    BY <2>2
  <2>4. "plc_blocks" \in EngineeringTables
    BY TablesAre
  <2>5. g \in OfTable(Db, "plc_programs")
    BY DEF Packages, Rows, OrNull, InSame, InPackageOf
  <2>6. \A c \in DOMAIN refs : refs[c] \in Ids \cup {Null}
    BY <2>3, <2>5 DEF OfTable, Live
  <2>7. ASSUME NEW f \in ForeignKeys["plc_blocks"] PROVE KeyFits(Db, refs, f)
    BY <2>3, <2>4, <2>5, KeyCases, KeyFields, SetsNull DEF KeyFits, KeyCase, Owned, Unpackaged
  <2>8. RefsFit(Db, "plc_blocks", refs)
    BY <2>3, <2>6, <2>7 DEF RefsFit, Unpackaged
  <2>. QED BY <2>1, <2>2, <2>4, <2>8, CalledIs
<1>12. ASSUME row \in create_plc_variable PROVE Called(Db, row)
  <2>01. PICK g \in Rows("plc_programs") : \E b \in OrNull("plc_blocks") : \E e \in OrNull("engineering_entities") : row = Row("plc_variables", [program_id |-> g, block_id |-> b, entity_id |-> e])
    BY <1>12 DEF create_plc_variable
  <2>02. PICK b \in OrNull("plc_blocks") : \E e \in OrNull("engineering_entities") : row = Row("plc_variables", [program_id |-> g, block_id |-> b, entity_id |-> e])
    BY <2>01
  <2>1. PICK e \in OrNull("engineering_entities") : row = Row("plc_variables", [program_id |-> g, block_id |-> b, entity_id |-> e])
    BY <2>02
  <2>2. PICK refs : refs = [program_id |-> g, block_id |-> b, entity_id |-> e]
    OBVIOUS
  <2>3. DOMAIN refs = {"program_id", "block_id", "entity_id"} /\ refs["program_id"] = g /\ refs["block_id"] = b /\ refs["entity_id"] = e
    BY <2>2
  <2>4. "plc_variables" \in EngineeringTables
    BY TablesAre
  <2>5. g \in OfTable(Db, "plc_programs") /\ (b = Null \/ b \in OfTable(Db, "plc_blocks")) /\ (e = Null \/ e \in OfTable(Db, "engineering_entities"))
    BY DEF Packages, Rows, OrNull, InSame, InPackageOf
  <2>6. \A c \in DOMAIN refs : refs[c] \in Ids \cup {Null}
    BY <2>3, <2>5 DEF OfTable, Live
  <2>7. ASSUME NEW f \in ForeignKeys["plc_variables"] PROVE KeyFits(Db, refs, f)
    BY <2>3, <2>4, <2>5, KeyCases, KeyFields, SetsNull DEF KeyFits, KeyCase, Owned, Unpackaged
  <2>8. RefsFit(Db, "plc_variables", refs)
    BY <2>3, <2>6, <2>7 DEF RefsFit, Unpackaged
  <2>. QED BY <2>1, <2>2, <2>4, <2>8, CalledIs
<1>13. ASSUME row \in create_plc_reference PROVE Called(Db, row)
  <2>01. PICK b \in Rows("plc_blocks") : \E v \in OrNull("plc_variables") : row = Row("plc_references", [block_id |-> b, variable_id |-> v])
    BY <1>13 DEF create_plc_reference
  <2>1. PICK v \in OrNull("plc_variables") : row = Row("plc_references", [block_id |-> b, variable_id |-> v])
    BY <2>01
  <2>2. PICK refs : refs = [block_id |-> b, variable_id |-> v]
    OBVIOUS
  <2>3. DOMAIN refs = {"block_id", "variable_id"} /\ refs["block_id"] = b /\ refs["variable_id"] = v
    BY <2>2
  <2>4. "plc_references" \in EngineeringTables
    BY TablesAre
  <2>5. b \in OfTable(Db, "plc_blocks") /\ (v = Null \/ v \in OfTable(Db, "plc_variables"))
    BY DEF Packages, Rows, OrNull, InSame, InPackageOf
  <2>6. \A c \in DOMAIN refs : refs[c] \in Ids \cup {Null}
    BY <2>3, <2>5 DEF OfTable, Live
  <2>7. ASSUME NEW f \in ForeignKeys["plc_references"] PROVE KeyFits(Db, refs, f)
    BY <2>3, <2>4, <2>5, KeyCases, KeyFields, SetsNull DEF KeyFits, KeyCase, Owned, Unpackaged
  <2>8. RefsFit(Db, "plc_references", refs)
    BY <2>3, <2>6, <2>7 DEF RefsFit, Unpackaged
  <2>. QED BY <2>1, <2>2, <2>4, <2>8, CalledIs
<1>14. ASSUME row \in record_conflict PROVE Called(Db, row)
  <2>1. PICK p \in Packages : row = Row("engineering_conflicts", [package_id |-> p])
    BY <1>14 DEF record_conflict
  <2>2. PICK refs : refs = [package_id |-> p]
    OBVIOUS
  <2>3. DOMAIN refs = {"package_id"} /\ refs["package_id"] = p
    BY <2>2
  <2>4. "engineering_conflicts" \in EngineeringTables
    BY TablesAre
  <2>5. p \in OfTable(Db, "machine_packages")
    BY DEF Packages, Rows, OrNull, InSame, InPackageOf
  <2>6. \A c \in DOMAIN refs : refs[c] \in Ids \cup {Null}
    BY <2>3, <2>5 DEF OfTable, Live
  <2>7. ASSUME NEW f \in ForeignKeys["engineering_conflicts"] PROVE KeyFits(Db, refs, f)
    BY <2>3, <2>4, <2>5, KeyCases, KeyFields, SetsNull DEF KeyFits, KeyCase, Owned, Unpackaged
  <2>8. RefsFit(Db, "engineering_conflicts", refs)
    BY <2>3, <2>6, <2>7 DEF RefsFit, Unpackaged
  <2>. QED BY <2>1, <2>2, <2>4, <2>8, CalledIs
<1>15. ASSUME row \in record_unsupported_construct PROVE Called(Db, row)
  <2>01. PICK p \in Packages : \E doc \in Unlocked \cup {Null} : row = [Row("unsupported_constructs", [package_id |-> p]) EXCEPT !.doc = doc]
    BY <1>15 DEF record_unsupported_construct, OrNull, Packages
  <2>1. PICK doc \in Unlocked \cup {Null} : row = [Row("unsupported_constructs", [package_id |-> p]) EXCEPT !.doc = doc]
    BY <2>01
  <2>2. PICK refs : refs = [package_id |-> p]
    OBVIOUS
  <2>3. DOMAIN refs = {"package_id"} /\ refs["package_id"] = p
    BY <2>2
  <2>4. "unsupported_constructs" \in EngineeringTables
    BY TablesAre
  <2>5. p \in OfTable(Db, "machine_packages")
    BY DEF Packages, Rows, OrNull, InSame, InPackageOf
  <2>6. \A c \in DOMAIN refs : refs[c] \in Ids \cup {Null}
    BY <2>3, <2>5 DEF OfTable, Live
  <2>7. ASSUME NEW f \in ForeignKeys["unsupported_constructs"] PROVE KeyFits(Db, refs, f)
    BY <2>3, <2>4, <2>5, KeyCases, KeyFields, SetsNull DEF KeyFits, KeyCase, Owned, Unpackaged
  <2>8. RefsFit(Db, "unsupported_constructs", refs)
    BY <2>3, <2>6, <2>7 DEF RefsFit, Unpackaged
  <2>9. doc \in Docs \cup {Null}
    BY DEF Unlocked
  <2>. QED BY <2>1, <2>2, <2>4, <2>8, <2>9, CalledIs
<1>16. ASSUME row \in record_override PROVE Called(Db, row)
  <2>1. PICK p \in Packages : row = Row("human_overrides", [package_id |-> p])
    BY <1>16 DEF record_override
  <2>2. PICK refs : refs = [package_id |-> p]
    OBVIOUS
  <2>3. DOMAIN refs = {"package_id"} /\ refs["package_id"] = p
    BY <2>2
  <2>4. "human_overrides" \in EngineeringTables
    BY TablesAre
  <2>5. p \in OfTable(Db, "machine_packages")
    BY DEF Packages, Rows, OrNull, InSame, InPackageOf
  <2>6. \A c \in DOMAIN refs : refs[c] \in Ids \cup {Null}
    BY <2>3, <2>5 DEF OfTable, Live
  <2>7. ASSUME NEW f \in ForeignKeys["human_overrides"] PROVE KeyFits(Db, refs, f)
    BY <2>3, <2>4, <2>5, KeyCases, KeyFields, SetsNull DEF KeyFits, KeyCase, Owned, Unpackaged
  <2>8. RefsFit(Db, "human_overrides", refs)
    BY <2>3, <2>6, <2>7 DEF RefsFit, Unpackaged
  <2>. QED BY <2>1, <2>2, <2>4, <2>8, CalledIs
<1>17. ASSUME row \in record_behavior_claim PROVE Called(Db, row)
  <2>1. PICK p \in Packages : row = Row("derived_behavior_claims", [package_id |-> p])
    BY <1>17 DEF record_behavior_claim
  <2>2. PICK refs : refs = [package_id |-> p]
    OBVIOUS
  <2>3. DOMAIN refs = {"package_id"} /\ refs["package_id"] = p
    BY <2>2
  <2>4. "derived_behavior_claims" \in EngineeringTables
    BY TablesAre
  <2>5. p \in OfTable(Db, "machine_packages")
    BY DEF Packages, Rows, OrNull, InSame, InPackageOf
  <2>6. \A c \in DOMAIN refs : refs[c] \in Ids \cup {Null}
    BY <2>3, <2>5 DEF OfTable, Live
  <2>7. ASSUME NEW f \in ForeignKeys["derived_behavior_claims"] PROVE KeyFits(Db, refs, f)
    BY <2>3, <2>4, <2>5, KeyCases, KeyFields, SetsNull DEF KeyFits, KeyCase, Owned, Unpackaged
  <2>8. RefsFit(Db, "derived_behavior_claims", refs)
    BY <2>3, <2>6, <2>7 DEF RefsFit, Unpackaged
  <2>. QED BY <2>1, <2>2, <2>4, <2>8, CalledIs
<1>. QED BY <1>1, <1>2, <1>3, <1>4, <1>5, <1>6, <1>7, <1>8, <1>9, <1>10, <1>11, <1>12, <1>13, <1>14, <1>15, <1>16, <1>17 DEF Additions

\* q is row with the mark it is written with.
Stamped(row, q, b) ==
  /\ IsFields(q) /\ q.table = row.table /\ q.refs = row.refs /\ q.method = row.method /\ q.doc = row.doc
  /\ q.sides = row.sides /\ q.code = row.code /\ q.raced = b

\* A row whose race is recorded is the row in all else.
LEMMA StampedIs ==
  ASSUME NEW d, NEW row, Called(d, row), NEW b, NEW q, q = [row EXCEPT !.raced = b]
  PROVE  Stamped(row, q, b)
<1>1. IsFields(row)
  BY DEF Called, Fills
<1>. QED BY <1>1 DEF IsFields, Stamped

\* Such a row may be inserted, on evidence that is stored.
LEMMA CalledFits ==
  ASSUME NEW d, NEW row, Called(d, row), NEW b \in BOOLEAN, NEW q, Stamped(row, q, b),
         NEW evs \in SUBSET EvidenceIds, \A x \in evs : d.evidence[x] # Null, evs # {} => Grounds(row.table)
  PROVE  /\ Fits(d, q, evs) /\ q.method = Manual /\ q.code = Null /\ q.raced = b
         /\ q.table = row.table /\ q.refs = row.refs
<1>1. PICK t \in EngineeringTables : \E refs : RefsFit(d, t, refs) /\ Fills(row, Row(t, refs))
  BY DEF Called
<1>2. PICK refs : RefsFit(d, t, refs) /\ Fills(row, Row(t, refs))
  BY <1>1
<1>3. PICK r : r = Row(t, refs)
  OBVIOUS
<1>4. Blank(r, t, refs) /\ r.method = Manual
  BY <1>2, <1>3, RowFields DEF RefsFit
<1>5. /\ IsFields(row) /\ row.table = r.table /\ row.refs = r.refs /\ row.method = Manual /\ row.sides = << >>
      /\ row.code = Null /\ row.doc \in Docs \cup {Null}
  BY <1>2, <1>3, <1>4 DEF Fills, Blank
<1>6. /\ IsFields(q) /\ q.table = r.table /\ q.refs = r.refs /\ q.method = r.method /\ q.sides = << >>
      /\ q.code = Null /\ q.doc \in Docs \cup {Null} /\ q.raced = b /\ q.table = row.table /\ q.refs = row.refs
  BY <1>4, <1>5 DEF Stamped
<1>7. IsRow(q) /\ q.table = t /\ \A c \in Columns(t) : q.refs[c] = IF c \in DOMAIN refs THEN refs[c] ELSE Null
  <2>1. q.code \in Codes
    BY <1>6, CodesAre
  <2>2. /\ Blank(r, t, refs) /\ r.method \in {Manual, Worker, Resolver} /\ IsFields(q) /\ q.table = r.table
        /\ q.refs = r.refs /\ q.method = r.method /\ q.doc \in Docs \cup {Null}
        /\ (q.sides = << >> \/ q.sides \in Seq(Ids)) /\ q.raced \in BOOLEAN
    BY <1>4, <1>6
  <2>3. /\ IsRow(q) /\ q.table = t
        /\ \A c \in Columns(t) : q.refs[c] = IF c \in DOMAIN refs THEN refs[c] ELSE Null
    BY <2>1, <2>2, FilledIs
  <2>. QED BY <2>3
<1>8. RowKeys(d, q)
  <2>1. SUFFICES ASSUME NEW f \in ForeignKeys[t]
                 PROVE  \/ /\ q.refs[f.col] \in OfTable(d, f.parent)
                           /\ f.packaged => d.rows[q.refs[f.col]].refs["package_id"] = q.refs["package_id"]
                        \/ q.refs[f.col] = Null /\ ~f.required
    BY <1>7 DEF RowKeys
  <2>2. f.col \in Columns(t) /\ KeyFits(d, refs, f)
    BY <1>2 DEF Columns, RefsFit
  <2>3. f.packaged => q.refs["package_id"] = refs["package_id"]
    <3>1. f.packaged => t \notin Unpackaged
      BY KeyShapes DEF KeyShape, Unpackaged
    <3>2. t \notin Unpackaged => "package_id" \in Columns(t) /\ "package_id" \in DOMAIN refs
      BY <1>2, MadeColumns DEF RefsFit
    <3>. QED BY <1>7, <3>1, <3>2
  <2>. QED BY <1>7, <2>2, <2>3 DEF KeyFits
<1>9. MadeBy(q)
  <2>1. q.table = "engineering_entity_candidates" => q.refs["canonical_entity_id"] = Null
    BY <1>2, <1>7, MadeColumns DEF RefsFit
  <2>2. q.table = "engineering_relation_candidates" => q.refs["canonical_relation_id"] = Null
    <3>1. t = "engineering_relation_candidates" => "canonical_relation_id" \in Columns(t)
      <4>1. t = "engineering_relation_candidates" => Key("canonical_relation_id", "engineering_relations", SetNull) \in ForeignKeys[t]
        BY KeyTable DEF Keys
      <4>2. t = "engineering_relation_candidates" => Key("canonical_relation_id", "engineering_relations", SetNull).col \in Columns(t)
        BY <4>1 DEF Columns
      <4>. QED BY <4>2, KeyFields
    <3>. QED BY <1>2, <1>7, <3>1 DEF RefsFit
  <2>3. q.method = Manual /\ Manual # Worker /\ Manual # Resolver
    BY <1>4, <1>6 DEF Manual, Worker, Resolver
  <2>. QED BY <1>6, <2>1, <2>2, <2>3 DEF MadeBy
<1>10. OwnRefs(d, q) /\ q.method = Manual /\ q.method # Resolver
  BY <1>4, <1>6 DEF OwnRefs, Manual, Resolver
<1>. QED BY <1>6, <1>7, <1>8, <1>9, <1>10 DEF Fits

\* What a caller adds keeps the invariant: it is not of any package that an archive
\* owns, and what a transaction has read does not include it, unless it is marked.
LEMMA AddGood ==
  ASSUME NEW rec, NEW del, NEW h, Good(Db, rec, del, h), rec = recorded, h = held,
         NEW q, NEW evs, Fits(Db, q, evs), q.method = Manual, q.code = Null, Grounds(q.table) <=> evs # {},
         ~q.raced => \A y \in evs : h[evidence[y]] = Free,
         NEW i \in FreshIds(Db), NEW e, InsertsAt(Db, q, evs, e, i)
  PROVE  Good(e, rec, del, h)
<1>0. /\ Sound(Db) /\ Coherent(Db) /\ Settled(rec, del, h)
      /\ \A x \in Docs : PackageOk(Db, rec, del, x) /\ HeldOk(Db, rec, del, h[x], x)
      /\ \A j \in Live(Db) : Grounding(Db, h, j)
  BY DEF Good
<1>1. Sound(e)
  BY <1>0, InsertSound
<1>2. RowAdded(Db, q, evs, i, e)
  BY <1>0, InsertRows DEF Fits, Sound
<1>3. /\ i \in Ids /\ i \notin Live(Db) /\ Db.rows[i] = NoRow
      /\ e.rows[i] = q /\ \A j \in Ids : j # i => e.rows[j] = Db.rows[j]
      /\ Live(e) = Live(Db) \cup {i}
      /\ EvidenceOf(e, i) = evs
      /\ \A j : j # i => EvidenceOf(e, j) = EvidenceOf(Db, j)
  BY <1>2 DEF RowAdded
<1>4. Coherent(e)
  BY <1>0, <1>2, CoherentInsert DEF Fits, MadeBy, Manual, Resolver
<1>5. i \notin Range(recorded) /\ \A x \in Docs : i \notin held[x].rows
  BY DEF FreshIds, Mentioned
<1>6. \A j \in Live(Db) : j \in Ids /\ j # i /\ e.rows[j] = Db.rows[j] /\ j \in Live(e)
  BY <1>3 DEF Live
<1>7. e.evidence = Db.evidence /\ e.bindings = Db.bindings \cup (evs \X {i}) /\ Db.evidence = evidence
  BY DEF InsertsAt, Db
<1>8. ASSUME NEW x \in Docs PROVE PackageOk(e, rec, del, x)
  <2>1. rec[x] # i
    BY <1>0, <1>5 DEF Settled, Range
  <2>2. ASSUME NEW p, For(x, e, p) PROVE For(x, Db, p)
    <3>1. p # i
      BY <1>3, <2>2, EvidenceAssumption DEF For
    <3>. QED BY <1>3, <1>6, <2>2, <3>1 DEF For, OfTable
  <2>3. ASSUME NEW p, For(x, Db, p) PROVE For(x, e, p)
    BY <1>6, <2>3 DEF For, OfTable
  <2>4. ASSUME NEW p, x \in MembersOf(Db, p) PROVE x \in MembersOf(e, p)
    <3>1. PICK j \in InPackageOf(Db, "package_documents", p) : Db.rows[j].doc = x
      BY <2>4 DEF MembersOf
    <3>2. j \in InPackageOf(e, "package_documents", p) /\ e.rows[j].doc = x
      BY <1>6, <3>1 DEF InPackageOf, OfTable
    <3>. QED BY <3>2 DEF MembersOf
  <2>5. PackageOk(Db, rec, del, x)
    BY <1>0
  <2>. QED BY <1>3, <2>1, <2>2, <2>3, <2>4, <2>5 DEF PackageOk
<1>9. ASSUME NEW x \in Docs PROVE HeldOk(e, rec, del, h[x], x)
  <2>0. HeldOk(Db, rec, del, h[x], x) /\ i \notin h[x].rows
    BY <1>0, <1>5
  <2>1. ASSUME h[x] # Free, NEW b \in e.bindings, e.evidence[b[1]] = x, e.rows[b[2]] # NoRow, ~e.rows[b[2]].raced
        PROVE  b \in Db.bindings /\ Db.evidence[b[1]] = x /\ Db.rows[b[2]] # NoRow /\ ~Db.rows[b[2]].raced
    <3>1. CASE b \in Db.bindings
      <4>1. b[2] \in Ids /\ b[2] # i
        BY <1>0, <3>1 DEF Sound, Shape, FreshIds, Mentioned
      <4>. QED BY <1>3, <1>7, <2>1, <3>1, <4>1
    <3>2. CASE b \in evs \X {i}
      <4>1. b[1] \in evs /\ b[2] = i
        BY <3>2
      <4>. QED BY <1>3, <1>7, <2>1, <4>1
    <3>. QED BY <1>7, <2>1, <3>1, <3>2
  <2>2. h[x] # Free => (\A s : Seen(Db, x, s) => Seen(e, x, s)) /\ \A s : ReadAll(Db, x, s) => ReadAll(e, x, s)
    BY <2>1 DEF Seen, ReadAll
  <2>3. ASSUME NEW j \in h[x].rows \cap Live(e), e.rows[j].method = Resolver,
               \A k \in h[x].rows \cap Live(Db) : Db.rows[k].method = Resolver => Db.rows[Package(Db, k)].code = x
        PROVE  e.rows[Package(e, j)].code = x
    <3>1. j \in Live(Db) /\ e.rows[j] = Db.rows[j]
      BY <1>3, <1>6, <2>0, <2>3
    <3>2. Db.rows[j].table \notin Unpackaged
      BY <1>0, <2>3, <3>1 DEF Sound, Makers, MadeBy, ResolverTables, Unpackaged
    <3>3. Package(Db, j) \in Live(Db)
      BY <1>0, <3>1, <3>2, PackageLive DEF Sound
    <3>4. Package(e, j) = Package(Db, j)
      BY <3>1 DEF Package
    <3>. QED BY <1>6, <2>3, <3>1, <3>3, <3>4
  <2>4. h[x].phase = "read" =>
         /\ \A j \in h[x].rows \cap Live(e) : e.rows[j].method = Resolver => e.rows[Package(e, j)].code = x
         /\ h[x] # Free => ReadAll(e, x, h[x].rows)
    BY <2>0, <2>2, <2>3 DEF HeldOk
  <2>5. h[x].phase = "dropped" => \A j \in h[x].rows : EvidenceOf(e, j) \subseteq EvidenceAt(e, x)
    BY <1>3, <1>7, <2>0 DEF HeldOk, EvidenceAt
  <2>6. h[x].phase # "none" => h[x] # Free
    BY DEF Free
  <2>7. h[x].phase \in {"read", "resolving"} => h[x] # Free
    BY <2>6
  <2>. QED BY <2>0, <2>2, <2>4, <2>5, <2>7 DEF HeldOk
<1>10. ASSUME NEW j \in Live(e) PROVE Grounding(e, h, j)
  <2>1. CASE j = i
    <3>1. ASSUME Grounds(q.table), ~q.raced, NEW y \in evs PROVE h[e.evidence[y]].phase # "dropped"
      BY <1>7, <3>1 DEF Free
    <3>. QED BY <1>3, <2>1, <3>1 DEF Grounding
  <2>2. CASE j # i
    <3>1. j \in Live(Db) /\ e.rows[j] = Db.rows[j] /\ EvidenceOf(e, j) = EvidenceOf(Db, j)
      BY <1>3, <1>6, <2>2
    <3>2. Grounding(Db, h, j)
      BY <1>0, <3>1
    <3>. QED BY <1>7, <3>1, <3>2 DEF Grounding
  <2>. QED BY <2>1, <2>2
<1>. QED BY <1>0, <1>1, <1>4, <1>8, <1>9, <1>10 DEF Good

\* Add.
LEMMA AddStep ==
  ASSUME IInv, NEW row \in Additions, NEW evs \in EvidenceSets, Add(row, evs)
  PROVE  IInv'
<1>0. Good(Db, recorded, deleted, held) /\ Shape(Db) /\ Db.ok /\ Db.evidence = evidence
  BY DEF IInv, Good, Sound, Db
<1>1. PICK b \in BOOLEAN : b = \E e \in evs : held[evidence[e]] # Free
  OBVIOUS
<1>2. PICK q : q = [row EXCEPT !.raced = b]
  OBVIOUS
<1>3. PICK e : e = insert(Db, q, evs)
  OBVIOUS
<1>4. /\ Grounds(row.table) = (evs # {}) /\ Commit(e)
      /\ recorded' = recorded /\ deleted' = deleted /\ held' = held
  BY <1>1, <1>2, <1>3 DEF Add
<1>5. Called(Db, row)
  BY AdditionsFit
<1>6. Stamped(row, q, b)
  BY <1>2, <1>5, StampedIs
<1>7. evs \in SUBSET EvidenceIds /\ \A x \in evs : Db.evidence[x] # Null
  BY <1>0 DEF EvidenceSets
<1>8. /\ Fits(Db, q, evs) /\ q.method = Manual /\ q.code = Null /\ q.raced = b
      /\ q.table = row.table /\ q.refs = row.refs
  <2>1. evs # {} => Grounds(row.table)
    BY <1>4 DEF Grounds
  <2>. QED BY <1>5, <1>6, <1>7, <2>1, CalledFits
<1>9. Saves(e, Db') /\ e.ok /\ refusal' = Null
  BY <1>4, Committed
<1>10. Inserts(Db, q, evs, e)
  BY <1>0, <1>3, <1>9, InsertDoes
<1>11. PICK i \in FreshIds(Db) : InsertsAt(Db, q, evs, e, i)
  BY <1>10 DEF Inserts
<1>12. ~q.raced => \A y \in evs : held[evidence[y]] = Free
  BY <1>1, <1>8
<1>13. Grounds(q.table) <=> evs # {}
  BY <1>4, <1>8 DEF Grounds
<1>14. Good(e, recorded, deleted, held)
  BY <1>0, <1>8, <1>11, <1>12, <1>13, AddGood
<1>15. Good(e, recorded', deleted', held')
  BY <1>4, <1>14
<1>16. Good(Db', recorded', deleted', held')
  BY <1>9, <1>15, StoredGood
<1>. QED BY <1>9, <1>16 DEF IInv

\* New evidence changes nothing for the rows.
LEMMA RecordGood ==
  ASSUME NEW rec, NEW del, NEW h, NEW d, Good(d, rec, del, h), NEW doc \in Docs, NEW x \in FreshEvidence(d),
         NEW e, RecordsAt(d, doc, e, x)
  PROVE  Good(e, rec, del, h)
<1>0. /\ Sound(d) /\ Coherent(d) /\ Settled(rec, del, h)
      /\ \A y \in Docs : PackageOk(d, rec, del, y) /\ HeldOk(d, rec, del, h[y], y)
      /\ \A j \in Live(d) : Grounding(d, h, j)
  BY DEF Good
<1>1. /\ Sound(e) /\ Live(e) = Live(d) /\ \A i : EvidenceOf(e, i) = EvidenceOf(d, i)
      /\ x \in EvidenceIds /\ d.evidence[x] = Null
      /\ \A y \in EvidenceIds : y # x => e.evidence[y] = d.evidence[y]
  BY <1>0, RecordSound
<1>2. e.rows = d.rows /\ e.bindings = d.bindings
  BY DEF RecordsAt
<1>3. \A t : OfTable(e, t) = OfTable(d, t)
  BY <1>1, <1>2 DEF OfTable
<1>4. \A b \in d.bindings : e.evidence[b[1]] = d.evidence[b[1]]
  BY <1>0, <1>1 DEF Sound, Bound, Shape
<1>5. \A i : Package(e, i) = Package(d, i)
  BY <1>2 DEF Package
<1>6. Coherent(e)
  <2>1. \A i : Merged(e, i) = Merged(d, i)
    BY <1>2, <1>3 DEF Merged
  <2>2. Sides(e)
    BY <1>0, <1>1, <1>2, <1>3, <1>5 DEF Sides, Coherent
  <2>3. Standing(e)
    BY <1>0, <1>1, <1>2, <1>3, <2>1 DEF Standing, Stands, Coherent
  <2>. QED BY <2>2, <2>3 DEF Coherent
<1>7. ASSUME NEW y \in Docs PROVE PackageOk(e, rec, del, y) /\ HeldOk(e, rec, del, h[y], y)
  <2>1. (\A p : For(y, e, p) <=> For(y, d, p)) /\ \A p : MembersOf(e, p) = MembersOf(d, p)
    BY <1>2, <1>3 DEF For, MembersOf, InPackageOf
  <2>2. PackageOk(d, rec, del, y) /\ HeldOk(d, rec, del, h[y], y)
    BY <1>0
  <2>3. PackageOk(e, rec, del, y)
    BY <1>1, <2>1, <2>2 DEF PackageOk
  <2>4. (\A s : Seen(d, y, s) => Seen(e, y, s)) /\ (\A s : ReadAll(d, y, s) => ReadAll(e, y, s))
    BY <1>2, <1>4 DEF Seen, ReadAll
  <2>5. EvidenceAt(d, y) \subseteq EvidenceAt(e, y)
    BY <1>1, EvidenceAssumption DEF EvidenceAt
  <2>6. h[y].phase = "read" =>
         /\ \A j \in h[y].rows \cap Live(e) : e.rows[j].method = Resolver => e.rows[Package(e, j)].code = y
         /\ ReadAll(e, y, h[y].rows)
    BY <1>1, <1>2, <1>5, <2>2, <2>4 DEF HeldOk
  <2>7. h[y].phase = "dropped" => \A j \in h[y].rows : EvidenceOf(e, j) \subseteq EvidenceAt(e, y)
    BY <1>1, <2>2, <2>5 DEF HeldOk
  <2>8. HeldOk(e, rec, del, h[y], y)
    BY <2>2, <2>4, <2>6, <2>7 DEF HeldOk
  <2>. QED BY <2>3, <2>8
<1>8. ASSUME NEW j \in Live(e) PROVE Grounding(e, h, j)
  <2>1. \A y \in EvidenceOf(d, j) : e.evidence[y] = d.evidence[y]
    BY <1>4 DEF EvidenceOf
  <2>2. Grounding(d, h, j)
    BY <1>0, <1>1, <1>8
  <2>. QED BY <1>1, <1>2, <2>1, <2>2 DEF Grounding
<1>. QED BY <1>0, <1>1, <1>6, <1>7, <1>8 DEF Good

\* RecordEvidence.
LEMMA RecordEvidenceStep ==
  ASSUME IInv, NEW doc \in Docs, RecordEvidence(doc)
  PROVE  IInv'
<1>0. Good(Db, recorded, deleted, held) /\ Shape(Db)
  BY DEF IInv, Good, Sound
<1>1. PICK e : e = record(Db, doc, Manual)
  OBVIOUS
<1>2. Commit(e) /\ recorded' = recorded /\ deleted' = deleted /\ held' = held
  BY <1>1 DEF RecordEvidence
<1>3. Saves(e, Db') /\ e.ok /\ refusal' = Null
  BY <1>2, Committed
<1>4. Records(Db, doc, e)
  <2>1. Db.ok
    BY DEF Db
  <2>. QED BY <1>0, <1>1, <1>3, <2>1, RecordDoes
<1>5. PICK x \in FreshEvidence(Db) : RecordsAt(Db, doc, e, x)
  BY <1>4 DEF Records
<1>6. Good(e, recorded, deleted, held)
  BY <1>0, <1>5, RecordGood
<1>7. Good(Db', recorded', deleted', held')
  BY <1>2, <1>3, <1>6, StoredGood
<1>. QED BY <1>3, <1>7 DEF IInv

----------------------------------------------------------------------------
(* Init. *)

\* The invariant holds of the empty database.
LEMMA InitGood ==
  ASSUME Init
  PROVE  IInv
<1>1. \A i \in Ids : Db.rows[i] = NoRow
  BY DEF Init, Db
<1>2. Live(Db) = {} /\ \A t : OfTable(Db, t) = {}
  BY <1>1 DEF Live, OfTable
<1>3. Db.bindings = {} /\ IsDb(Db) /\ Db.swept = {}
  BY DEF Init, Db, IsDb
<1>4. Shape(Db)
  <2>1. Db.rows \in [Ids -> AnyRow \cup {NoRow}] /\ Db.evidence \in [EvidenceIds -> Docs \cup {Null}]
    BY DEF Init, Db
  <2>. QED BY <1>2, <1>3, <2>1 DEF Shape
<1>5. Sound(Db)
  BY <1>2, <1>3, <1>4 DEF Sound, KeysOk, Bound, Makers, OwnEvidence
<1>6. Coherent(Db)
  BY <1>2 DEF Coherent, Sides, Standing
<1>7. Free \in Holding /\ Free.phase = "none" /\ \A x \in Docs : held[x] = Free /\ recorded[x] = Null
  BY DEF Free, Holding, Phases, Init
<1>8. Settled(recorded, deleted, held)
  BY <1>7 DEF Settled, Init
<1>9. ASSUME NEW x \in Docs PROVE PackageOk(Db, recorded, deleted, x) /\ HeldOk(Db, recorded, deleted, held[x], x)
  <2>1. PackageOk(Db, recorded, deleted, x)
    BY <1>2, <1>7 DEF PackageOk, For
  <2>. QED BY <1>7, <2>1 DEF HeldOk
<1>10. Good(Db, recorded, deleted, held)
  BY <1>2, <1>5, <1>6, <1>8, <1>9 DEF Good
<1>11. refusal = Null
  BY DEF Init
<1>. QED BY <1>10, <1>11 DEF IInv

----------------------------------------------------------------------------
(* The statements of delete_document, from the committed database. *)

\* A reason for a row of j's table to be gone: its evidence went, its document
\* goes, or its package went.
Gone(doc, x, j) ==
  Depth(rows[j].table) = 1 =>
    \/ j \in held[doc].rows /\ Grounds(rows[j].table)
    \/ rows[j].table \in {"package_assignments", "package_documents"} /\ rows[j].doc = doc
    \/ Package(Db, j) \notin Live(x)

\* x is the committed database without the evidence of doc, and without rows that
\* had a reason to go.
Sweeps(doc, x) ==
  /\ x.ok /\ Shrinks(Db, x)
  /\ x.evidence = [y \in EvidenceIds |-> IF y \in EvidenceAt(Db, doc) THEN Null ELSE evidence[y]]
  /\ x.bindings = {b \in bindings : b[1] \notin EvidenceAt(Db, doc)}
  /\ \A j \in Live(Db) \ Live(x) : Gone(doc, x, j)

\* A statement was refused, on account of a caller's optional reference.
Fails(x) == IsDb(x) /\ ~x.ok /\ ManualReference(Db)

\* What a delete takes had a reason to go.
Fair(doc, gone) ==
  \A j \in gone : Depth(rows[j].table) = 1 =>
    \/ j \in held[doc].rows /\ Grounds(rows[j].table)
    \/ rows[j].table \in {"package_assignments", "package_documents"} /\ rows[j].doc = doc
    \/ Package(Db, j) \in gone

\* A DELETE of rows that are not bound takes away, or is refused.
LEMMA SweepDelete ==
  ASSUME NEW doc \in Docs, Sound(Db), NEW x, Sweeps(doc, x), NEW S \in SUBSET Live(x),
         \A b \in x.bindings : b[2] \in S => b[2] \in x.swept,
         \A gone \in SUBSET Ids : Takes(x, S, gone) => Fair(doc, gone),
         NEW z, z = delete(x, S)
  PROVE  \/ IsDb(z) /\ ~z.ok /\ Refuses(x, S, z)
         \/ Sweeps(doc, z) /\ Live(z) \cap S = {} /\ Live(z) \subseteq Live(x)
<1>0. /\ x.ok /\ Shrinks(Db, x)
      /\ x.evidence = [y \in EvidenceIds |-> IF y \in EvidenceAt(Db, doc) THEN Null ELSE evidence[y]]
      /\ x.bindings = {b \in bindings : b[1] \notin EvidenceAt(Db, doc)}
      /\ \A j \in Live(Db) \ Live(x) : Gone(doc, x, j)
  BY DEF Sweeps
<1>1. Sound(x) /\ Live(x) \subseteq Live(Db) /\ S \in SUBSET Ids
  <2>1. Sound(x) /\ Live(x) \subseteq Live(Db)
    BY <1>0, ShrinkSound
  <2>. QED BY <2>1 DEF Live
<1>2. Shape(x) /\ KeysOk(x) /\ IsDb(x)
  BY <1>1 DEF Sound, Shape
<1>3. IsDb(z)
  BY <1>2, DeleteIsDb
<1>4. Erases(x, S, z) \/ Refuses(x, S, z)
  BY <1>0, <1>1, <1>2, DeleteDoes
<1>5. CASE Refuses(x, S, z)
  BY <1>3, <1>5 DEF Refuses
<1>6. CASE Erases(x, S, z)
  <2>1. Shrinks(x, z) /\ Live(z) \cap S = {}
    BY <1>1, <1>6, EraseShrinks
  <2>2. Shrinks(Db, z)
    BY <1>0, <2>1, ShrinkTwice
  <2>3. PICK gone \in SUBSET Ids : Takes(x, S, gone) /\ Erase(x, S, gone, z)
    BY <1>6 DEF Erases
  <2>4. /\ z.ok /\ z.bindings = x.bindings /\ z.evidence = x.evidence
        /\ z.rows = [i \in Ids |-> IF i \in gone THEN NoRow ELSE x.rows[i]]
    BY <2>3 DEF Erase
  <2>5. \A i \in Ids : z.rows[i] = IF i \in gone THEN NoRow ELSE x.rows[i]
    BY <2>4
  <2>6. Live(z) = Live(x) \ gone
    BY <2>5 DEF Live
  <2>7. Fair(doc, gone)
    BY <2>3
  <2>8. ASSUME NEW j \in Live(Db) \ Live(z) PROVE Gone(doc, z, j)
    <3>1. CASE j \in gone
      BY <2>6, <2>7, <3>1 DEF Fair, Gone
    <3>2. CASE j \notin gone
      BY <1>0, <2>6, <2>8, <3>2 DEF Gone
    <3>. QED BY <3>1, <3>2
  <2>9. Sweeps(doc, z)
    BY <1>0, <2>2, <2>4, <2>8 DEF Sweeps
  <2>. QED BY <2>1, <2>6, <2>9
<1>. QED BY <1>4, <1>5, <1>6

\* Rows of a table that nothing refers to: such a DELETE is never refused.
LEMMA SweepAlone ==
  ASSUME NEW doc \in Docs, Sound(Db), NEW x, Sweeps(doc, x), NEW t, t \notin Parents, NEW S \in SUBSET OfTable(x, t),
         \A b \in x.bindings : b[2] \in S => b[2] \in x.swept, Fair(doc, S),
         NEW z, z = delete(x, S)
  PROVE  Sweeps(doc, z) /\ Live(z) \cap S = {} /\ Live(z) \subseteq Live(x)
<1>1. Sound(x) /\ S \in SUBSET Live(x)
  BY ShrinkSound DEF Sweeps, OfTable
<1>2. ~Blocked(x, S) /\ \A gone \in SUBSET Ids : Takes(x, S, gone) => gone = S
  BY <1>1, GoAlone
<1>3. \A gone \in SUBSET Ids : Takes(x, S, gone) => Fair(doc, gone)
  BY <1>2
<1>4. ~Refuses(x, S, z)
  BY <1>2 DEF Refuses, Blocked
<1>. QED BY <1>1, <1>3, <1>4, SweepDelete

----------------------------------------------------------------------------
(* drop_document_evidence: the rows that lost all evidence go, and no others. *)

\* A delete of doc has chosen its rows.
Chosen(doc) == Good(Db, recorded, deleted, held) /\ doc \in Docs /\ held[doc].phase = "dropped"

\* A row whose evidence is all the document's was chosen, if it was not raced.
LEMMA AllChosen ==
  ASSUME NEW doc, Chosen(doc), NEW i \in Live(Db), Grounds(rows[i].table), ~rows[i].raced,
         EvidenceOf(Db, i) \subseteq EvidenceAt(Db, doc)
  PROVE  i \in held[doc].rows /\ EvidenceOf(Db, i) # {}
<1>0. /\ Sound(Db) /\ Grounding(Db, held, i) /\ doc \in Docs /\ held[doc].phase = "dropped"
      /\ \A x \in Docs : HeldOk(Db, recorded, deleted, held[x], x)
  BY DEF Chosen, Good
<1>1. Db.rows = rows /\ Db.evidence = evidence
  BY DEF Db
<1>2. /\ EvidenceOf(Db, i) # {}
      /\ Dropping(held, i) \/ \E y \in EvidenceOf(Db, i) : held[evidence[y]].phase # "dropped"
  BY <1>0, <1>1 DEF Grounding
<1>3. \A y \in EvidenceOf(Db, i) : evidence[y] = doc
  BY <1>1 DEF EvidenceAt
<1>4. Dropping(held, i)
  BY <1>0, <1>2, <1>3
<1>5. PICK x \in Docs : held[x].phase = "dropped" /\ i \in held[x].rows
  BY <1>4 DEF Dropping
<1>6. \A y \in EvidenceOf(Db, i) : evidence[y] = x
  BY <1>0, <1>1, <1>5 DEF HeldOk, EvidenceAt
<1>7. x = doc
  BY <1>2, <1>3, <1>6
<1>. QED BY <1>2, <1>5, <1>7

\* Evidence of a chosen row is the document's.
LEMMA ChosenEvidence ==
  ASSUME NEW doc, Chosen(doc), NEW i \in held[doc].rows
  PROVE  EvidenceOf(Db, i) \subseteq EvidenceAt(Db, doc)
BY DEF Chosen, Good, HeldOk

\* Of the resolver's rows, those of the document's package were chosen.
LEMMA OwnChosen ==
  ASSUME NEW doc, Chosen(doc), NEW i \in Live(Db), rows[i].method = Resolver
  PROVE  i \in held[doc].rows <=> rows[Package(Db, i)].code = doc
<1>0. Sound(Db) /\ doc \in Docs /\ Grounding(Db, held, i)
  BY DEF Chosen, Good
<1>1. Db.rows = rows /\ Db.evidence = evidence
  BY DEF Db
<1>2. Grounds(rows[i].table) /\ ~rows[i].raced
  <2>1. MadeBy(rows[i])
    BY <1>0, <1>1 DEF Sound, Makers
  <2>. QED BY <2>1, GroundsIs DEF MadeBy, ResolverTables
<1>3. \A y \in EvidenceOf(Db, i) : evidence[y] = rows[Package(Db, i)].code
  BY <1>0, <1>1 DEF Sound, OwnEvidence
<1>4. ASSUME rows[Package(Db, i)].code = doc PROVE i \in held[doc].rows
  <2>1. ASSUME NEW y \in EvidenceOf(Db, i) PROVE y \in EvidenceAt(Db, doc)
    <3>1. PICK b \in Db.bindings : b[1] = y
      BY <2>1 DEF EvidenceOf
    <3>2. y \in EvidenceIds
      BY <1>0, <3>1 DEF Sound, Shape
    <3>. QED BY <1>1, <1>3, <1>4, <2>1, <3>2 DEF EvidenceAt
  <2>2. EvidenceOf(Db, i) \subseteq EvidenceAt(Db, doc)
    BY <2>1
  <2>. QED BY <1>2, <2>2, AllChosen
<1>5. ASSUME i \in held[doc].rows PROVE rows[Package(Db, i)].code = doc
  <2>1. EvidenceOf(Db, i) \subseteq EvidenceAt(Db, doc)
    BY <1>5, ChosenEvidence
  <2>2. PICK y \in EvidenceOf(Db, i) : TRUE
    BY <1>0, <1>1, <1>2 DEF Grounding
  <2>3. evidence[y] = doc
    BY <1>1, <2>1, <2>2 DEF EvidenceAt
  <2>. QED BY <1>3, <2>2, <2>3
<1>. QED BY <1>4, <1>5

\* Only the resolver merges a candidate, into an entity of the same package.
LEMMA MergedIn ==
  ASSUME NEW d, Sound(d), NEW j \in OfTable(d, "engineering_entity_candidates"),
         NEW n, n = d.rows[j].refs["canonical_entity_id"], n # Null
  PROVE  /\ d.rows[j].method = Resolver /\ n \in Live(d) /\ d.rows[n].table = "engineering_entities"
         /\ d.rows[n].method = Resolver /\ Package(d, n) = Package(d, j)
<1>0. Shape(d) /\ KeysOk(d) /\ Makers(d) /\ j \in Live(d) /\ d.rows[j].table = "engineering_entity_candidates"
  BY DEF Sound, OfTable
<1>1. PICK f : f = Key("canonical_entity_id", "engineering_entities", SetNull)
  OBVIOUS
<1>2. f \in ForeignKeys["engineering_entity_candidates"]
  <2>1. "engineering_entity_candidates" \in EngineeringTables
    BY KeyTable DEF Keys
  <2>2. f \in Keys["engineering_entity_candidates"]
    BY <1>1 DEF Keys
  <2>. QED BY <2>1, <2>2, KeyTable
<1>3. f.col = "canonical_entity_id" /\ f.parent = "engineering_entities"
  BY <1>1, KeyFields
<1>4. MadeBy(d.rows[j]) /\ OwnRefs(d, d.rows[j]) /\ d.rows[j].method \in {Manual, Worker, Resolver}
  BY <1>0 DEF Makers, Shape, IsRow, AnyRow
<1>5. d.rows[j].method = Resolver
  BY <1>0, <1>4 DEF MadeBy, WorkerTables
<1>6. n \in Live(d) /\ d.rows[n].table = "engineering_entities"
  BY <1>0, <1>2, <1>3, RefsLive
<1>7. Made(d, n) /\ Package(d, n) = Package(d, j)
  <2>1. d.rows[j].method # Manual
    BY <1>5 DEF Resolver, Manual
  <2>. QED BY <1>0, <1>2, <1>3, <1>4, <2>1 DEF OwnRefs, Package
<1>8. MadeBy(d.rows[n]) /\ d.rows[n].method \in {Manual, Worker, Resolver}
  BY <1>0, <1>6 DEF Makers, Shape, IsRow, AnyRow
<1>9. d.rows[n].method = Resolver
  BY <1>6, <1>7, <1>8 DEF MadeBy, WorkerTables, Made
<1>. QED BY <1>5, <1>6, <1>7, <1>9

\* A candidate goes with the entity that it was merged into.
LEMMA MergedGoes ==
  ASSUME NEW doc, Chosen(doc), NEW j \in OfTable(Db, "engineering_entity_candidates"),
         rows[j].refs["canonical_entity_id"] \in held[doc].rows
  PROVE  j \in held[doc].rows
<1>0. Sound(Db) /\ Db.rows = rows /\ j \in Live(Db)
  BY DEF Chosen, Good, Db, OfTable
<1>1. PICK n : n = rows[j].refs["canonical_entity_id"]
  OBVIOUS
<1>2. n \in held[doc].rows /\ n # Null
  <2>1. held[doc].rows \subseteq Ids
    BY DEF Chosen, Good, Settled, Holding
  <2>. QED BY <1>1, <2>1, EvidenceAssumption DEF Ids
<1>3. /\ rows[j].method = Resolver /\ n \in Live(Db)
      /\ rows[n].method = Resolver /\ Package(Db, n) = Package(Db, j)
  BY <1>0, <1>1, <1>2, MergedIn
<1>. QED BY <1>0, <1>2, <1>3, OwnChosen

\* The chosen rows of table t are gone.
Past(doc, x, t) == \A i \in held[doc].rows \cap Live(x) : rows[i].table # t

\* One table of the fold.
LEMMA SweepTable ==
  ASSUME NEW doc, Chosen(doc), NEW x, Sweeps(doc, x), NEW t \in Range(GROUNDED_SUBJECTS),
         t = "engineering_entities" => Past(doc, x, "engineering_entity_candidates"),
         NEW z, z = DropOp(held[doc].rows, x, t)
  PROVE  \/ Fails(z)
         \/ Sweeps(doc, z) /\ Live(z) \subseteq Live(x) /\ Past(doc, z, t)
<1>. DEFINE goes == held[doc].rows
            S == goes \cap OfTable(x, t)
<1>0. doc \in Docs /\ Sound(Db) /\ Db.rows = rows /\ Db.bindings = bindings
  BY DEF Chosen, Good, Db
<1>1. /\ Sound(x) /\ Live(x) \subseteq Live(Db) /\ \A j \in Live(x) : x.rows[j] = rows[j]
      /\ x.bindings = {b \in bindings : b[1] \notin EvidenceAt(Db, doc)}
  BY <1>0, ShrinkSound DEF Sweeps
<1>2. S \in SUBSET OfTable(x, t) /\ S \in SUBSET Live(x) /\ \A i \in S : i \in goes /\ rows[i].table = t
  BY <1>1 DEF OfTable
<1>3. z = delete(x, S)
  BY DEF DropOp
<1>. HIDE DEF S
<1>4. \A b \in x.bindings : b[2] \in S => b[2] \in x.swept
  <2>1. SUFFICES ASSUME NEW b \in x.bindings, b[2] \in S PROVE FALSE
    OBVIOUS
  <2>2. b \in Db.bindings /\ b[1] \notin EvidenceAt(Db, doc)
    BY <1>0, <1>1, <2>1
  <2>3. b[1] \in EvidenceOf(Db, b[2])
    BY <2>2 DEF EvidenceOf
  <2>4. EvidenceOf(Db, b[2]) \subseteq EvidenceAt(Db, doc)
    BY <1>2, <2>1, ChosenEvidence
  <2>. QED BY <2>2, <2>3, <2>4
<1>5. Fair(doc, S)
  BY <1>2 DEF Fair, Grounds
<1>6. ASSUME Sweeps(doc, z), Live(z) \cap S = {}, Live(z) \subseteq Live(x) PROVE Past(doc, z, t)
  <2>1. SUFFICES ASSUME NEW i \in goes \cap Live(z), rows[i].table = t PROVE FALSE
    BY DEF Past
  <2>2. i \in OfTable(x, t)
    BY <1>1, <1>6, <2>1 DEF OfTable
  <2>. QED BY <1>6, <2>1, <2>2 DEF S
<1>7. CASE t # "engineering_entities"
  <2>1. t \notin Parents
    <3>1. t \in {"engineering_relations", "engineering_relation_candidates",
           "derived_behavior_claims", "engineering_conflicts", "unsupported_constructs",
           "engineering_entity_candidates", "package_assignments", "engineering_entities"}
      BY GroundsIs DEF Grounds
    <3>. QED BY <1>7, <3>1 DEF Parents
  <2>2. Sweeps(doc, z) /\ Live(z) \cap S = {} /\ Live(z) \subseteq Live(x)
    BY <1>0, <1>2, <1>3, <1>4, <1>5, <2>1, SweepAlone
  <2>. QED BY <1>6, <2>2
<1>8. CASE t = "engineering_entities"
  <2>1. \A j \in OfTable(x, "engineering_entity_candidates") : x.rows[j].refs["canonical_entity_id"] \notin S
    <3>1. SUFFICES ASSUME NEW j \in OfTable(x, "engineering_entity_candidates"),
                          x.rows[j].refs["canonical_entity_id"] \in S
                   PROVE  FALSE
      OBVIOUS
    <3>2. j \in Live(x) /\ x.rows[j] = rows[j] /\ rows[j].table = "engineering_entity_candidates"
      BY <1>1, <3>1 DEF OfTable
    <3>3. j \in OfTable(Db, "engineering_entity_candidates") /\ rows[j].refs["canonical_entity_id"] \in goes
      BY <1>0, <1>1, <1>2, <3>1, <3>2 DEF OfTable
    <3>4. j \in goes
      BY <3>3, MergedGoes
    <3>. QED BY <1>8, <3>2, <3>4 DEF Past
  <2>2. /\ \A gone \in SUBSET Ids : Takes(x, S, gone) => gone \subseteq S \cup Ends(x, S)
        /\ Blocked(x, S) => ManualReference(x)
    BY <1>1, <1>2, <1>8, <2>1, GoWithRelations
  <2>3. \A j \in Ends(x, S) : Depth(rows[j].table) # 1
    BY <1>1 DEF Ends, OfTable, Depth
  <2>4. \A gone \in SUBSET Ids : Takes(x, S, gone) => Fair(doc, gone)
    <3>1. SUFFICES ASSUME NEW gone \in SUBSET Ids, Takes(x, S, gone) PROVE Fair(doc, gone)
      OBVIOUS
    <3>2. \A j \in gone : j \in S \/ Depth(rows[j].table) # 1
      BY <2>2, <2>3, <3>1
    <3>. QED BY <1>5, <1>2, <3>2 DEF Fair, Grounds
  <2>5. \/ IsDb(z) /\ ~z.ok /\ Refuses(x, S, z)
        \/ Sweeps(doc, z) /\ Live(z) \cap S = {} /\ Live(z) \subseteq Live(x)
    BY <1>0, <1>2, <1>3, <1>4, <2>4, SweepDelete
  <2>6. Refuses(x, S, z) => ManualReference(x)
    BY <2>2 DEF Refuses, Blocked
  <2>7. ManualReference(x) => ManualReference(Db)
    BY <1>0, <1>1 DEF ManualReference
  <2>. QED BY <1>6, <2>5, <2>6, <2>7 DEF Fails
<1>. QED BY <1>7, <1>8

\* A statement after one that failed does nothing.
LEMMA FailsStays ==
  ASSUME NEW x, Fails(x), NEW S
  PROVE  Fails(delete(x, S))
BY DeleteIsDb DEF Fails

\* g lists the results of dropping table after table.
DropsOf(goes, s, b, g) ==
  /\ g[0] = b /\ \A k \in 1..Len(s) : g[k] = DropOp(goes, g[k-1], s[k])
  /\ Drops!Folded(goes, s, b) = g[Len(s)]

\* The intermediate results of that fold.
LEMMA DropsByPrefix ==
  ASSUME NEW goes, NEW T, NEW s \in Seq(T), NEW b
  PROVE  \E g : DropsOf(goes, s, b, g)
BY Drops!ByPrefix DEF DropsOf

\* drop_document_evidence is that fold.
LEMMA DropIs ==
  ASSUME NEW d, NEW doc, NEW goes
  PROVE  drop_document_evidence(d, doc, goes) =
           Drops!Folded(goes, GROUNDED_SUBJECTS, remove_evidence(d, EvidenceAt(d, doc)))
<1>1. PICK s : s = GROUNDED_SUBJECTS
  OBVIOUS
<1>2. PICK b : b = remove_evidence(d, EvidenceAt(d, doc))
  OBVIOUS
<1>3. drop_document_evidence(d, doc, goes) = FoldLeft(LAMBDA x, t : delete(x, goes \cap OfTable(x, t)), b, s)
  BY <1>1, <1>2 DEF drop_document_evidence
<1>4. FoldLeft(LAMBDA x, t : delete(x, goes \cap OfTable(x, t)), b, s) = Drops!Folded(goes, s, b)
  BY DEF FoldLeft, MapThenFoldSet, Max, Drops!Folded, Drops!Largest, DropOp
<1>. QED BY <1>1, <1>2, <1>3, <1>4

\* No chosen row of a grounded table is left.
Swept(doc, x) == Sweeps(doc, x) /\ \A i \in held[doc].rows \cap Live(x) : ~Grounds(rows[i].table)

\* The tables of GROUNDED_SUBJECTS.
Subjects ==
  {"engineering_relations", "engineering_relation_candidates", "derived_behavior_claims",
   "engineering_conflicts", "unsupported_constructs", "engineering_entity_candidates",
   "package_assignments", "engineering_entities"}

\* The tables, in their order.
LEMMA SubjectsAre ==
  /\ GROUNDED_SUBJECTS \in Seq(Subjects) /\ Len(GROUNDED_SUBJECTS) = 8
  /\ GROUNDED_SUBJECTS[6] = "engineering_entity_candidates"
  /\ \A k \in 1..8 : GROUNDED_SUBJECTS[k] = "engineering_entities" => k = 8
  /\ \A t : t \in Range(GROUNDED_SUBJECTS) <=> \E k \in 1..8 : t = GROUNDED_SUBJECTS[k]
<1>0. PICK s : s = GROUNDED_SUBJECTS
  OBVIOUS
<1>1. /\ s[1] = "engineering_relations" /\ s[2] = "engineering_relation_candidates"
      /\ s[3] = "derived_behavior_claims" /\ s[4] = "engineering_conflicts"
      /\ s[5] = "unsupported_constructs" /\ s[6] = "engineering_entity_candidates"
      /\ s[7] = "package_assignments" /\ s[8] = "engineering_entities" /\ s \in Seq(Subjects) /\ Len(s) = 8
  <2>1. Len(s) = 8
    BY <1>0 DEF GROUNDED_SUBJECTS
  <2>2. s \in Seq(Subjects)
    BY <1>0 DEF GROUNDED_SUBJECTS, Subjects
  <2>3. /\ s[1] = "engineering_relations" /\ s[2] = "engineering_relation_candidates"
        /\ s[3] = "derived_behavior_claims" /\ s[4] = "engineering_conflicts"
        /\ s[5] = "unsupported_constructs" /\ s[6] = "engineering_entity_candidates"
        /\ s[7] = "package_assignments" /\ s[8] = "engineering_entities"
    BY <1>0 DEF GROUNDED_SUBJECTS
  <2>. QED BY <2>1, <2>2, <2>3
<1>2. \A k \in 1..8 : s[k] = "engineering_entities" => k = 8
  <2>1. \A k \in 1..8 : k \in {1, 2, 3, 4, 5, 6, 7, 8}
    OBVIOUS
  <2>. QED BY <1>1, <2>1
<1>3. \A t : t \in Range(s) <=> \E k \in 1..8 : t = s[k]
  <2>1. DOMAIN s = 1..8
    BY <1>1
  <2>. QED BY <2>1 DEF Range
<1>. QED BY <1>0, <1>1, <1>2, <1>3

\* How far the fold has come.
Dropped(doc, x, k) ==
  Fails(x) \/ (Sweeps(doc, x) /\ \A m \in 1..k : Past(doc, x, GROUNDED_SUBJECTS[m]))

\* One more table.
LEMMA DroppedNext ==
  ASSUME NEW doc, Chosen(doc), NEW k \in 0..7, NEW x, Dropped(doc, x, k),
         NEW z, z = DropOp(held[doc].rows, x, GROUNDED_SUBJECTS[k+1])
  PROVE  Dropped(doc, z, k+1)
<1>1. PICK t : t = GROUNDED_SUBJECTS[k+1]
  OBVIOUS
<1>2. k + 1 \in 1..8 /\ t \in Range(GROUNDED_SUBJECTS) /\ z = DropOp(held[doc].rows, x, t)
  BY <1>1, SubjectsAre
<1>3. CASE Fails(x)
  <2>1. Fails(z)
    BY <1>2, <1>3, FailsStays DEF DropOp
  <2>. QED BY <2>1 DEF Dropped
<1>4. CASE Sweeps(doc, x) /\ \A m \in 1..k : Past(doc, x, GROUNDED_SUBJECTS[m])
  <2>1. t = "engineering_entities" => Past(doc, x, "engineering_entity_candidates")
    <3>1. t = "engineering_entities" => k + 1 = 8
      BY <1>1, <1>2, SubjectsAre
    <3>2. t = "engineering_entities" => 6 \in 1..k
      BY <3>1
    <3>. QED BY <1>4, <3>2, SubjectsAre
  <2>2. \/ Fails(z)
        \/ Sweeps(doc, z) /\ Live(z) \subseteq Live(x) /\ Past(doc, z, t)
    BY <1>2, <1>4, <2>1, SweepTable
  <2>3. CASE Fails(z)
    BY <2>3 DEF Dropped
  <2>4. CASE Sweeps(doc, z) /\ Live(z) \subseteq Live(x) /\ Past(doc, z, t)
    <3>1. ASSUME NEW m \in 1..(k+1) PROVE Past(doc, z, GROUNDED_SUBJECTS[m])
      <4>1. CASE m = k + 1
        BY <1>1, <2>4, <4>1
      <4>2. CASE m # k + 1
        <5>1. m \in 1..k
          BY <4>2
        <5>. QED BY <1>4, <2>4, <5>1 DEF Past
      <4>. QED BY <4>1, <4>2
    <3>. QED BY <2>4, <3>1 DEF Dropped
  <2>. QED BY <2>2, <2>3, <2>4
<1>. QED BY <1>3, <1>4 DEF Dropped

\* Before the first table.
LEMMA DroppedFirst ==
  ASSUME NEW doc, Chosen(doc), NEW x, x = remove_evidence(Db, EvidenceAt(Db, doc))
  PROVE  Dropped(doc, x, 0)
<1>0. Sound(Db) /\ doc \in Docs /\ IsDb(Db)
  BY DEF Chosen, Good, Sound, Shape
<1>1. Db.rows = rows /\ Db.evidence = evidence /\ Db.bindings = bindings /\ Db.ok
  BY DEF Db
<1>2. PICK e : e = [x EXCEPT !.new = << >>, !.found = << >>]
  OBVIOUS
<1>3. Without(Db, EvidenceAt(Db, doc), x)
  BY <1>0, <1>2, RemovesEvidence
<1>4. Shrinks(Db, x)
  BY <1>0, <1>3, RemoveShrinks
<1>5. Live(x) = Live(Db)
  BY <1>3 DEF Without, Live
<1>6. x.ok /\ x.evidence = [y \in EvidenceIds |-> IF y \in EvidenceAt(Db, doc) THEN Null ELSE evidence[y]]
      /\ x.bindings = {b \in bindings : b[1] \notin EvidenceAt(Db, doc)}
  BY <1>1, <1>3 DEF Without
<1>7. Sweeps(doc, x)
  BY <1>4, <1>5, <1>6 DEF Sweeps
<1>. QED BY <1>7 DEF Dropped

\* drop_document_evidence.
LEMMA DropStep ==
  ASSUME NEW doc, Chosen(doc), NEW e, e = drop_document_evidence(Db, doc, held[doc].rows)
  PROVE  Fails(e) \/ Swept(doc, e)
<1>1. PICK s, b, goes : s = GROUNDED_SUBJECTS /\ b = remove_evidence(Db, EvidenceAt(Db, doc)) /\ goes = held[doc].rows
  OBVIOUS
<1>2. s \in Seq(Subjects) /\ Len(s) = 8
  BY <1>1, SubjectsAre
<1>3. PICK g : DropsOf(goes, s, b, g)
  BY <1>2, DropsByPrefix
<1>4. g[0] = b /\ (\A k \in 1..8 : g[k] = DropOp(goes, g[k-1], s[k])) /\ Drops!Folded(goes, s, b) = g[8]
  BY <1>2, <1>3 DEF DropsOf
<1>5. e = g[8]
  BY <1>1, <1>4, DropIs
<1>. DEFINE B == {k \in 0..8 : Dropped(doc, g[k], k)}
<1>6. 0 \in B
  BY <1>1, <1>4, DroppedFirst
<1>7. ASSUME NEW k \in B, k < 8 PROVE k + 1 \in B
  <2>1. k \in 0..7 /\ k + 1 \in 1..8 /\ (k + 1) - 1 = k /\ Dropped(doc, g[k], k)
    BY <1>7
  <2>2. g[k+1] = DropOp(goes, g[k], s[k+1])
    <3>1. g[k+1] = DropOp(goes, g[(k+1)-1], s[k+1])
      BY <1>4, <2>1
    <3>. QED BY <2>1, <3>1
  <2>3. PICK x, z : x = g[k] /\ z = g[k+1]
    OBVIOUS
  <2>4. Dropped(doc, z, k+1)
    BY <1>1, <2>1, <2>2, <2>3, DroppedNext
  <2>. QED BY <2>1, <2>3, <2>4
<1>. HIDE DEF B
<1>8. 8 \in B
  BY <1>6, <1>7, UpTo
<1>9. Dropped(doc, e, 8)
  BY <1>5, <1>8 DEF B
<1>10. ASSUME \A m \in 1..8 : Past(doc, e, GROUNDED_SUBJECTS[m]), NEW i \in held[doc].rows \cap Live(e)
       PROVE  ~Grounds(rows[i].table)
  BY <1>10, SubjectsAre DEF Past, Grounds
<1>. QED BY <1>9, <1>10 DEF Dropped, Swept

----------------------------------------------------------------------------
(* The document's assignments and memberships, and the package. *)

\* Rows of the document, of one of the two tables whose rows name theirs.
LEMMA DocRowsAre ==
  ASSUME NEW doc \in Docs, Sound(Db), NEW x, Sweeps(doc, x),
         NEW t \in {"package_assignments", "package_documents"}, NEW S, S = DocRows(x, t, doc)
  PROVE  S \in SUBSET OfTable(x, t) /\ S \in SUBSET Ids /\ Fair(doc, S) /\ t \notin Parents
<1>1. \A i \in S : i \in OfTable(x, t) /\ x.rows[i].doc = doc
  BY DEF DocRows
<1>2. \A j \in Live(x) : x.rows[j] = Db.rows[j]
  BY ShrinkSound DEF Sweeps
<1>3. \A i \in S : rows[i].table = t /\ rows[i].doc = doc
  BY <1>1, <1>2 DEF OfTable, Db
<1>4. Fair(doc, S)
  BY <1>3 DEF Fair
<1>. QED BY <1>1, <1>4 DEF OfTable, Live, Parents

\* Marking rows as swept changes nothing that is swept.
LEMMA SweepMarked ==
  ASSUME NEW doc \in Docs, Sound(Db), NEW x, Sweeps(doc, x), NEW A \in SUBSET Ids,
         NEW y, y = [x EXCEPT !.swept = @ \cup A]
  PROVE  Sweeps(doc, y) /\ y.rows = x.rows /\ y.bindings = x.bindings /\ y.swept = x.swept \cup A
         /\ Live(y) = Live(x) /\ \A t : OfTable(y, t) = OfTable(x, t)
<1>1. Shrinks(Db, x) /\ IsDb(x)
  BY DEF Sweeps, Shrinks
<1>2. /\ IsDb(y) /\ y.rows = x.rows /\ y.evidence = x.evidence /\ y.bindings = x.bindings
      /\ y.swept = x.swept \cup A /\ y.ok = x.ok
  BY <1>1 DEF IsDb
<1>3. Live(y) = Live(x)
  BY <1>2 DEF Live
<1>4. Shrinks(Db, y)
  BY <1>1, <1>2, <1>3 DEF Shrinks
<1>5. \A t : OfTable(y, t) = OfTable(x, t)
  BY <1>2, <1>3 DEF OfTable
<1>6. Sweeps(doc, y)
  BY <1>2, <1>3, <1>4 DEF Sweeps, Gone
<1>. QED BY <1>2, <1>3, <1>5, <1>6

\* delete_assignments: bindings to other evidence stay, to a swept row.
LEMMA AssignmentsStep ==
  ASSUME NEW doc \in Docs, Sound(Db), NEW x, Fails(x) \/ Swept(doc, x), NEW z, z = delete_assignments(x, doc)
  PROVE  Fails(z) \/ Swept(doc, z)
<1>1. PICK A, y : A = DocRows(x, "package_assignments", doc) /\ y = [x EXCEPT !.swept = @ \cup A]
  OBVIOUS
<1>2. z = delete(y, A)
  BY <1>1 DEF delete_assignments
<1>3. CASE Fails(x)
  <2>1. Fails(y)
    BY <1>1, <1>3 DEF Fails, IsDb
  <2>. QED BY <1>2, <2>1, FailsStays
<1>4. CASE Swept(doc, x)
  <2>1. Sweeps(doc, x)
    BY <1>4 DEF Swept
  <2>2. A \in SUBSET OfTable(x, "package_assignments") /\ A \in SUBSET Ids /\ Fair(doc, A) /\ "package_assignments" \notin Parents
    BY <1>1, <2>1, DocRowsAre
  <2>3. /\ Sweeps(doc, y) /\ y.swept = x.swept \cup A /\ Live(y) = Live(x)
        /\ OfTable(y, "package_assignments") = OfTable(x, "package_assignments")
    BY <1>1, <2>1, <2>2, SweepMarked
  <2>4. A \in SUBSET OfTable(y, "package_assignments") /\ \A b \in y.bindings : b[2] \in A => b[2] \in y.swept
    BY <2>2, <2>3
  <2>5. Sweeps(doc, z) /\ Live(z) \subseteq Live(y)
    BY <1>2, <2>2, <2>3, <2>4, SweepAlone
  <2>. QED BY <1>4, <2>3, <2>5 DEF Swept
<1>. QED BY <1>3, <1>4

\* delete_memberships: no evidence supports them.
LEMMA MembershipsStep ==
  ASSUME NEW doc \in Docs, Sound(Db), NEW x, Fails(x) \/ Swept(doc, x), NEW z, z = delete_memberships(x, doc)
  PROVE  Fails(z) \/ Swept(doc, z)
<1>1. PICK A : A = DocRows(x, "package_documents", doc)
  OBVIOUS
<1>2. z = delete(x, A)
  BY <1>1 DEF delete_memberships
<1>3. CASE Fails(x)
  BY <1>2, <1>3, FailsStays
<1>4. CASE Swept(doc, x)
  <2>1. Sweeps(doc, x)
    BY <1>4 DEF Swept
  <2>2. A \in SUBSET OfTable(x, "package_documents") /\ A \in SUBSET Ids /\ Fair(doc, A) /\ "package_documents" \notin Parents
    BY <1>1, <2>1, DocRowsAre
  <2>3. Sound(x)
    BY <2>1, ShrinkSound DEF Sweeps
  <2>4. \A b \in x.bindings : b[2] \in A => b[2] \in x.swept
    <3>1. ~Grounds("package_documents")
      BY GroundsIs
    <3>. QED BY <2>2, <2>3, <3>1 DEF Sound, Bound, OfTable, Live
  <2>5. Sweeps(doc, z) /\ Live(z) \subseteq Live(x)
    BY <1>2, <2>1, <2>2, <2>4, SweepAlone
  <2>. QED BY <1>4, <2>5 DEF Swept
<1>. QED BY <1>3, <1>4

\* Rows that a delete of package p has no claim to.
Apart(x, p) ==
  {j \in Live(x) :
     \/ x.rows[j].table = "machine_packages" /\ j # p
     \/ Depth(x.rows[j].table) = 1 /\ Package(x, j) # p
     \/ x.rows[j].table = "assemblies" /\ Made(x, j) /\ Package(x, j) # p}

\* What goes with a package is its own.
LEMMA GoWithPackage ==
  ASSUME NEW x, Sound(x), NEW p \in OfTable(x, "machine_packages"), NEW gone \in SUBSET Ids, Takes(x, {p}, gone)
  PROVE  p \in gone /\ gone \cap Apart(x, p) = {}
<1>0. Shape(x) /\ KeysOk(x) /\ Makers(x) /\ p \in Live(x) /\ x.rows[p].table = "machine_packages"
  BY DEF Sound, OfTable
<1>. DEFINE X == Live(x) \ Apart(x, p)
<1>1. {p} \subseteq X /\ X \in SUBSET Ids
  <2>1. Depth("machine_packages") = 0
    BY DEF Depth
  <2>. QED BY <1>0, <2>1 DEF Apart, Live
<1>2. ASSUME NEW j \in Apart(x, p), NEW f \in ForeignKeys[x.rows[j].table], f.ondelete = "CASCADE"
      PROVE  x.rows[j].refs[f.col] \in Apart(x, p)
  <2>1. j \in Live(x) /\ x.rows[j].table \in EngineeringTables
    BY <1>0 DEF Apart, Shape, IsRow, AnyRow
  <2>2. KeyShape(x.rows[j].table, f) /\ KeyCase(x.rows[j].table, f)
    BY <2>1, KeyShapes, KeyCases
  <2>3. PICK r : r = x.rows[j].refs[f.col]
    OBVIOUS
  <2>4. r \in Live(x) /\ x.rows[r].table = f.parent /\ r # Null
    <3>1. f.required
      BY <1>2, <2>2 DEF KeyShape
    <3>2. r \in OfTable(x, f.parent)
      BY <1>0, <2>1, <2>3, <3>1 DEF KeysOk
    <3>3. r \in Nat
      BY <3>2 DEF OfTable, Live, Ids
    <3>. QED BY <3>2, <3>3, EvidenceAssumption DEF OfTable
  <2>5. x.rows[j].table # "machine_packages"
    BY <1>2, <2>1, KeyPlaces
  <2>6. Package(x, j) # p
    BY <2>5 DEF Apart
  <2>7. CASE f = Owned
    <3>1. f.col = "package_id" /\ f.parent = "machine_packages"
      BY <2>7, KeyFields DEF Owned
    <3>. QED BY <2>3, <2>4, <2>6, <3>1 DEF Apart, Package
  <2>8. CASE Depth(x.rows[j].table) = 1
    <3>1. Depth(f.parent) < 1
      BY <1>2, <2>2, <2>8 DEF KeyShape
    <3>2. f.parent = "machine_packages"
      BY <3>1 DEF Depth
    <3>3. f = Owned
      BY <2>2, <3>2 DEF KeyShape
    <3>. QED BY <2>7, <3>3
  <2>9. CASE f # Owned /\ x.rows[j].table = "assemblies" /\ Made(x, j)
    <3>1. f = Key("machine_id", "machines", "CASCADE")
      BY <1>2, <2>2, <2>9, KeyFields, SetsNull DEF KeyCase
    <3>2. f.col = "machine_id" /\ f.parent = "machines"
      BY <3>1, KeyFields
    <3>3. OwnRefs(x, x.rows[j])
      BY <1>0, <2>1 DEF Makers
    <3>4. Package(x, r) = Package(x, j)
      BY <2>3, <2>4, <2>9, <3>2, <3>3 DEF OwnRefs, Made, Package
    <3>5. Depth("machines") = 1
      BY DEF Depth
    <3>. QED BY <2>3, <2>4, <2>6, <3>2, <3>4, <3>5 DEF Apart
  <2>. QED BY <2>5, <2>7, <2>8, <2>9 DEF Apart
<1>3. Closed(x, X)
  <2>1. SUFFICES ASSUME NEW j \in Live(x), Refers(x, j, X, "CASCADE"), j \in Apart(x, p) PROVE FALSE
    BY DEF Closed
  <2>2. PICK f \in ForeignKeys[x.rows[j].table] : f.ondelete = "CASCADE" /\ x.rows[j].refs[f.col] \in X
    BY <2>1 DEF Refers
  <2>. QED BY <1>2, <2>1, <2>2
<1>4. gone \subseteq X
  BY <1>1, <1>3 DEF Takes
<1>. QED BY <1>4 DEF Takes

\* A delete of a package is refused only for a caller's optional reference: what the
\* worker and the resolver wrote goes with what it refers to.
LEMMA PackageRefused ==
  ASSUME NEW x, Sound(x), NEW p \in OfTable(x, "machine_packages"), NEW z, Refuses(x, {p}, z)
  PROVE  ManualReference(x)
<1>0. Shape(x) /\ KeysOk(x) /\ Makers(x) /\ p \in Live(x)
  BY DEF Sound, OfTable
<1>1. PICK some \in SUBSET Ids : \E j \in Live(x) :
        /\ Takes(x, {p}, some) /\ j \notin some
        /\ Refers(x, j, some, SetNull) /\ ~Refers(x, j, some, "CASCADE")
  BY DEF Refuses
<1>2. PICK j \in Live(x) :
        /\ Takes(x, {p}, some) /\ j \notin some
        /\ Refers(x, j, some, SetNull) /\ ~Refers(x, j, some, "CASCADE")
  BY <1>1
<1>3. PICK f \in ForeignKeys[x.rows[j].table] : f.ondelete = SetNull /\ x.rows[j].refs[f.col] \in some
  BY <1>2 DEF Refers
<1>4. PICK r : r = x.rows[j].refs[f.col]
  OBVIOUS
<1>5. r \in some /\ r # Null /\ p \in some /\ some \cap Apart(x, p) = {}
  <2>1. p \in some /\ some \cap Apart(x, p) = {}
    BY <1>2, GoWithPackage
  <2>2. r \in Nat
    <3>1. some \subseteq Ids /\ r \in some
      BY <1>1, <1>3, <1>4
    <3>2. r \in Ids
      BY <3>1
    <3>. QED BY <3>2 DEF Ids
  <2>. QED BY <1>3, <1>4, <2>1, <2>2, EvidenceAssumption
<1>6. CASE x.rows[j].method = Manual
  BY <1>3, <1>4, <1>5, <1>6 DEF ManualReference
<1>7. CASE x.rows[j].method # Manual
  <2>1. /\ x.rows[j].table \in EngineeringTables /\ x.rows[j].method \in {Manual, Worker, Resolver}
        /\ MadeBy(x.rows[j]) /\ OwnRefs(x, x.rows[j])
    BY <1>0 DEF Shape, IsRow, AnyRow, Makers
  <2>2. x.rows[j].table \in WorkerTables \cup ResolverTables
    BY <1>7, <2>1 DEF MadeBy
  <2>3. KeyCase(x.rows[j].table, f) /\ KeyShape(x.rows[j].table, f)
    BY <2>1, KeyCases, KeyShapes
  <2>4. f # Owned
    BY <1>3, KeyFields, SetsNull DEF Owned
  <2>5. r \in Live(x) /\ x.rows[r].table = f.parent
    BY <1>0, <1>4, <1>5, RefsLive
  <2>6. Made(x, r) /\ Package(x, r) = Package(x, j)
    <3>1. f.col # "package_id"
      BY <2>3, <2>4 DEF KeyShape
    <3>. QED BY <1>4, <1>5, <1>7, <2>1, <3>1 DEF OwnRefs, Package
  <2>7. f.parent \in {"machines", "assemblies", "engineering_entities"}
    BY <2>2, <2>3, <2>4, KeyFields DEF KeyCase, WorkerTables, ResolverTables
  <2>8. Package(x, r) = p
    <3>1. r \notin Apart(x, p)
      BY <1>4, <1>5
    <3>2. Depth("machines") = 1 /\ Depth("engineering_entities") = 1
      BY DEF Depth
    <3>. QED BY <2>5, <2>6, <2>7, <3>1, <3>2 DEF Apart
  <2>9. Owned \in ForeignKeys[x.rows[j].table] /\ Owned.col = "package_id" /\ Owned.ondelete = "CASCADE"
    <3>1. x.rows[j].table \notin Unpackaged
      <4>1. x.rows[j].table # "machine_packages"
        BY <2>1, KeyPlaces
      <4>. QED BY <2>2, <4>1 DEF Unpackaged, WorkerTables, ResolverTables
    <3>. QED BY <2>1, <3>1, KeyOwned, KeyFields DEF Owned
  <2>10. x.rows[j].refs[Owned.col] = p
    BY <2>6, <2>8, <2>9 DEF Package
  <2>11. Refers(x, j, some, "CASCADE")
    BY <1>5, <2>9, <2>10 DEF Refers
  <2>. QED BY <1>2, <2>11
<1>. QED BY <1>6, <1>7

\* The package p is gone or has members.
Left(x, p) == p \in OfTable(x, "machine_packages") => MembersOf(x, p) # {}

\* delete_generated_package.
LEMMA PackageGone ==
  ASSUME NEW doc \in Docs, Sound(Db), NEW p, NEW x, Fails(x) \/ Swept(doc, x),
         NEW z, z = delete_generated_package(x, p)
  PROVE  Fails(z) \/ (Swept(doc, z) /\ Left(z, p))
<1>1. CASE Fails(x)
  BY <1>1, FailsStays DEF delete_generated_package
<1>2. CASE Swept(doc, x) /\ ~(p \in OfTable(x, "machine_packages") /\ MembersOf(x, p) = {})
  <2>1. z = x
    BY <1>2 DEF delete_generated_package
  <2>. QED BY <1>2, <2>1 DEF Left
<1>3. CASE Swept(doc, x) /\ p \in OfTable(x, "machine_packages") /\ MembersOf(x, p) = {}
  <2>1. z = delete(x, {p}) /\ Sweeps(doc, x)
    BY <1>3 DEF delete_generated_package, Swept
  <2>2. Sound(x) /\ {p} \in SUBSET Live(x) /\ x.rows[p].table = "machine_packages"
    BY <1>3, <2>1, ShrinkSound DEF Sweeps, OfTable
  <2>3. \A b \in x.bindings : b[2] \in {p} => b[2] \in x.swept
    <3>1. ~Grounds("machine_packages")
      BY GroundsIs
    <3>. QED BY <2>2, <3>1 DEF Sound, Bound, Live
  <2>4. \A j \in Live(x) : x.rows[j] = Db.rows[j] /\ Package(x, j) = Package(Db, j)
    BY <2>1, ShrinkSound DEF Sweeps, Package
  <2>5. ASSUME NEW gone \in SUBSET Ids, Takes(x, {p}, gone) PROVE Fair(doc, gone)
    <3>1. p \in gone /\ gone \cap Apart(x, p) = {}
      BY <1>3, <2>2, <2>5, GoWithPackage
    <3>2. gone \subseteq Live(x)
      BY <2>5 DEF Takes
    <3>3. ASSUME NEW j \in gone, Depth(rows[j].table) = 1 PROVE Package(Db, j) \in gone
      <4>1. j \in Live(x) /\ x.rows[j] = rows[j] /\ Package(x, j) = Package(Db, j)
        BY <2>4, <3>2 DEF Db
      <4>2. Package(x, j) = p
        BY <3>1, <3>3, <4>1 DEF Apart
      <4>. QED BY <3>1, <4>1, <4>2
    <3>. QED BY <3>3 DEF Fair
  <2>6. \/ IsDb(z) /\ ~z.ok /\ Refuses(x, {p}, z)
        \/ Sweeps(doc, z) /\ Live(z) \cap {p} = {} /\ Live(z) \subseteq Live(x)
    BY <2>1, <2>2, <2>3, <2>5, SweepDelete
  <2>7. ASSUME Refuses(x, {p}, z) PROVE ManualReference(Db)
    <3>1. ManualReference(x)
      BY <1>3, <2>2, <2>7, PackageRefused
    <3>2. Live(x) \subseteq Live(Db)
      BY <2>1, ShrinkSound DEF Sweeps
    <3>. QED BY <2>4, <3>1, <3>2 DEF ManualReference
  <2>. QED BY <1>3, <2>6, <2>7 DEF Fails, Swept, Left, OfTable
<1>. QED BY <1>1, <1>2, <1>3

\* delete_document.
LEMMA DeleteDocument ==
  ASSUME NEW doc, Chosen(doc), NEW e, e = delete_document(doc)
  PROVE  Fails(e) \/ (Swept(doc, e) /\ Left(e, held[doc].package))
<1>0. doc \in Docs /\ Sound(Db)
  BY DEF Chosen, Good
<1>1. PICK a : a = drop_document_evidence(Db, doc, held[doc].rows)
  OBVIOUS
<1>2. PICK b : b = delete_assignments(a, doc)
  OBVIOUS
<1>3. PICK c : c = delete_memberships(b, doc)
  OBVIOUS
<1>4. e = delete_generated_package(c, held[doc].package)
  BY <1>1, <1>2, <1>3 DEF delete_document
<1>5. Fails(a) \/ Swept(doc, a)
  BY <1>1, DropStep
<1>6. Fails(b) \/ Swept(doc, b)
  BY <1>0, <1>2, <1>5, AssignmentsStep
<1>7. Fails(c) \/ Swept(doc, c)
  BY <1>0, <1>3, <1>6, MembershipsStep
<1>. QED BY <1>0, <1>4, <1>7, PackageGone

----------------------------------------------------------------------------
(* What a delete that commits leaves. *)

\* The evidence that is left, and the rows, are as before.
LEMMA SweptAre ==
  ASSUME NEW doc, Chosen(doc), NEW x, Swept(doc, x)
  PROVE  /\ Sound(x) /\ Live(x) \subseteq Live(Db) /\ \A i \in Live(x) : x.rows[i] = rows[i] /\ Package(x, i) = Package(Db, i)
         /\ \A t : \A i \in Live(x) : i \in OfTable(x, t) <=> i \in OfTable(Db, t)
         /\ \A i : \A y : y \in EvidenceOf(x, i) <=> y \in EvidenceOf(Db, i) /\ evidence[y] # doc
         /\ \A i : \A y \in EvidenceOf(x, i) : x.evidence[y] = evidence[y] /\ evidence[y] \in Docs
         /\ x.bindings \subseteq bindings /\ \A b \in x.bindings : x.evidence[b[1]] = evidence[b[1]] /\ evidence[b[1]] # doc
<1>0. Sound(Db) /\ Shape(Db) /\ Bound(Db) /\ doc \in Docs
  BY DEF Chosen, Good, Sound
<1>1. Db.rows = rows /\ Db.evidence = evidence /\ Db.bindings = bindings
  BY DEF Db
<1>2. /\ Shrinks(Db, x) /\ x.bindings = {b \in bindings : b[1] \notin EvidenceAt(Db, doc)}
      /\ x.evidence = [y \in EvidenceIds |-> IF y \in EvidenceAt(Db, doc) THEN Null ELSE evidence[y]]
  BY DEF Swept, Sweeps
<1>3. /\ Sound(x) /\ Live(x) \subseteq Live(Db) /\ \A i \in Live(x) : x.rows[i] = rows[i]
  BY <1>0, <1>1, <1>2, ShrinkSound
<1>4. \A i \in Live(x) : Package(x, i) = Package(Db, i)
  BY <1>1, <1>3 DEF Package
<1>5. \A t : \A i \in Live(x) : i \in OfTable(x, t) <=> i \in OfTable(Db, t)
  BY <1>1, <1>3 DEF OfTable
<1>6. ASSUME NEW b \in bindings
      PROVE  /\ b \in x.bindings <=> evidence[b[1]] # doc
             /\ b \in x.bindings => x.evidence[b[1]] = evidence[b[1]] /\ evidence[b[1]] \in Docs
  <2>1. b[1] \in EvidenceIds /\ evidence[b[1]] # Null /\ evidence[b[1]] \in Docs \cup {Null}
    BY <1>0, <1>1 DEF Shape, Bound
  <2>2. b[1] \in EvidenceAt(Db, doc) <=> evidence[b[1]] = doc
    BY <1>1, <2>1 DEF EvidenceAt
  <2>3. x.evidence[b[1]] = IF b[1] \in EvidenceAt(Db, doc) THEN Null ELSE evidence[b[1]]
    BY <1>2, <2>1
  <2>. QED BY <1>2, <2>1, <2>2, <2>3
<1>7. x.bindings \subseteq bindings
  BY <1>2
<1>8. ASSUME NEW i, NEW y PROVE y \in EvidenceOf(x, i) <=> y \in EvidenceOf(Db, i) /\ evidence[y] # doc
  <2>1. y \in EvidenceOf(x, i) <=> \E b \in x.bindings : b[1] = y /\ b[2] = i
    BY DEF EvidenceOf
  <2>2. y \in EvidenceOf(Db, i) <=> \E b \in bindings : b[1] = y /\ b[2] = i
    BY <1>1 DEF EvidenceOf
  <2>. QED BY <1>6, <1>7, <2>1, <2>2
<1>9. ASSUME NEW i, NEW y \in EvidenceOf(x, i) PROVE x.evidence[y] = evidence[y] /\ evidence[y] \in Docs
  <2>1. PICK b \in x.bindings : b[1] = y /\ b[2] = i
    BY <1>9 DEF EvidenceOf
  <2>. QED BY <1>6, <1>7, <2>1
<1>10. \A b \in x.bindings : x.evidence[b[1]] = evidence[b[1]] /\ evidence[b[1]] # doc
  BY <1>6, <1>7
<1>. QED BY <1>3, <1>4, <1>5, <1>7, <1>8, <1>9, <1>10

\* What the resolver wrote for a package stays as long as anything of that does.
LEMMA PackageStays ==
  ASSUME NEW doc, Chosen(doc), NEW x, Swept(doc, x), NEW i \in Live(x), rows[i].method = Resolver,
         NEW s \in Live(Db), rows[s].method = Resolver, Package(Db, s) = Package(Db, i)
  PROVE  s \in Live(x) /\ \A y : y \in EvidenceOf(x, s) <=> y \in EvidenceOf(Db, s)
<1>0. Sound(Db) /\ Db.rows = rows /\ Db.evidence = evidence
  BY DEF Chosen, Good, Db
<1>1. /\ Sound(x) /\ Live(x) \subseteq Live(Db) /\ \A j \in Live(x) : x.rows[j] = rows[j] /\ Package(x, j) = Package(Db, j)
      /\ \A j : \A y : y \in EvidenceOf(x, j) <=> y \in EvidenceOf(Db, j) /\ evidence[y] # doc
  BY SweptAre
<1>2. rows[i].table \in ResolverTables /\ rows[s].table \in ResolverTables
  BY <1>0, <1>1 DEF Sound, Makers, MadeBy
<1>3. rows[i].table \notin Unpackaged /\ Depth(rows[s].table) = 1 /\ Grounds(rows[i].table)
  BY <1>2, GroundsIs DEF ResolverTables, Unpackaged, Depth
<1>4. i \notin held[doc].rows
  BY <1>3 DEF Swept
<1>5. rows[Package(Db, s)].code # doc
  BY <1>1, <1>4, OwnChosen
<1>6. s \notin held[doc].rows
  BY <1>5, OwnChosen
<1>7. Package(x, i) \in Live(x)
  BY <1>1, <1>3, PackageLive DEF Sound
<1>8. s \in Live(x)
  <2>1. ~Gone(doc, x, s)
    BY <1>1, <1>2, <1>3, <1>6, <1>7 DEF Gone, ResolverTables
  <2>. QED BY <2>1 DEF Swept, Sweeps
<1>9. \A y \in EvidenceOf(Db, s) : evidence[y] # doc
  BY <1>0, <1>5 DEF Sound, OwnEvidence
<1>. QED BY <1>1, <1>8, <1>9

\* It stays coherent.
LEMMA SweptCoherent ==
  ASSUME NEW doc, Chosen(doc), NEW x, Swept(doc, x)
  PROVE  Coherent(x)
<1>0. Sound(Db) /\ Db.rows = rows /\ Sides(Db) /\ Standing(Db)
  BY DEF Chosen, Good, Coherent, Db
<1>1. /\ Live(x) \subseteq Live(Db) /\ \A i \in Live(x) : x.rows[i] = rows[i] /\ Package(x, i) = Package(Db, i)
      /\ \A t : \A i \in Live(x) : i \in OfTable(x, t) <=> i \in OfTable(Db, t)
  BY SweptAre
<1>2. Sides(x)
  <2>1. SUFFICES ASSUME NEW i \in OfTable(x, "engineering_conflicts"), x.rows[i].method = Resolver,
                        NEW s \in Range(x.rows[i].sides)
                 PROVE  /\ s \in Live(x) /\ x.rows[s].method = Resolver /\ Package(x, s) = Package(x, i)
                        /\ x.rows[s].table # "engineering_conflicts"
    BY DEF Sides
  <2>2. i \in Live(x) /\ i \in OfTable(Db, "engineering_conflicts") /\ rows[i].method = Resolver /\ s \in Range(rows[i].sides)
    BY <1>1, <2>1 DEF OfTable
  <2>3. /\ s \in Live(Db) /\ rows[s].method = Resolver /\ Package(Db, s) = Package(Db, i)
        /\ rows[s].table # "engineering_conflicts"
    BY <1>0, <2>2 DEF Sides
  <2>4. s \in Live(x)
    BY <2>2, <2>3, PackageStays
  <2>. QED BY <1>1, <2>2, <2>3, <2>4
<1>3. Standing(x)
  <2>1. SUFFICES ASSUME NEW n \in OfTable(x, "engineering_entities"), x.rows[n].method = Resolver
                 PROVE  Stands(x, n)
    BY DEF Standing
  <2>2. n \in Live(x) /\ n \in OfTable(Db, "engineering_entities") /\ n \in Live(Db) /\ rows[n].method = Resolver /\ n # Null
    <3>1. n \in Nat
      BY <2>1 DEF OfTable, Live, Ids
    <3>. QED BY <1>1, <2>1, <3>1, EvidenceAssumption DEF OfTable
  <2>3. \A y : y \in EvidenceOf(x, n) <=> y \in EvidenceOf(Db, n)
    BY <2>2, PackageStays
  <2>4. ASSUME NEW c \in Merged(Db, n) PROVE c \in Merged(x, n) /\ \A y : y \in EvidenceOf(x, c) <=> y \in EvidenceOf(Db, c)
    <3>1. c \in OfTable(Db, "engineering_entity_candidates") /\ c \in Live(Db) /\ rows[c].refs["canonical_entity_id"] = n
      BY <1>0, <2>4 DEF Merged, OfTable
    <3>2. rows[c].method = Resolver /\ Package(Db, c) = Package(Db, n)
      BY <1>0, <2>2, <3>1, MergedIn
    <3>3. c \in Live(x) /\ \A y : y \in EvidenceOf(x, c) <=> y \in EvidenceOf(Db, c)
      BY <2>2, <3>1, <3>2, PackageStays
    <3>. QED BY <1>1, <3>1, <3>3 DEF Merged
  <2>5. ASSUME NEW c \in Merged(x, n) PROVE c \in Merged(Db, n)
    BY <1>0, <1>1, <2>5 DEF Merged, OfTable
  <2>6. Stands(Db, n)
    BY <1>0, <2>2 DEF Standing
  <2>. QED BY <2>3, <2>4, <2>5, <2>6 DEF Stands
<1>. QED BY <1>2, <1>3 DEF Coherent

\* The packages of other documents, and their members.
LEMMA SweptPackages ==
  ASSUME NEW doc, Chosen(doc), NEW x, Swept(doc, x), NEW y \in Docs, y # doc,
         NEW rec, rec[y] = recorded[y], NEW del, y \notin del => y \notin deleted
  PROVE  PackageOk(x, rec, del, y)
<1>0. PackageOk(Db, recorded, deleted, y) /\ Sound(Db) /\ Db.rows = rows
  BY DEF Chosen, Good, Db
<1>1. /\ Live(x) \subseteq Live(Db) /\ \A i \in Live(x) : x.rows[i] = rows[i] /\ Package(x, i) = Package(Db, i)
      /\ \A t : \A i \in Live(x) : i \in OfTable(x, t) <=> i \in OfTable(Db, t)
  BY SweptAre
<1>2. \A p : For(y, x, p) => For(y, Db, p) /\ p \in Live(x)
  BY <1>0, <1>1 DEF For, OfTable
<1>3. ASSUME NEW p \in Live(x), y \in MembersOf(Db, p) PROVE y \in MembersOf(x, p)
  <2>1. PICK i \in InPackageOf(Db, "package_documents", p) : rows[i].doc = y
    BY <1>0, <1>3 DEF MembersOf
  <2>2. i \in Live(Db) /\ rows[i].table = "package_documents" /\ Package(Db, i) = p
    BY <1>0, <2>1 DEF InPackageOf, OfTable, Package
  <2>3. Depth("package_documents") = 1 /\ ~Grounds("package_documents")
    BY GroundsIs DEF Depth
  <2>4. ~Gone(doc, x, i)
    BY <1>3, <2>1, <2>2, <2>3 DEF Gone
  <2>5. i \in Live(x)
    BY <2>2, <2>4 DEF Swept, Sweeps
  <2>6. i \in InPackageOf(x, "package_documents", p) /\ x.rows[i].doc = y
    BY <1>0, <1>1, <2>1, <2>5 DEF InPackageOf
  <2>. QED BY <2>6 DEF MembersOf
<1>4. rec[y] \in Live(x) => For(y, x, rec[y])
  <2>1. rec[y] \in Live(x) => For(y, Db, rec[y])
    BY <1>0, <1>1 DEF PackageOk
  <2>. QED BY <1>0, <1>1, <2>1 DEF For
<1>5. y \notin del => \A p : For(y, x, p) => rec[y] \in {p, Lost} /\ y \in MembersOf(x, p)
  BY <1>0, <1>2, <1>3 DEF PackageOk
<1>6. y \notin del => \A p : \A q : For(y, x, p) /\ For(y, x, q) => p = q
  BY <1>0, <1>2 DEF PackageOk
<1>. QED BY <1>4, <1>5, <1>6 DEF PackageOk

\* What the other transactions have read.
LEMMA SweptHeld ==
  ASSUME NEW doc, Chosen(doc), NEW x, Swept(doc, x), NEW y \in Docs, y # doc,
         NEW rec, rec[y] = recorded[y], NEW del, y \notin deleted => y \notin del
  PROVE  HeldOk(x, rec, del, held[y], y)
<1>0. HeldOk(Db, recorded, deleted, held[y], y) /\ Sound(Db) /\ Db.rows = rows /\ Db.evidence = evidence /\ Db.bindings = bindings
  BY DEF Chosen, Good, Db
<1>1. /\ Sound(x) /\ Live(x) \subseteq Live(Db) /\ \A i \in Live(x) : x.rows[i] = rows[i] /\ Package(x, i) = Package(Db, i)
      /\ \A i : \A e \in EvidenceOf(x, i) : x.evidence[e] = evidence[e]
      /\ \A i : \A e : e \in EvidenceOf(x, i) <=> e \in EvidenceOf(Db, i) /\ evidence[e] # doc
      /\ x.bindings \subseteq bindings /\ \A b \in x.bindings : x.evidence[b[1]] = evidence[b[1]]
  BY SweptAre
<1>2. ASSUME NEW b \in x.bindings, x.rows[b[2]] # NoRow PROVE rows[b[2]] # NoRow /\ x.rows[b[2]] = rows[b[2]]
  <2>1. b[2] \in Ids
    BY <1>1 DEF Sound, Shape
  <2>. QED BY <1>0, <1>1, <1>2, <2>1 DEF Live
<1>3. (\A s : Seen(Db, y, s) => Seen(x, y, s)) /\ \A s : ReadAll(Db, y, s) => ReadAll(x, y, s)
  BY <1>0, <1>1, <1>2 DEF Seen, ReadAll
<1>4. ASSUME NEW i \in Live(x), x.rows[i].method = Resolver
      PROVE  /\ i \in Live(Db) /\ rows[i].method = Resolver
             /\ x.rows[Package(x, i)].code = rows[Package(Db, i)].code
  <2>1. i \in Live(Db) /\ x.rows[i] = rows[i] /\ MadeBy(x.rows[i])
    BY <1>1 DEF Sound, Makers
  <2>2. x.rows[i].table \notin Unpackaged
    BY <1>4, <2>1 DEF MadeBy, ResolverTables, Unpackaged
  <2>3. Package(x, i) \in Live(x)
    BY <1>1, <2>2, PackageLive DEF Sound
  <2>. QED BY <1>1, <1>4, <2>1, <2>3
<1>5. ASSUME held[y].phase = "read"
      PROVE  /\ \A i \in held[y].rows \cap Live(x) : x.rows[i].method = Resolver => x.rows[Package(x, i)].code = y
             /\ ReadAll(x, y, held[y].rows)
  <2>1. /\ \A i \in held[y].rows \cap Live(Db) : rows[i].method = Resolver => rows[Package(Db, i)].code = y
        /\ ReadAll(Db, y, held[y].rows)
    BY <1>0, <1>5 DEF HeldOk
  <2>. QED BY <1>3, <1>4, <2>1
<1>6. ASSUME held[y].phase = "dropped", NEW i \in held[y].rows PROVE EvidenceOf(x, i) \subseteq EvidenceAt(x, y)
  <2>1. SUFFICES ASSUME NEW e \in EvidenceOf(x, i) PROVE e \in EvidenceAt(x, y)
    OBVIOUS
  <2>2. e \in EvidenceAt(Db, y)
    BY <1>0, <1>1, <1>6, <2>1 DEF HeldOk
  <2>. QED BY <1>0, <1>1, <2>1, <2>2 DEF EvidenceAt
<1>. QED BY <1>0, <1>3, <1>5, <1>6 DEF HeldOk

\* What is left stands on evidence that is left.
LEMMA SweptGrounded ==
  ASSUME NEW doc, Chosen(doc), NEW x, Swept(doc, x), NEW i \in Live(x),
         NEW h, h = [held EXCEPT ![doc] = Free]
  PROVE  Grounding(x, h, i)
<1>0. /\ Grounding(Db, held, i) /\ Db.rows = rows /\ Db.evidence = evidence /\ i \in Live(Db)
      /\ held \in [Docs -> Holding] /\ doc \in Docs
  BY SweptAre DEF Chosen, Good, Settled, Db
<1>1. /\ x.rows[i] = rows[i] /\ Sound(Db)
      /\ \A y : y \in EvidenceOf(x, i) <=> y \in EvidenceOf(Db, i) /\ evidence[y] # doc
      /\ \A y \in EvidenceOf(x, i) : x.evidence[y] = evidence[y] /\ evidence[y] \in Docs
  BY SweptAre DEF Chosen, Good
<1>2. Free.phase = "none" /\ h[doc] = Free /\ \A y \in Docs : y # doc => h[y] = held[y]
  BY <1>0 DEF Free
<1>3. SUFFICES ASSUME Grounds(rows[i].table), ~rows[i].raced
               PROVE  /\ EvidenceOf(x, i) # {}
                      /\ Dropping(h, i) \/ \E y \in EvidenceOf(x, i) : h[x.evidence[y]].phase # "dropped"
  BY <1>1 DEF Grounding
<1>4. i \notin held[doc].rows
  BY <1>3 DEF Swept
<1>5. /\ EvidenceOf(Db, i) # {}
      /\ Dropping(held, i) \/ \E y \in EvidenceOf(Db, i) : held[evidence[y]].phase # "dropped"
  BY <1>0, <1>3 DEF Grounding
<1>6. PICK z \in EvidenceOf(Db, i) : z \notin EvidenceAt(Db, doc)
  BY <1>0, <1>3, <1>4, AllChosen
<1>7. z \in EvidenceOf(x, i)
  <2>1. PICK b \in Db.bindings : b[1] = z
    BY <1>6 DEF EvidenceOf
  <2>2. z \in EvidenceIds
    BY <1>1, <2>1 DEF Sound, Shape
  <2>. QED BY <1>0, <1>1, <1>6, <2>2 DEF EvidenceAt
<1>8. CASE Dropping(held, i)
  <2>1. PICK y \in Docs : held[y].phase = "dropped" /\ i \in held[y].rows
    BY <1>8 DEF Dropping
  <2>2. y # doc
    BY <1>4, <2>1
  <2>. QED BY <1>2, <1>7, <2>1, <2>2 DEF Dropping
<1>9. CASE \E y \in EvidenceOf(Db, i) : held[evidence[y]].phase # "dropped"
  <2>1. PICK y \in EvidenceOf(Db, i) : held[evidence[y]].phase # "dropped"
    BY <1>9
  <2>2. evidence[y] # doc
    BY <2>1 DEF Chosen
  <2>3. y \in EvidenceOf(x, i) /\ x.evidence[y] = evidence[y] /\ evidence[y] \in Docs
    BY <1>1, <2>1, <2>2
  <2>. QED BY <1>2, <2>1, <2>2, <2>3
<1>. QED BY <1>5, <1>8, <1>9

\* Of every other document the same is known.
SameOthers(doc, rec, del, h) ==
  \A y \in Docs : y # doc => rec[y] = recorded[y] /\ h[y] = held[y] /\ (y \in del <=> y \in deleted)

\* The other documents, whose transactions go on.
LEMMA SweptOthers ==
  ASSUME NEW doc, Chosen(doc), NEW x, Swept(doc, x), NEW rec, NEW del, NEW h, SameOthers(doc, rec, del, h),
         NEW y \in Docs, y # doc
  PROVE  PackageOk(x, rec, del, y) /\ HeldOk(x, rec, del, h[y], y)
<1>1. rec[y] = recorded[y] /\ h[y] = held[y] /\ (y \notin del => y \notin deleted) /\ (y \notin deleted => y \notin del)
  BY DEF SameOthers
<1>2. PackageOk(x, rec, del, y)
  BY <1>1, SweptPackages
<1>3. HeldOk(x, rec, del, held[y], y)
  BY <1>1, SweptHeld
<1>. QED BY <1>1, <1>2, <1>3

\* The delete of doc commits.
LEMMA DeleteGood ==
  ASSUME NEW doc, Chosen(doc), NEW x, Swept(doc, x), NEW r, r = IF recorded[doc] = Lost THEN Lost ELSE Null,
         NEW rec, rec = [recorded EXCEPT ![doc] = r], NEW del, del = deleted \cup {doc},
         NEW h, h = [held EXCEPT ![doc] = Free]
  PROVE  Good(x, rec, del, h)
<1>0. Settled(recorded, deleted, held) /\ doc \in Docs
  BY DEF Chosen, Good
<1>1. Free \in Holding /\ Free.phase = "none" /\ Free.rows = {}
  BY DEF Free, Holding, Phases
<1>2. /\ rec[doc] = r /\ h[doc] = Free /\ \A y \in Docs : y # doc => rec[y] = recorded[y] /\ h[y] = held[y]
      /\ Settled(rec, del, h)
  BY <1>0, <1>1 DEF Settled
<1>3. PackageOk(x, rec, del, doc) /\ HeldOk(x, rec, del, h[doc], doc)
  <2>1. r \notin Live(x)
    BY EvidenceAssumption DEF Live, Ids
  <2>2. PackageOk(x, rec, del, doc)
    BY <1>2, <2>1 DEF PackageOk
  <2>. QED BY <1>1, <1>2, <2>2 DEF HeldOk
<1>4. \A y \in Docs : y # doc => PackageOk(x, rec, del, y) /\ HeldOk(x, rec, del, h[y], y)
  <2>1. SameOthers(doc, rec, del, h)
    BY <1>2 DEF SameOthers
  <2>. QED BY <2>1, SweptOthers
<1>5. Sound(x) /\ Coherent(x)
  BY SweptAre, SweptCoherent
<1>6. \A i \in Live(x) : Grounding(x, h, i)
  BY SweptGrounded
<1>. QED BY <1>2, <1>3, <1>4, <1>5, <1>6 DEF Good

\* DeleteEnd.
LEMMA DeleteEndStep ==
  ASSUME IInv, NEW doc \in Docs, DeleteEnd(doc)
  PROVE  IInv'
<1>0. Good(Db, recorded, deleted, held) /\ Chosen(doc)
  BY DEF IInv, DeleteEnd, Chosen
<1>1. PICK d : d = delete_document(doc)
  OBVIOUS
<1>2. /\ held' = [held EXCEPT ![doc] = Free]
      /\ \/ /\ Commit(d) /\ deleted' = deleted \cup {doc}
            /\ recorded' = [recorded EXCEPT ![doc] = IF @ = Lost THEN Lost ELSE Null]
         \/ /\ Rollback(d, <<"delete", doc>>) /\ UNCHANGED deleted
            /\ recorded' = [recorded EXCEPT ![doc] = LostRecord(@)]
  BY <1>1 DEF DeleteEnd
<1>3. Fails(d) \/ (Swept(doc, d) /\ Left(d, held[doc].package))
  BY <1>0, <1>1, DeleteDocument
<1>4. CASE /\ Commit(d) /\ deleted' = deleted \cup {doc}
           /\ recorded' = [recorded EXCEPT ![doc] = IF @ = Lost THEN Lost ELSE Null]
  <2>1. Saves(d, Db') /\ d.ok /\ refusal' = Null
    BY <1>4, Committed
  <2>2. Swept(doc, d)
    BY <1>3, <2>1 DEF Fails
  <2>3. PICK r : r = IF recorded[doc] = Lost THEN Lost ELSE Null
    OBVIOUS
  <2>4. recorded' = [recorded EXCEPT ![doc] = r]
    BY <1>4, <2>3
  <2>5. Good(d, recorded', deleted', held')
    BY <1>0, <1>2, <1>4, <2>2, <2>3, <2>4, DeleteGood
  <2>6. Good(Db', recorded', deleted', held')
    BY <2>1, <2>5, StoredGood
  <2>. QED BY <2>1, <2>6 DEF IInv
<1>5. CASE /\ Rollback(d, <<"delete", doc>>) /\ UNCHANGED deleted
           /\ recorded' = [recorded EXCEPT ![doc] = LostRecord(@)]
  <2>1. Db' = Db /\ ~d.ok
    BY <1>5 DEF Rollback, Db
  <2>2. ManualReference(Db)
    BY <1>3, <2>1 DEF Fails, Swept, Sweeps
  <2>3. PICK r : r = LostRecord(recorded[doc])
    OBVIOUS
  <2>4. recorded' = [recorded EXCEPT ![doc] = r] /\ r \in {recorded[doc], LostRecord(recorded[doc])}
    BY <1>5, <2>3
  <2>5. Good(Db, recorded', deleted, held')
    BY <1>0, <1>2, <2>4, FreeGood
  <2>. QED BY <1>5, <2>1, <2>2, <2>5 DEF IInv
<1>. QED BY <1>2, <1>4, <1>5

----------------------------------------------------------------------------
(* The theorems. *)

\* A step preserves the inductive invariant.
LEMMA StepGood ==
  ASSUME IInv, [Next]_vars
  PROVE  IInv'
<1>1. CASE UNCHANGED vars
  <2>1. Db' = Db /\ recorded' = recorded /\ deleted' = deleted /\ held' = held /\ refusal' = refusal
    BY <1>1 DEF vars, Db
  <2>. QED BY <2>1 DEF IInv
<1>2. ASSUME NEW doc \in Docs, AttemptBegin(doc) PROVE IInv'
  BY <1>2, AttemptBeginStep
<1>3. ASSUME NEW doc \in Docs, AttemptEnd(doc) PROVE IInv'
  BY <1>3, AttemptEndStep
<1>4. ASSUME NEW doc \in Docs, DeleteBegin(doc) PROVE IInv'
  BY <1>4, DeleteBeginStep
<1>5. ASSUME NEW doc \in Docs, DeleteDrop(doc) PROVE IInv'
  BY <1>5, DeleteDropStep
<1>6. ASSUME NEW doc \in Docs, DeleteEnd(doc) PROVE IInv'
  BY <1>6, DeleteEndStep
<1>7. ASSUME NEW doc \in Docs, Abort(doc) PROVE IInv'
  BY <1>7, AbortStep
<1>8. ASSUME NEW doc \in Docs, RecordEvidence(doc) PROVE IInv'
  BY <1>8, RecordEvidenceStep
<1>9. ASSUME NEW row \in Additions, NEW evs \in EvidenceSets, Add(row, evs) PROVE IInv'
  BY <1>9, AddStep
<1>. QED BY <1>1, <1>2, <1>3, <1>4, <1>5, <1>6, <1>7, <1>8, <1>9 DEF Next

\* In every reachable state the tables are well-formed, every foreign key and
\* binding names what it should, and what the transactions under way go by is
\* still so.
THEOREM InvariantHolds == Spec => []IInv
<1>1. Init => IInv
  BY InitGood
<1>2. IInv /\ [Next]_vars => IInv'
  BY StepGood
<1>. QED BY <1>1, <1>2, PTL DEF Spec

\* What the invariant says of a grounded row.
LEMMA GoodGrounded ==
  ASSUME IInv
  PROVE  Grounded
<1>1. \A i \in Live(Db) : Grounding(Db, held, i)
  BY DEF IInv, Good
<1>2. Db.rows = rows
  BY DEF Db
<1>. QED BY <1>1, <1>2 DEF Grounded, Grounding

\* engineering.py: a grounded row keeps evidence whatever is deleted or resolved.
THEOREM GroundedHolds == Spec => []Grounded
<1>1. IInv => Grounded
  BY GoodGrounded
<1>. QED BY <1>1, InvariantHolds, PTL

\* The two checks of a locator, kind by kind, and what the resolver passes.
LEMMA LocatorChecks ==
  ASSUME NEW kind \in Orm!EvidenceLocatorKind, NEW given
  PROVE  /\ locator_is_complete(kind, given) <=> LOCATOR_SQL(kind, given)
         /\ locator_is_complete(locator_kwargs(kind, given)[1], locator_kwargs(kind, given)[2])
<1>1. kind \in {"chunk", "page", "sheet_cell", "image_region", "xml_path", "line_range", "native_id"}
  BY DEF Orm!EvidenceLocatorKind
<1>2. locator_is_complete(kind, given) <=> LOCATOR_SQL(kind, given)
  BY <1>1 DEF locator_is_complete, LOCATOR_SQL, LOCATOR_REQUIREMENTS
<1>3. locator_is_complete(locator_kwargs(kind, given)[1], locator_kwargs(kind, given)[2])
  <2>1. CASE kind = "page"
    BY <2>1 DEF locator_is_complete, locator_kwargs, LOCATOR_REQUIREMENTS
  <2>2. CASE kind = "sheet_cell"
    BY <2>2 DEF locator_is_complete, locator_kwargs, LOCATOR_REQUIREMENTS
  <2>3. CASE kind = "line_range"
    BY <2>3 DEF locator_is_complete, locator_kwargs, LOCATOR_REQUIREMENTS
  <2>4. CASE kind \notin {"page", "sheet_cell", "line_range"}
    BY <2>4 DEF locator_is_complete, locator_kwargs, LOCATOR_REQUIREMENTS
  <2>. QED BY <2>1, <2>2, <2>3, <2>4
<1>. QED BY <1>2, <1>3

\* record_evidence and ck_evidence_references_locator accept the same locators.
THEOREM LocatorsHold == Spec => []LocatorsAgree
<1>1. LocatorsAgree
  <2>1. ASSUME NEW kind, NEW given
        PROVE  locator_is_complete(kind, given) \in BOOLEAN /\ LOCATOR_SQL(kind, given) \in BOOLEAN
    BY DEF locator_is_complete, LOCATOR_SQL
  <2>2. ASSUME NEW kind \in Orm!EvidenceLocatorKind, NEW given
        PROVE  locator_is_complete(kind, given) = LOCATOR_SQL(kind, given)
    BY <2>1, <2>2, LocatorChecks
  <2>. QED BY <2>2, LocatorChecks DEF LocatorsAgree, LocatorChecksAgree
<1>. QED BY <1>1, PTL

\* What the invariant says of the foreign keys and the bindings.
LEMMA GoodReferences ==
  ASSUME IInv
  PROVE  ReferencesHold
<1>1. KeysOk(Db) /\ Bound(Db)
  BY DEF IInv, Good, Sound
<1>2. Db.rows = rows /\ Db.bindings = bindings /\ Db.swept = swept
  BY DEF Db
<1>3. KeysHold
  BY <1>1, <1>2 DEF KeysHold, KeysOk, Rows
<1>4. \A b \in bindings : rows[b[2]] = NoRow => b[2] \in swept
  BY <1>1, <1>2 DEF Bound
<1>. QED BY <1>3, <1>4 DEF ReferencesHold

\* engineering.py: every foreign key names a live row of its package, and neither
\* a resolution nor a delete removes a row that something still supports.
THEOREM ReferencesAlwaysHold == Spec => []ReferencesHold
<1>1. IInv => ReferencesHold
  BY GoodReferences
<1>. QED BY <1>1, InvariantHolds, PTL

\* What the invariant says of conflicts and of entities.
LEMMA GoodCoherent ==
  ASSUME IInv
  PROVE  ResolutionCoherent
<1>1. Sides(Db) /\ Standing(Db)
  BY DEF IInv, Good, Coherent
<1>2. Db.rows = rows
  BY DEF Db
<1>3. ConflictsNameLiveRows
  BY <1>1, <1>2 DEF ConflictsNameLiveRows, Sides, Rows, Live
<1>4. ASSUME NEW i \in Rows("engineering_entities"), rows[i].method = Resolver
      PROVE  EvidenceOf(Db, i) = UNION {EvidenceOf(Db, c) : c \in Merged(Db, i)}
  <2>1. Stands(Db, i)
    BY <1>1, <1>2, <1>4 DEF Standing, Rows
  <2>. QED BY <2>1 DEF Stands
<1>5. \A i : Merged(Db, i) = {x \in Rows("engineering_entity_candidates") : rows[x].refs["canonical_entity_id"] = i}
  BY <1>2 DEF Merged, Rows
<1>6. EntitiesStandOnCandidates
  BY <1>4, <1>5 DEF EntitiesStandOnCandidates
<1>. QED BY <1>3, <1>6 DEF ResolutionCoherent

\* identity_resolution.py: what a resolution wrote stays coherent.
THEOREM ResolutionStaysCoherent == Spec => []ResolutionCoherent
<1>1. IInv => ResolutionCoherent
  BY GoodCoherent
<1>. QED BY <1>1, InvariantHolds, PTL

\* What the invariant says of a refusal.
LEMMA GoodRefusal ==
  ASSUME IInv
  PROVE  OnlyManualReferencesRefuse
<1>1. refusal # Null => ManualReference(Db)
  BY DEF IInv
<1>2. Db.rows = rows
  BY DEF Db
<1>. QED BY <1>1, <1>2, SetsNull DEF OnlyManualReferencesRefuse, ManualReference, ManualRows

\* engineering.py, identity_resolution.py: a foreign key refuses a resolution or a
\* delete only on account of a caller's optional reference.
THEOREM ManualReferencesRefuse == Spec => []OnlyManualReferencesRefuse
<1>1. IInv => OnlyManualReferencesRefuse
  BY GoodRefusal
<1>. QED BY <1>1, InvariantHolds, PTL

\* The transaction of an attempt ends with AttemptEnd, or leaves the rows alone.
LEMMA AttemptEnds ==
  ASSUME IInv, Next, NEW doc \in Docs, held[doc].phase = "resolving", held'[doc] = Free
  PROVE  AttemptEnd(doc) \/ rows' = rows
<1>0. held \in [Docs -> Holding] /\ held[doc] # Free
  BY DEF IInv, Good, Settled, Free
<1>1. ASSUME NEW x \in Docs, AttemptBegin(x) \/ DeleteBegin(x) \/ Abort(x) PROVE rows' = rows
  BY <1>1 DEF AttemptBegin, DeleteBegin, Abort
<1>2. ASSUME NEW x \in Docs, AttemptEnd(x) PROVE x = doc
  BY <1>0, <1>2 DEF AttemptEnd
<1>3. ASSUME NEW x \in Docs, DeleteDrop(x) PROVE FALSE
  <2>1. PICK r : held' = [held EXCEPT ![x] = r]
    BY <1>0, <1>3 DEF DeleteDrop
  <2>2. x # doc
    BY <1>3 DEF DeleteDrop
  <2>. QED BY <1>0, <2>1, <2>2
<1>4. ASSUME NEW x \in Docs, DeleteEnd(x) PROVE FALSE
  <2>1. x # doc /\ held' = [held EXCEPT ![x] = Free]
    BY <1>4 DEF DeleteEnd
  <2>. QED BY <1>0, <2>1
<1>5. ASSUME NEW x \in Docs, RecordEvidence(x) PROVE FALSE
  BY <1>0, <1>5 DEF RecordEvidence
<1>6. ASSUME NEW row \in Additions, NEW evs \in EvidenceSets, Add(row, evs) PROVE FALSE
  BY <1>0, <1>6 DEF Add
<1>. QED BY <1>1, <1>2, <1>3, <1>4, <1>5, <1>6 DEF Next

\* What an attempt takes of the rows that callers wrote.
LEMMA AttemptTakes ==
  ASSUME IInv, NEW doc \in Docs, AttemptEnd(doc), NEW i \in ManualRows, rows'[i] = NoRow
  PROVE  OnResolved(Db, rows[i])
<1>0. i \in Live(Db) /\ rows[i].method = Manual /\ rows[i] # NoRow /\ held[doc].phase = "resolving"
  BY DEF ManualRows, Live, Db, AttemptEnd
<1>1. PICK ms \in Readings[doc] :
        \E d \in {resolve_package_identities(intake(Db, doc), doc, ms, held[doc].seen)} :
          \/ Commit(d) /\ recorded' = [recorded EXCEPT ![doc] = d.package]
          \/ Rollback(d, <<"resolve", doc>>) /\ UNCHANGED recorded
  BY DEF AttemptEnd
<1>2. PICK d : /\ d = resolve_package_identities(intake(Db, doc), doc, ms, held[doc].seen)
               /\ Commit(d) \/ Rollback(d, <<"resolve", doc>>)
  BY <1>1
<1>3. Broken(d) \/ Resolves(doc, d)
  BY <1>0, <1>2, AttemptResolves
<1>4. d.ok /\ rows' = d.rows
  BY <1>0, <1>2 DEF Commit, Rollback
<1>5. PICK Old \in SUBSET Live(Db) : Grown(doc, d, Old)
  BY <1>3, <1>4 DEF Broken, Resolves, Stage, Going
<1>6. i \notin Old
  BY <1>0, <1>4, <1>5 DEF Grown
<1>7. Clearable(i)
  BY <1>0, <1>5, <1>6 DEF Grown
<1>8. Manual # Resolver
  BY DEF Manual, Resolver
<1>. QED BY <1>0, <1>7, <1>8 DEF Clearable

\* Of what callers wrote, a resolution takes nothing but relations with an end that the
\* resolver made (clear_package_identities).
THEOREM ManualRowsStay == Spec => OnlyRelationsGoWithEntities
<1> DEFINE Step ==
      \A doc \in Docs, i \in ManualRows :
        AttemptOver(doc) /\ rows'[i] = NoRow =>
          /\ rows[i].table = "engineering_relations"
          /\ \E c \in {"source_entity_id", "target_entity_id"} :
               rows[rows[i].refs[c]].method = Resolver
<1>1. ASSUME IInv, Next PROVE Step
  <2>1. ASSUME NEW doc \in Docs, NEW i \in ManualRows, AttemptOver(doc), rows'[i] = NoRow
        PROVE  OnResolved(Db, rows[i])
    <3>1. rows' # rows
      BY <2>1 DEF ManualRows, Live, Db
    <3>2. AttemptEnd(doc)
      BY <1>1, <2>1, <3>1, AttemptEnds DEF AttemptOver
    <3>. QED BY <1>1, <2>1, <3>2, AttemptTakes
  <2>2. Db.rows = rows
    BY DEF Db
  <2>. QED BY <2>1, <2>2 DEF OnResolved
<1>2. IInv /\ [Next]_vars => [Step]_vars
  BY <1>1
<1>3. Spec => [][Step]_vars
  BY <1>2, InvariantHolds, PTL DEF Spec
<1>. QED BY <1>3 DEF OnlyRelationsGoWithEntities

\* A document becomes deleted when its delete commits, and nothing else happens.
LEMMA DeleteCommits ==
  ASSUME IInv, Next, NEW doc \in deleted' \ deleted
  PROVE  DeleteEnd(doc)
<1>1. ASSUME NEW x \in Docs, AttemptBegin(x) \/ AttemptEnd(x) \/ DeleteBegin(x) \/ DeleteDrop(x)
                             \/ Abort(x) \/ RecordEvidence(x)
      PROVE  deleted' = deleted
  BY <1>1 DEF AttemptBegin, AttemptEnd, DeleteBegin, DeleteDrop, Abort, RecordEvidence
<1>2. ASSUME NEW row \in Additions, NEW evs \in EvidenceSets, Add(row, evs) PROVE deleted' = deleted
  BY <1>2 DEF Add
<1>3. ASSUME NEW x \in Docs, DeleteEnd(x) PROVE x = doc
  <2>1. deleted' = deleted \cup {x} \/ deleted' = deleted
    BY <1>3 DEF DeleteEnd
  <2>. QED BY <2>1
<1>. QED BY <1>1, <1>2, <1>3 DEF Next

\* Then its package is gone or has members.
LEMMA PackageLeft ==
  ASSUME IInv, NEW doc \in Docs, DeleteEnd(doc), doc \in deleted' \ deleted, recorded[doc] # Lost,
         NEW p \in Packages, rows[p].code = doc, rows'[p] # NoRow
  PROVE  \E i \in Ids : /\ rows'[i] # NoRow /\ rows'[i].table = "package_documents"
                        /\ rows'[i].refs["package_id"] = p
<1>0. Chosen(doc) /\ PackageOk(Db, recorded, deleted, doc) /\ HeldOk(Db, recorded, deleted, held[doc], doc)
      /\ held[doc].phase = "dropped"
  BY DEF IInv, Good, DeleteEnd, Chosen
<1>1. For(doc, Db, p)
  BY DEF Packages, For, Db
<1>2. held[doc].package = p
  <2>1. recorded[doc] \in {p, Lost}
    BY <1>0, <1>1 DEF PackageOk
  <2>2. held[doc].package = recorded[doc]
    BY <1>0 DEF HeldOk
  <2>. QED BY <2>1, <2>2
<1>3. PICK d : /\ d = delete_document(doc)
               /\ Commit(d) \/ (Rollback(d, <<"delete", doc>>) /\ UNCHANGED deleted)
  BY DEF DeleteEnd
<1>4. Commit(d)
  BY <1>3
<1>5. d.ok /\ rows' = d.rows
  BY <1>4 DEF Commit
<1>6. Swept(doc, d) /\ Left(d, p)
  BY <1>0, <1>2, <1>3, <1>5, DeleteDocument DEF Fails
<1>7. p \in Live(d)
  BY <1>5 DEF Packages, Rows, OfTable, Live, Db
<1>8. p \in OfTable(Db, "machine_packages")
  BY DEF Packages, Rows
<1>9. p \in OfTable(d, "machine_packages")
  BY <1>0, <1>6, <1>7, <1>8, SweptAre
<1>10. PICK i \in InPackageOf(d, "package_documents", p) : TRUE
  BY <1>6, <1>9 DEF Left, MembersOf
<1>. QED BY <1>5, <1>10 DEF InPackageOf, OfTable, Live

\* "Remove the archive's recorded package when no other members remain"
\* (delete_generated_package): the delete of an archive that commits leaves its
\* package only to other members.
THEOREM PackageGoes == Spec => PackageGoesWithArchive
<1> DEFINE Step ==
      \A doc \in deleted' \ deleted :
        recorded[doc] # Lost =>
          \A p \in Packages : rows[p].code = doc /\ rows'[p] # NoRow =>
            \E i \in Ids : /\ rows'[i] # NoRow /\ rows'[i].table = "package_documents"
                           /\ rows'[i].refs["package_id"] = p
<1>1. ASSUME IInv, Next PROVE Step
  <2>1. ASSUME NEW doc \in deleted' \ deleted PROVE doc \in Docs /\ DeleteEnd(doc)
    <3>1. DeleteEnd(doc)
      BY <1>1, <2>1, DeleteCommits
    <3>2. IInv'
      BY <1>1, StepGood
    <3>. QED BY <2>1, <3>1, <3>2 DEF IInv, Good, Settled
  <2>. QED BY <1>1, <2>1, PackageLeft
<1>2. IInv /\ [Next]_vars => [Step]_vars
  BY <1>1
<1>3. Spec => [][Step]_vars
  BY <1>2, InvariantHolds, PTL DEF Spec
<1>. QED BY <1>3 DEF PackageGoesWithArchive
=============================================================================
