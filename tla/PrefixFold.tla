----------------------------- MODULE PrefixFold -----------------------------
(****************************************************************************)
(* A fold over a sequence, as the list of its intermediate results. p is    *)
(* what the operation takes besides the result so far and the next element. *)
(****************************************************************************)
EXTENDS Naturals, Sequences, FiniteSets, FiniteSetTheorems, WellFoundedInduction, TLAPS

CONSTANT Op(_, _, _)

Largest(t) == CHOOSE x \in t : \A y \in t : x >= y

\* FoldLeft(LAMBDA x, y : Op(p, x, y), b, s) of the community modules, written out.
Folded(p, s, b) ==
  LET iter[t \in SUBSET DOMAIN s] ==
        IF t = {} THEN b ELSE Op(p, iter[t \ {Largest(t)}], s[Largest(t)])
  IN  iter[DOMAIN s]

\* h is the fold's function on the sets of the first n positions.
Solves(h, n, p, s, b) ==
  h = [t \in SUBSET (1..n) |->
        IF t = {} THEN b ELSE Op(p, h[t \ {Largest(t)}], s[Largest(t)])]

\* A set of naturals that is not empty has a least element.
LEMMA Least ==
  ASSUME NEW T \in SUBSET Nat, T # {}
  PROVE  \E x \in T : \A y \in T : x <= y
<1>. DEFINE Segments == {0..n : n \in T}
<1>1. Segments \subseteq FiniteSubsetsOf(Nat)
  <2>1. ASSUME NEW n \in T PROVE 0..n \in FiniteSubsetsOf(Nat)
    <3>1. IsFiniteSet(0..n) BY FS_Interval
    <3>2. 0..n \subseteq Nat OBVIOUS
    <3>. QED BY <3>1, <3>2 DEF FiniteSubsetsOf
  <2>. QED BY <2>1
<1>2. Segments # {}
  OBVIOUS
<1>3. IsWellFoundedOn(StrictSubsetOrdering(Nat), FiniteSubsetsOf(Nat))
  BY FS_StrictSubsetOrderingWellFounded
<1>4. PICK s \in Segments : \A t \in Segments : ~(<<t, s>> \in StrictSubsetOrdering(Nat))
  <2>. HIDE DEF Segments
  <2>. QED BY <1>1, <1>2, <1>3, WFMin
<1>5. PICK x \in T : s = 0..x
  OBVIOUS
<1>6. ASSUME NEW y \in T, y < x PROVE FALSE
  <2>1. 0..y \in Segments /\ 0..y \subseteq 0..x /\ x \in 0..x /\ x \notin 0..y
    BY <1>6
  <2>2. 0..y \in SUBSET Nat /\ 0..x \in SUBSET Nat
    OBVIOUS
  <2>. QED BY <1>4, <1>5, <2>1, <2>2 DEF StrictSubsetOrdering
<1>. QED  BY <1>6

\* Induction over 0..n, as a fact about a set: what the step keeps, all have.
LEMMA Upwards ==
  ASSUME NEW n \in Nat, NEW S, 0 \in S, \A k \in 0..(n - 1) : k \in S => k + 1 \in S
  PROVE  \A k \in 0..n : k \in S
<1>. DEFINE Missing == {k \in 0..n : k \notin S}
<1>1. SUFFICES ASSUME Missing # {} PROVE FALSE
  OBVIOUS
<1>2. PICK k \in Missing : \A j \in Missing : k <= j
  <2>1. Missing \in SUBSET Nat
    OBVIOUS
  <2>. HIDE DEF Missing
  <2>. QED BY <1>1, <2>1, Least
<1>3. k \in 0..n /\ k \notin S /\ k # 0
  BY <1>2
<1>4. k - 1 \in 0..(n - 1) /\ k - 1 \in 0..n /\ k - 1 < k /\ (k - 1) + 1 = k
  BY <1>3
<1>5. k - 1 \notin Missing
  <2>. HIDE DEF Missing
  <2>. QED BY <1>2, <1>3, <1>4
<1>6. k - 1 \in S
  BY <1>4, <1>5
<1>. QED BY <1>3, <1>4, <1>6

\* The largest of some positions is one of them.
LEMMA LargestIsIn ==
  ASSUME NEW n \in Nat, NEW t \in SUBSET (1..n), t # {}
  PROVE  Largest(t) \in t /\ \A y \in t : Largest(t) >= y
<1>. DEFINE Bounds == {m \in Nat : \A y \in t : y <= m}
<1>1. n \in Bounds /\ Bounds \in SUBSET Nat
  OBVIOUS
<1>2. PICK m \in Bounds : \A k \in Bounds : m <= k
  <2>. HIDE DEF Bounds
  <2>. QED BY <1>1, Least
<1>3. m \in t
  <2>1. SUFFICES ASSUME m \notin t PROVE FALSE
    OBVIOUS
  <2>2. m \in Nat /\ \A y \in t : y <= m /\ y \in 1..n
    BY <1>2
  <2>3. m > 0
    <3>1. PICK y \in t : y <= m /\ y \in 1..n
      BY <2>2
    <3>. HIDE DEF Bounds
    <3>. QED BY <3>1, <2>2
  <2>4. m - 1 \in Nat
    BY <2>2, <2>3
  <2>5. ASSUME NEW y \in t PROVE y <= m - 1
    <3>1. y # m /\ y <= m /\ y \in Nat
      BY <2>1, <2>2
    <3>. QED BY <3>1, <2>2
  <2>6. m - 1 \in Bounds
    BY <2>4, <2>5
  <2>. HIDE DEF Bounds
  <2>. QED BY <1>2, <2>2, <2>6
<1>4. \A y \in t : m >= y
  BY <1>2
<1>5. \E x \in t : \A y \in t : x >= y
  BY <1>3, <1>4
<1>. QED BY <1>5 DEF Largest

\* The function that a fold is defined by exists, for every number of positions.
LEMMA FoldExists ==
  ASSUME NEW p, NEW s, NEW b, NEW n \in Nat
  PROVE  \E h : Solves(h, n, p, s, b)
<1>. DEFINE Missing == {m \in Nat : ~ \E h : Solves(h, m, p, s, b)}
<1>1. SUFFICES ASSUME Missing # {} PROVE FALSE
  OBVIOUS
<1>2. PICK m \in Missing : \A k \in Missing : m <= k
  <2>1. Missing \in SUBSET Nat OBVIOUS
  <2>. HIDE DEF Missing
  <2>. QED BY <1>1, <2>1, Least
<1>3. m \in Nat /\ ~ \E h : Solves(h, m, p, s, b)
  OBVIOUS
<1>4. CASE m = 0
  <2>1. SUBSET (1..0) = {{}}
    OBVIOUS
  <2>2. Solves([t \in {{}} |-> b], 0, p, s, b)
    BY <2>1 DEF Solves
  <2>. QED BY <1>3, <1>4, <2>2
<1>5. CASE m # 0
  <2>1. m - 1 \in Nat /\ m - 1 < m
    BY <1>3, <1>5
  <2>2. m - 1 \notin Missing
    <3>. HIDE DEF Missing
    <3>. QED BY <1>2, <1>3, <2>1
  <2>3. PICK h : Solves(h, m - 1, p, s, b)
    BY <2>1, <2>2
  <2>. DEFINE k == [t \in SUBSET (1..m) |->
                     IF t = {} THEN b ELSE Op(p, h[t \ {Largest(t)}], s[Largest(t)])]
  <2>4. ASSUME NEW u \in SUBSET (1..(m - 1)) PROVE k[u] = h[u]
    <3>1. u \in SUBSET (1..m)
      BY <1>3
    <3>2. h[u] = IF u = {} THEN b ELSE Op(p, h[u \ {Largest(u)}], s[Largest(u)])
      BY <2>3 DEF Solves
    <3>. QED BY <3>1, <3>2
  <2>5. ASSUME NEW t \in SUBSET (1..m), t # {} PROVE t \ {Largest(t)} \in SUBSET (1..(m - 1))
    <3>1. Largest(t) \in t /\ \A y \in t : Largest(t) >= y
      BY <2>5, <1>3, LargestIsIn
    <3>2. ASSUME NEW y \in t, y # Largest(t) PROVE y \in 1..(m - 1)
      <4>1. y \in 1..m /\ Largest(t) \in 1..m /\ Largest(t) >= y
        BY <3>1
      <4>. HIDE DEF Missing
      <4>. QED BY <4>1, <3>2, <1>3
    <3>. QED BY <3>2
  <2>6. ASSUME NEW t \in SUBSET (1..m)
        PROVE  k[t] = IF t = {} THEN b ELSE Op(p, k[t \ {Largest(t)}], s[Largest(t)])
    <3>1. k[t] = IF t = {} THEN b ELSE Op(p, h[t \ {Largest(t)}], s[Largest(t)])
      OBVIOUS
    <3>. HIDE DEF k
    <3>. QED BY <3>1, <2>4, <2>5
  <2>7. Solves(k, m, p, s, b)
    <3>1. k = [t \in SUBSET (1..m) |-> k[t]]
      OBVIOUS
    <3>. HIDE DEF k
    <3>. QED BY <3>1, <2>6 DEF Solves
  <2>8. \E f : Solves(f, m, p, s, b)
    <3>. HIDE DEF k
    <3>. QED BY <2>7
  <2>. QED BY <1>3, <2>8
<1>. QED BY <1>4, <1>5

\* A fold over a sequence is the last of its intermediate results, the first of which is
\* what it starts from, each next one what Op makes of the one before and the next element.
THEOREM ByPrefix ==
  ASSUME NEW p, NEW S, NEW s \in Seq(S), NEW b
  PROVE  \E g : /\ g[0] = b
                /\ \A k \in 1..Len(s) : g[k] = Op(p, g[k-1], s[k])
                /\ Folded(p, s, b) = g[Len(s)]
<1>. DEFINE f == CHOOSE h : Solves(h, Len(s), p, s, b)
            g == [k \in 0..Len(s) |-> f[1..k]]
<1>1. Len(s) \in Nat /\ DOMAIN s = 1..Len(s)
  OBVIOUS
<1>2. \E h : Solves(h, Len(s), p, s, b)
  BY <1>1, FoldExists
<1>3. Solves(f, Len(s), p, s, b)
  BY <1>2
<1>4. Folded(p, s, b) = f[1..Len(s)]
  BY <1>1 DEF Folded, Solves
<1>5. \A t \in SUBSET (1..Len(s)) :
        f[t] = IF t = {} THEN b ELSE Op(p, f[t \ {Largest(t)}], s[Largest(t)])
  <2>. HIDE DEF f
  <2>. QED BY <1>3 DEF Solves
<1>6. ASSUME NEW k \in 1..Len(s) PROVE f[1..k] = Op(p, f[1..(k-1)], s[k])
  <2>1. 1..k \in SUBSET (1..Len(s)) /\ 1..k # {}
    BY <1>1
  <2>2. Largest(1..k) = k
    <3>1. /\ Largest(1..k) \in 1..k
          /\ \A y \in 1..k : Largest(1..k) >= y
      BY <1>1, <2>1, LargestIsIn
    <3>2. k \in 1..k
      BY <1>1
    <3>. QED BY <3>1, <3>2
  <2>3. (1..k) \ {k} = 1..(k-1)
    BY <1>1
  <2>. HIDE DEF f
  <2>. QED BY <1>5, <2>1, <2>2, <2>3
<1>7. f[1..0] = b
  <2>1. 1..0 = {} /\ {} \in SUBSET (1..Len(s))
    OBVIOUS
  <2>. HIDE DEF f
  <2>. QED BY <1>5, <2>1
<1>8. /\ g[0] = b
      /\ \A k \in 1..Len(s) : g[k] = Op(p, g[k-1], s[k])
      /\ Folded(p, s, b) = g[Len(s)]
  <2>1. 0 \in 0..Len(s) /\ Len(s) \in 0..Len(s)
    BY <1>1
  <2>2. \A k \in 1..Len(s) : k \in 0..Len(s) /\ k - 1 \in 0..Len(s)
    BY <1>1
  <2>. HIDE DEF f
  <2>. QED BY <2>1, <2>2, <1>4, <1>6, <1>7
<1>. QED
  <2>. HIDE DEF g
  <2>. QED BY <1>8
=============================================================================
