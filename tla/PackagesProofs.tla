--------------------------- MODULE PackagesProofs ----------------------------
(****************************************************************************)
(* What holds of packages whatever the archives, the readings, the limits,  *)
(* the reviewers and the corrections: what the loops over a directory       *)
(* compute, the bounds of what comes in, one assignment in force per path,  *)
(* whose word is in force, and the machine that the files of a package      *)
(* share.                                                                   *)
(*                                                                          *)
(* The argument: while the attempt holds the document no correction is      *)
(* inserted, so the assignments the attempt saw when it classified are      *)
(* still the ones in force when it commits.                                 *)
(****************************************************************************)
EXTENDS Packages, Integers, FiniteSetTheorems, TLAPS

\* The loops' steps, none of which takes anything besides.
KeepOp(p, kept, x) == KeepPart(kept, x)
CheckOp(p, acc, e) == CheckEntry(acc, e)
UnpackOp(p, acc, e) == UnpackEntry(acc, e)
SizeOp(p, n, e) == AddSize(n, e)

Names == INSTANCE PrefixFold WITH Op <- KeepOp
Checks == INSTANCE PrefixFold WITH Op <- CheckOp
Unpacks == INSTANCE PrefixFold WITH Op <- UnpackOp
Sums == INSTANCE PrefixFold WITH Op <- SizeOp

----------------------------------------------------------------------------
(* Names. *)

PlainName == STRING \ {"", "."}

\* The parts of a name that are kept, part after part.
LEMMA NameByPrefix ==
  ASSUME NEW parts \in Seq(STRING)
  PROVE  \E g : /\ g[0] = << >>
                /\ \A k \in 1..Len(parts) : g[k] = KeepPart(g[k-1], parts[k])
                /\ KeptParts(parts) = g[Len(parts)]
<1>1. KeptParts(parts) = Names!Folded(<< >>, parts, << >>)
  BY DEF KeptParts, FoldLeft, MapThenFoldSet, Max, Names!Folded, Names!Largest, KeepOp
<1>. QED BY <1>1, Names!ByPrefix DEF KeepOp

\* No part that is kept is empty or stands for the directory itself.
LEMMA NoEmptyParts ==
  ASSUME NEW parts \in Seq(STRING)
  PROVE  KeptParts(parts) \in Seq(PlainName)
<1>1. PICK g : /\ g[0] = << >>
               /\ \A k \in 1..Len(parts) : g[k] = KeepPart(g[k-1], parts[k])
               /\ KeptParts(parts) = g[Len(parts)]
  BY NameByPrefix
<1>. DEFINE S == {k \in 0..Len(parts) : g[k] \in Seq(PlainName)}
<1>2. Len(parts) \in Nat
  OBVIOUS
<1>3. 0 \in S
  <2>1. << >> \in Seq(PlainName)
    OBVIOUS
  <2>2. 0 \in 0..Len(parts)
    BY <1>2
  <2>. QED BY <1>1, <2>1, <2>2
<1>4. ASSUME NEW k \in 0..(Len(parts) - 1), k \in S PROVE k + 1 \in S
  <2>1. k + 1 \in 1..Len(parts) /\ k + 1 \in 0..Len(parts) /\ (k + 1) - 1 = k
    BY <1>2
  <2>2. g[k+1] = KeepPart(g[k], parts[k+1])
    BY <1>1, <2>1
  <2>3. parts[k+1] \in STRING
    BY <2>1
  <2>4. g[k] \in Seq(PlainName)
    BY <1>4
  <2>5. CASE parts[k+1] \in {"", "."}
    BY <2>1, <2>2, <2>4, <2>5 DEF KeepPart
  <2>6. CASE parts[k+1] \notin {"", "."}
    <3>1. parts[k+1] \in PlainName
      BY <2>3, <2>6 DEF PlainName
    <3>2. g[k+1] = Append(g[k], parts[k+1])
      BY <2>2, <2>6 DEF KeepPart
    <3>3. g[k+1] \in Seq(PlainName)
      BY <2>4, <3>1, <3>2
    <3>. QED BY <2>1, <3>3
  <2>. QED BY <2>5, <2>6
<1>5. \A k \in 0..Len(parts) : k \in S
  <2>. HIDE DEF S
  <2>. QED BY <1>2, <1>3, <1>4, Names!Upwards
<1>6. Len(parts) \in 0..Len(parts)
  BY <1>2
<1>. QED BY <1>1, <1>5, <1>6

\* The parts that are kept are strings.
LEMMA PlainIsString ==
  ASSUME NEW s \in Seq(PlainName)
  PROVE  s \in Seq(STRING)
<1>1. Len(s) \in Nat /\ s \in [1..Len(s) -> PlainName]
  OBVIOUS
<1>2. s \in [1..Len(s) -> STRING]
  BY <1>1 DEF PlainName
<1>. QED BY <1>1, <1>2

\* _safe_path: a path that is not refused names something, and no part of it leads
\* elsewhere.
LeadsNowhereElse(path) ==
  path \in Seq(PlainName) /\ path # << >> /\ Range(path) \cap {"", ".", "..", "c:"} = {}

\* safe_path: a name that it lets pass leads nowhere but into the archive's own prefix.
LEMMA SafePath ==
  ASSUME NEW parts \in Seq(STRING), safe_path(parts) # Null
  PROVE  LeadsNowhereElse(safe_path(parts))
<1>. DEFINE kept == KeptParts(parts)
<1>1. kept \in Seq(PlainName)
  BY NoEmptyParts
<1>2. safe_path(parts) = kept /\ Range(kept) \cap {"..", "c:"} = {} /\ kept # << >>
  BY DEF safe_path
<1>3. Range(kept) \subseteq PlainName
  <2>. HIDE DEF kept
  <2>. QED BY <1>1 DEF Range
<1>. HIDE DEF kept
<1>. QED BY <1>1, <1>2, <1>3 DEF LeadsNowhereElse, PlainName

----------------------------------------------------------------------------
(* Sizes. *)

\* What an entry of the directory is.
LEMMA EntryShape ==
  ASSUME NEW a \in Seq(Entries), NEW k \in 1..Len(a)
  PROVE  /\ a[k].parts \in Seq(STRING)
         /\ a[k].size \in Nat
         /\ a[k].is \in Readable \cup Unreadable
<1>1. a[k] \in Entries
  OBVIOUS
<1>. QED BY <1>1 DEF Entries

\* h lists the sums of the sizes of the first files.
SumsOf(h, a) ==
  h[0] = 0 /\ \A k \in 1..Len(a) : h[k] = AddSize(h[k-1], a[k])

\* The declared sizes, added up entry after entry.
LEMMA SumByPrefix ==
  ASSUME NEW a \in Seq(Entries)
  PROVE  \E h : SumsOf(h, a) /\ SizeOf(a) = h[Len(a)]
<1>1. SizeOf(a) = Sums!Folded(<< >>, a, 0)
  BY DEF SizeOf, FoldLeft, MapThenFoldSet, Max, Sums!Folded, Sums!Largest, SizeOp
<1>2. \E h : /\ h[0] = 0
             /\ \A k \in 1..Len(a) : h[k] = AddSize(h[k-1], a[k])
             /\ Sums!Folded(<< >>, a, 0) = h[Len(a)]
  BY Sums!ByPrefix DEF SizeOp
<1>. QED BY <1>1, <1>2 DEF SumsOf

\* The declared total never falls as entries are added.
LEMMA SumsGrow ==
  ASSUME NEW a \in Seq(Entries), NEW h, SumsOf(h, a)
  PROVE  /\ \A k \in 0..Len(a) : h[k] \in Nat
         /\ \A j, k \in 0..Len(a) : j <= k => h[j] <= h[k]
<1>1. Len(a) \in Nat
  OBVIOUS
<1>. DEFINE S == {k \in 0..Len(a) : h[k] \in Nat /\ \A j \in 0..k : h[j] \in Nat /\ h[j] <= h[k]}
<1>2. 0 \in S
  BY <1>1 DEF SumsOf
<1>3. ASSUME NEW k \in 0..(Len(a) - 1), k \in S PROVE k + 1 \in S
  <2>1. k + 1 \in 1..Len(a) /\ k + 1 \in 0..Len(a) /\ (k + 1) - 1 = k
    BY <1>1
  <2>2. h[k+1] = IF IsDirectory(a[k+1]) THEN h[k] ELSE h[k] + a[k+1].size
    BY <2>1 DEF SumsOf, AddSize
  <2>3. a[k+1].size \in Nat
    BY <2>1, EntryShape
  <2>4. h[k] \in Nat /\ \A j \in 0..k : h[j] \in Nat /\ h[j] <= h[k]
    BY <1>3
  <2>5. h[k+1] \in Nat /\ h[k] <= h[k+1]
    BY <2>2, <2>3, <2>4
  <2>6. ASSUME NEW j \in 0..(k + 1) PROVE h[j] \in Nat /\ h[j] <= h[k+1]
    <3>1. CASE j = k + 1
      BY <3>1, <2>5
    <3>2. CASE j # k + 1
      <4>1. j \in 0..k
        BY <3>2, <1>1
      <4>. QED BY <4>1, <2>4, <2>5
    <3>. QED BY <3>1, <3>2
  <2>. QED BY <2>1, <2>5, <2>6
<1>4. \A k \in 0..Len(a) : k \in S
  <2>. HIDE DEF S
  <2>. QED BY <1>1, <1>2, <1>3, Sums!Upwards
<1>5. ASSUME NEW j \in 0..Len(a), NEW k \in 0..Len(a), j <= k PROVE h[j] <= h[k]
  <2>1. j \in 0..k
    BY <1>1, <1>5
  <2>. QED BY <1>4, <2>1
<1>. QED BY <1>4, <1>5

\* The two checks that concern an entry alone.
Small(e) == e.size <= MAX_UNCOMPRESSED_MEMBER /\ ~RatioExceeds(e)

SmallUpTo(a, k) == \A j \in 1..k : ~IsDirectory(a[j]) => Small(a[j])

\* directory_within_limits, entry after entry.
LEMMA CheckByPrefix ==
  ASSUME NEW a \in Seq(Entries)
  PROVE  \E g : /\ g[0] = [ok |-> TRUE, total |-> 0]
                /\ \A k \in 1..Len(a) : g[k] = CheckEntry(g[k-1], a[k])
                /\ CheckEntries(a) = g[Len(a)]
<1>1. CheckEntries(a) = Checks!Folded(<< >>, a, [ok |-> TRUE, total |-> 0])
  BY DEF CheckEntries, FoldLeft, MapThenFoldSet, Max, Checks!Folded, Checks!Largest, CheckOp
<1>. QED BY <1>1, Checks!ByPrefix DEF CheckOp

\* assert_zip_directory_within_limits: adding the sizes up entry by entry and
\* stopping at the first that is too much refuses exactly the directories whose
\* files are too many, too large or too much together, whatever their order.
THEOREM DirectoryChecksAreExact ==
  ASSUME NEW a \in Seq(Entries)
  PROVE  directory_within_limits(a) <=> Sizes(a)
<1>1. PICK h : SumsOf(h, a) /\ SizeOf(a) = h[Len(a)]
  BY SumByPrefix
<1>2. PICK g : /\ g[0] = [ok |-> TRUE, total |-> 0]
               /\ \A k \in 1..Len(a) : g[k] = CheckEntry(g[k-1], a[k])
               /\ CheckEntries(a) = g[Len(a)]
  BY CheckByPrefix
<1>3. Len(a) \in Nat /\ DOMAIN a = 1..Len(a)
  OBVIOUS
<1>4. /\ \A k \in 0..Len(a) : h[k] \in Nat
      /\ \A j, k \in 0..Len(a) : j <= k => h[j] <= h[k]
  BY <1>1, SumsGrow
<1>. DEFINE S == {k \in 0..Len(a) :
                   /\ g[k].total = h[k]
                   /\ g[k].ok <=> SmallUpTo(a, k) /\ h[k] <= MAX_UNCOMPRESSED_TOTAL}
<1>5. 0 \in S
  <2>1. h[0] = 0 /\ 0 <= MAX_UNCOMPRESSED_TOTAL
    BY <1>1, ArchiveAssumption DEF SumsOf, ArchiveAssumption
  <2>2. SmallUpTo(a, 0)
    BY DEF SmallUpTo
  <2>. QED BY <1>2, <1>3, <2>1, <2>2
<1>6. ASSUME NEW k \in 0..(Len(a) - 1), k \in S PROVE k + 1 \in S
  <2>1. k + 1 \in 1..Len(a) /\ k + 1 \in 0..Len(a) /\ (k + 1) - 1 = k /\ k \in 0..Len(a)
    BY <1>3
  <2>2. h[k+1] = AddSize(h[k], a[k+1]) /\ g[k+1] = CheckEntry(g[k], a[k+1])
    BY <2>1, <1>1, <1>2 DEF SumsOf
  <2>3. g[k].total = h[k] /\ (g[k].ok <=> SmallUpTo(a, k) /\ h[k] <= MAX_UNCOMPRESSED_TOTAL)
    BY <1>6
  <2>4. SmallUpTo(a, k + 1) <=> SmallUpTo(a, k) /\ (~IsDirectory(a[k+1]) => Small(a[k+1]))
    <3>1. 1..(k+1) = (1..k) \cup {k+1}
      BY <2>1, <1>3
    <3>. QED BY <3>1 DEF SmallUpTo
  <2>5. CASE IsDirectory(a[k+1])
    <3>1. h[k+1] = h[k] /\ g[k+1] = g[k]
      BY <2>2, <2>5 DEF AddSize, CheckEntry
    <3>2. SmallUpTo(a, k + 1) <=> SmallUpTo(a, k)
      BY <2>4, <2>5
    <3>. QED BY <2>1, <2>3, <3>1, <3>2
  <2>6. CASE ~IsDirectory(a[k+1])
    <3>1. /\ h[k+1] = h[k] + a[k+1].size
          /\ g[k+1] = [ok |-> g[k].ok /\ ~SizeExceeds(a[k+1], g[k].total),
                       total |-> g[k].total + a[k+1].size]
      BY <2>2, <2>6 DEF AddSize, CheckEntry
    <3>2. g[k+1].total = h[k+1]
      BY <2>3, <3>1
    <3>3. g[k+1].ok <=> g[k].ok /\ ~SizeExceeds(a[k+1], h[k])
      <4>1. g[k].total = h[k]
        BY <2>3
      <4>2. g[k+1].ok = (g[k].ok /\ ~SizeExceeds(a[k+1], g[k].total))
        BY <3>1
      <4>. QED BY <4>1, <4>2, Zenon
    <3>4. a[k+1].size \in Nat /\ h[k] \in Nat /\ h[k+1] \in Nat
      BY <2>1, <1>4, EntryShape
    <3>5. ~SizeExceeds(a[k+1], h[k]) <=> Small(a[k+1]) /\ h[k+1] <= MAX_UNCOMPRESSED_TOTAL
      BY <3>1, <3>4, ArchiveAssumption DEF SizeExceeds, Small, ArchiveAssumption
    <3>6. h[k+1] <= MAX_UNCOMPRESSED_TOTAL => h[k] <= MAX_UNCOMPRESSED_TOTAL
      BY <3>1, <3>4, ArchiveAssumption DEF ArchiveAssumption
    <3>7. g[k+1].ok <=> SmallUpTo(a, k + 1) /\ h[k+1] <= MAX_UNCOMPRESSED_TOTAL
      BY <2>3, <2>4, <2>6, <3>3, <3>5, <3>6
    <3>. QED BY <2>1, <3>2, <3>7
  <2>. QED BY <2>5, <2>6
<1>7. \A k \in 0..Len(a) : k \in S
  <2>. HIDE DEF S
  <2>. QED BY <1>3, <1>5, <1>6, Sums!Upwards
<1>8. Len(a) \in 0..Len(a)
  BY <1>3
<1>9. CheckEntries(a).ok <=> SmallUpTo(a, Len(a)) /\ SizeOf(a) <= MAX_UNCOMPRESSED_TOTAL
  BY <1>1, <1>2, <1>7, <1>8
<1>10. SmallUpTo(a, Len(a)) <=>
         \A k \in Files(a) : a[k].size <= MAX_UNCOMPRESSED_MEMBER /\ ~RatioExceeds(a[k])
  BY <1>3 DEF SmallUpTo, Small, Files
<1>. QED BY <1>9, <1>10 DEF directory_within_limits, Sizes

----------------------------------------------------------------------------
(* Unpacking. *)

MemberList == Seq([path : Seq(STRING), is : Readable])

\* What the loop has come to after some entries.
Progress ==
  [outcome : {"unpacked", "rejected", "raised"}, total : Nat, read : Int,
   seen : SUBSET Seq(STRING), members : MemberList]

Refusable(acc, e) ==
  \/ e.is \in {"encrypted", "bad", "short"}
  \/ safe_path(e.parts) = Null \/ safe_path(e.parts) \in acc.seen
  \/ SizeExceeds(e, acc.total)

Passes(acc, e, new) ==
  (acc.outcome # "unpacked" \/ IsDirectory(e)) /\ new = acc

Refuses(acc, e, new) ==
  /\ acc.outcome = "unpacked" /\ ~IsDirectory(e) /\ Refusable(acc, e)
  /\ new.outcome = "rejected"
  /\ new.total = acc.total /\ new.seen = acc.seen /\ new.members = acc.members
  /\ new.read \in Int
  /\ \/ new.read = acc.read
     \/ new.read = acc.read + e.size - 1 /\ ~SizeExceeds(e, acc.total)

Raises(acc, e, new) ==
  /\ acc.outcome = "unpacked" /\ ~IsDirectory(e) /\ e.is = "damaged"
  /\ new.outcome = "raised" /\ new.total = acc.total /\ new.read = acc.read
  /\ new.seen = acc.seen /\ new.members = acc.members

Takes(acc, e, new) ==
  /\ acc.outcome = "unpacked" /\ ~IsDirectory(e) /\ ~Refusable(acc, e) /\ e.is \in Readable
  /\ new.outcome = "unpacked"
  /\ new.total = acc.total + e.size /\ new.read = acc.read + e.size
  /\ new.seen = acc.seen \cup {safe_path(e.parts)}
  /\ new.members = Append(acc.members, [path |-> safe_path(e.parts), is |-> e.is])

\* safe_unpack, one entry: it passes over it, refuses it, fails in it or unpacks it.
LEMMA UnpackStep ==
  ASSUME NEW acc \in Progress, NEW e \in Entries
  PROVE  LET new == UnpackEntry(acc, e)
         IN  /\ new \in Progress
             /\ Passes(acc, e, new) \/ Refuses(acc, e, new) \/ Raises(acc, e, new) \/ Takes(acc, e, new)
<1>. DEFINE new == UnpackEntry(acc, e)
            path == safe_path(e.parts)
            refuse == [acc EXCEPT !.outcome = "rejected"]
            Odd == e.is = "encrypted" \/ path = Null \/ path \in acc.seen \/ SizeExceeds(e, acc.total)
<1>1. e.parts \in Seq(STRING) /\ e.size \in Nat /\ e.is \in Readable \cup Unreadable
  BY DEF Entries
<1>2. acc.read \in Int /\ acc.total \in Nat /\ acc.outcome \in {"unpacked", "rejected", "raised"}
  BY DEF Progress
<1>3. CASE acc.outcome # "unpacked" \/ IsDirectory(e)
  BY <1>3 DEF UnpackEntry, Passes
<1>4. CASE acc.outcome = "unpacked" /\ ~IsDirectory(e) /\ Odd
  <2>1. new = refuse
    BY <1>4 DEF UnpackEntry
  <2>2. refuse \in Progress
    BY DEF Progress
  <2>3. /\ refuse.outcome = "rejected" /\ refuse.total = acc.total /\ refuse.read = acc.read
        /\ refuse.seen = acc.seen /\ refuse.members = acc.members
    BY DEF Progress
  <2>4. Refusable(acc, e)
    BY <1>4 DEF Refusable
  <2>5. Refuses(acc, e, refuse)
    <3>. HIDE DEF refuse
    <3>. QED BY <1>4, <1>2, <2>3, <2>4 DEF Refuses
  <2>. QED BY <2>1, <2>2, <2>5
<1>5. CASE acc.outcome = "unpacked" /\ ~IsDirectory(e) /\ ~Odd /\ e.is = "bad"
  <2>1. new = refuse
    BY <1>5 DEF UnpackEntry
  <2>2. refuse \in Progress
    BY DEF Progress
  <2>3. /\ refuse.outcome = "rejected" /\ refuse.total = acc.total /\ refuse.read = acc.read
        /\ refuse.seen = acc.seen /\ refuse.members = acc.members
    BY DEF Progress
  <2>4. Refusable(acc, e)
    BY <1>5 DEF Refusable
  <2>5. Refuses(acc, e, refuse)
    <3>. HIDE DEF refuse
    <3>. QED BY <1>5, <1>2, <2>3, <2>4 DEF Refuses
  <2>. QED BY <2>1, <2>2, <2>5
<1>6. CASE acc.outcome = "unpacked" /\ ~IsDirectory(e) /\ ~Odd /\ e.is = "damaged"
  <2>. DEFINE raised == [acc EXCEPT !.outcome = "raised"]
  <2>1. new = raised
    BY <1>6 DEF UnpackEntry
  <2>2. raised \in Progress
    BY DEF Progress
  <2>3. /\ raised.outcome = "raised" /\ raised.total = acc.total /\ raised.read = acc.read
        /\ raised.seen = acc.seen /\ raised.members = acc.members
    BY DEF Progress
  <2>4. Raises(acc, e, raised)
    <3>. HIDE DEF raised
    <3>. QED BY <1>6, <2>3 DEF Raises
  <2>. QED BY <2>1, <2>2, <2>4
<1>7. CASE acc.outcome = "unpacked" /\ ~IsDirectory(e) /\ ~Odd /\ e.is = "short"
  <2>. DEFINE n == acc.read + e.size - 1
              part == [refuse EXCEPT !.read = n]
  <2>0. n \in Int
    BY <1>1, <1>2
  <2>1. new = part
    <3>1. refuse.read = acc.read
      BY DEF Progress
    <3>. QED BY <1>7, <3>1 DEF UnpackEntry
  <2>. HIDE DEF n
  <2>2. part \in Progress
    BY <2>0 DEF Progress
  <2>3. /\ part.outcome = "rejected" /\ part.total = acc.total /\ part.read = n
        /\ part.seen = acc.seen /\ part.members = acc.members
    BY DEF Progress
  <2>4. Refusable(acc, e) /\ ~SizeExceeds(e, acc.total)
    BY <1>7 DEF Refusable
  <2>5. Refuses(acc, e, part)
    <3>. HIDE DEF part
    <3>1. part.read = acc.read + e.size - 1
      BY <2>3 DEF n
    <3>. QED BY <1>7, <2>0, <2>3, <2>4, <3>1 DEF Refuses
  <2>. QED BY <2>1, <2>2, <2>5
<1>8. CASE acc.outcome = "unpacked" /\ ~IsDirectory(e) /\ ~Odd /\ e.is \in Readable
  <2>. DEFINE member == [path |-> path, is |-> e.is]
              more == [acc EXCEPT !.seen = @ \cup {path}, !.total = @ + e.size,
                                  !.read = @ + e.size, !.members = Append(@, member)]
  <2>1. new = more
    <3>1. e.is \notin {"bad", "damaged", "short"}
      BY <1>8 DEF Readable
    <3>. QED BY <1>8, <3>1 DEF UnpackEntry
  <2>2. path \in Seq(STRING)
    <3>1. path \in Seq(PlainName)
      BY <1>8, <1>1, SafePath DEF LeadsNowhereElse
    <3>. HIDE DEF path
    <3>. QED BY <3>1, PlainIsString
  <2>3. /\ more.outcome = acc.outcome /\ more.total = acc.total + e.size
        /\ more.read = acc.read + e.size /\ more.seen = acc.seen \cup {path}
        /\ more.members = Append(acc.members, member)
    BY DEF Progress
  <2>4. more.total \in Nat /\ more.read \in Int
    BY <1>1, <1>2, <2>3
  <2>5. more.seen \in SUBSET Seq(STRING)
    <3>1. acc.seen \in SUBSET Seq(STRING)
      BY DEF Progress
    <3>. HIDE DEF more, path
    <3>. QED BY <2>2, <2>3, <3>1
  <2>6. more.members \in MemberList
    <3>1. acc.members \in Seq([path : Seq(STRING), is : Readable])
      BY DEF Progress, MemberList
    <3>2. member \in [path : Seq(STRING), is : Readable]
      BY <1>8, <2>2
    <3>. HIDE DEF more, member
    <3>. QED BY <2>3, <3>1, <3>2 DEF MemberList
  <2>7. more = [outcome |-> more.outcome, total |-> more.total, read |-> more.read,
                seen |-> more.seen, members |-> more.members]
    <3>1. DOMAIN acc = {"outcome", "total", "read", "seen", "members"}
      BY DEF Progress
    <3>2. acc = [f \in {"outcome", "total", "read", "seen", "members"} |-> acc[f]]
      BY DEF Progress
    <3>3. DOMAIN more = {"outcome", "total", "read", "seen", "members"}
      BY <3>1
    <3>4. more = [f \in {"outcome", "total", "read", "seen", "members"} |-> more[f]]
      BY <3>1, <3>2
    <3>. HIDE DEF more
    <3>. QED BY <3>4
  <2>8. more \in Progress
    <3>1. more.outcome \in {"unpacked", "rejected", "raised"}
      BY <2>3, <1>2
    <3>. HIDE DEF more
    <3>. QED BY <2>4, <2>5, <2>6, <2>7, <3>1 DEF Progress
  <2>9. ~Refusable(acc, e)
    BY <1>8 DEF Refusable, Readable
  <2>10. Takes(acc, e, more)
    <3>. HIDE DEF more
    <3>. QED BY <1>8, <2>3, <2>9 DEF Takes
  <2>. QED BY <2>1, <2>8, <2>10
<1>. QED BY <1>1, <1>2, <1>3, <1>4, <1>5, <1>6, <1>7, <1>8 DEF Readable, Unreadable

\* The files among the first k entries, and the path each would be stored under.
FilesUpTo(a, k) == {j \in 1..k : ~IsDirectory(a[j])}
PathOf(a, j) == safe_path(a[j].parts)

\* What the loop knows after k entries while nothing has been refused.
Counted(a, h, k, acc) ==
  acc.outcome = "unpacked" =>
    /\ acc.total = h[k] /\ acc.read = h[k] /\ h[k] <= MAX_UNCOMPRESSED_TOTAL
    /\ acc.seen = {PathOf(a, j) : j \in FilesUpTo(a, k)}
    /\ \A j \in FilesUpTo(a, k) : a[j].is \in Readable /\ PathOf(a, j) # Null /\ Small(a[j])
    /\ \A i, j \in FilesUpTo(a, k) : PathOf(a, i) = PathOf(a, j) => i = j

\* What is true of the members it has unpacked, even if it stops later.
MembersStand(a, acc) ==
  /\ \A m \in DOMAIN acc.members :
       /\ LeadsNowhereElse(acc.members[m].path)
       /\ acc.members[m].path \in acc.seen
       /\ \E j \in Files(a) : a[j].is = acc.members[m].is
  /\ \A m, n \in DOMAIN acc.members :
       acc.members[m].path = acc.members[n].path => m = n

\* The reasons for which it stops.
Stopped(a, acc) ==
  /\ acc.outcome = "raised" => \E j \in Files(a) : a[j].is = "damaged"
  /\ acc.outcome = "rejected" => ~Acceptable(a)
  /\ acc.read <= MAX_UNCOMPRESSED_TOTAL

\* An archive with an entry that the loop refuses is not acceptable as a whole.
LEMMA RefusedIsNotAcceptable ==
  ASSUME NEW a \in Seq(Entries), NEW h, SumsOf(h, a), SizeOf(a) = h[Len(a)],
         NEW k \in 0..(Len(a) - 1), NEW acc \in Progress,
         acc.outcome = "unpacked", Counted(a, h, k, acc),
         ~IsDirectory(a[k+1]), Refusable(acc, a[k+1])
  PROVE  ~Acceptable(a)
<1>1. Len(a) \in Nat /\ DOMAIN a = 1..Len(a)
  OBVIOUS
<1>2. k + 1 \in 1..Len(a) /\ k + 1 \in 0..Len(a) /\ k \in 0..Len(a) /\ (k + 1) - 1 = k
  BY <1>1
<1>3. k + 1 \in Files(a)
  BY <1>1, <1>2 DEF Files
<1>4. CASE a[k+1].is \in {"encrypted", "bad", "short"} \/ PathOf(a, k + 1) = Null
  BY <1>3, <1>4 DEF Acceptable, Readable, PathOf
<1>5. CASE PathOf(a, k + 1) \in acc.seen
  <2>1. acc.seen = {PathOf(a, j) : j \in FilesUpTo(a, k)}
    BY DEF Counted
  <2>2. PICK j \in FilesUpTo(a, k) : PathOf(a, j) = PathOf(a, k + 1)
    BY <1>5, <2>1
  <2>3. j \in Files(a) /\ j # k + 1
    BY <1>1, <1>2, <2>2 DEF FilesUpTo, Files
  <2>. QED BY <1>3, <2>2, <2>3 DEF Acceptable, PathOf
<1>6. CASE SizeExceeds(a[k+1], acc.total)
  <2>1. acc.total = h[k]
    BY DEF Counted
  <2>2. /\ \A i \in 0..Len(a) : h[i] \in Nat
        /\ \A i, j \in 0..Len(a) : i <= j => h[i] <= h[j]
    BY SumsGrow
  <2>3. h[k+1] = h[k] + a[k+1].size
    BY <1>2 DEF SumsOf, AddSize
  <2>4. a[k+1].size \in Nat
    BY <1>2, EntryShape
  <2>5. CASE ~Small(a[k+1])
    BY <1>3, <2>5, <2>4, ArchiveAssumption DEF Acceptable, Sizes, Small, ArchiveAssumption
  <2>6. CASE Small(a[k+1])
    <3>1. h[k] + a[k+1].size > MAX_UNCOMPRESSED_TOTAL
      BY <1>6, <2>1, <2>4, <2>6, ArchiveAssumption DEF SizeExceeds, Small, ArchiveAssumption
    <3>2. h[k+1] <= h[Len(a)] /\ h[Len(a)] \in Nat /\ h[k+1] \in Nat
      BY <1>1, <1>2, <2>2
    <3>3. ~(SizeOf(a) <= MAX_UNCOMPRESSED_TOTAL)
      BY <2>3, <3>1, <3>2, ArchiveAssumption DEF ArchiveAssumption
    <3>. QED BY <3>3 DEF Acceptable, Sizes
  <2>. QED BY <2>5, <2>6
<1>. QED BY <1>4, <1>5, <1>6 DEF Refusable, PathOf

\* The files among the first k + 1 entries.
LEMMA UpToNext ==
  ASSUME NEW a \in Seq(Entries), NEW k \in 0..(Len(a) - 1)
  PROVE  FilesUpTo(a, k + 1) =
           IF IsDirectory(a[k+1]) THEN FilesUpTo(a, k) ELSE FilesUpTo(a, k) \cup {k + 1}
<1>1. k \in Nat
  OBVIOUS
<1>2. 1..(k+1) = (1..k) \cup {k+1}
  BY <1>1
<1>. QED BY <1>2 DEF FilesUpTo

\* What the loop has counted and seen stays true as it goes on.
LEMMA CountedStep ==
  ASSUME NEW a \in Seq(Entries), NEW h, SumsOf(h, a),
         NEW k \in 0..(Len(a) - 1), NEW acc \in Progress, NEW new \in Progress,
         Counted(a, h, k, acc),
         Passes(acc, a[k+1], new) \/ Refuses(acc, a[k+1], new)
           \/ Raises(acc, a[k+1], new) \/ Takes(acc, a[k+1], new)
  PROVE  Counted(a, h, k + 1, new)
<1>1. k + 1 \in 1..Len(a) /\ k \in 0..Len(a) /\ (k + 1) - 1 = k /\ k \in Nat
  OBVIOUS
<1>2. h[k+1] = AddSize(h[k], a[k+1])
  BY <1>1 DEF SumsOf
<1>3. CASE Refuses(acc, a[k+1], new) \/ Raises(acc, a[k+1], new)
  BY <1>3 DEF Refuses, Raises, Counted
<1>4. CASE Passes(acc, a[k+1], new)
  <2>1. CASE IsDirectory(a[k+1])
    <3>1. h[k+1] = h[k]
      BY <1>2, <2>1 DEF AddSize
    <3>2. FilesUpTo(a, k + 1) = FilesUpTo(a, k)
      BY <2>1, UpToNext
    <3>3. new = acc
      BY <1>4 DEF Passes
    <3>. QED BY <3>1, <3>2, <3>3 DEF Counted
  <2>2. CASE ~IsDirectory(a[k+1])
    BY <1>4, <2>2 DEF Passes, Counted
  <2>. QED BY <2>1, <2>2
<1>5. CASE Takes(acc, a[k+1], new)
  <2>. DEFINE e == a[k+1]
              F == FilesUpTo(a, k)
  <2>1. /\ acc.outcome = "unpacked" /\ ~IsDirectory(e) /\ ~Refusable(acc, e) /\ e.is \in Readable
        /\ new.total = acc.total + e.size /\ new.read = acc.read + e.size
        /\ new.seen = acc.seen \cup {PathOf(a, k + 1)}
    BY <1>5 DEF Takes, PathOf
  <2>2. /\ acc.total = h[k] /\ acc.read = h[k]
        /\ acc.seen = {PathOf(a, j) : j \in F}
        /\ \A j \in F : a[j].is \in Readable /\ PathOf(a, j) # Null /\ Small(a[j])
        /\ \A i, j \in F : PathOf(a, i) = PathOf(a, j) => i = j
    BY <2>1 DEF Counted
  <2>3. /\ PathOf(a, k + 1) # Null /\ PathOf(a, k + 1) \notin acc.seen
        /\ ~SizeExceeds(e, acc.total)
    BY <2>1 DEF Refusable, PathOf
  <2>4. FilesUpTo(a, k + 1) = F \cup {k + 1}
    BY <2>1, UpToNext
  <2>5. h[k+1] = h[k] + e.size
    BY <1>2, <2>1 DEF AddSize
  <2>6. h[k] \in Nat /\ e.size \in Nat
    BY <1>1, SumsGrow, EntryShape
  <2>7. h[k+1] <= MAX_UNCOMPRESSED_TOTAL /\ Small(e)
    BY <2>2, <2>3, <2>5, <2>6, ArchiveAssumption DEF SizeExceeds, Small, ArchiveAssumption
  <2>8. new.seen = {PathOf(a, j) : j \in FilesUpTo(a, k + 1)}
    <3>. HIDE DEF F
    <3>. QED BY <2>1, <2>2, <2>4
  <2>9. \A j \in FilesUpTo(a, k + 1) : a[j].is \in Readable /\ PathOf(a, j) # Null /\ Small(a[j])
    <3>. HIDE DEF F
    <3>. QED BY <2>1, <2>2, <2>3, <2>4, <2>7
  <2>10. \A j \in F : PathOf(a, j) # PathOf(a, k + 1)
    <3>. HIDE DEF F
    <3>. QED BY <2>2, <2>3
  <2>11. \A i, j \in FilesUpTo(a, k + 1) : PathOf(a, i) = PathOf(a, j) => i = j
    <3>. HIDE DEF F
    <3>. QED BY <2>2, <2>4, <2>10
  <2>12. new.total = h[k+1] /\ new.read = h[k+1]
    BY <2>1, <2>2, <2>5
  <2>. QED BY <2>7, <2>8, <2>9, <2>11, <2>12 DEF Counted
<1>. QED BY <1>3, <1>4, <1>5

\* The members it has unpacked keep paths of their own that lead nowhere else.
LEMMA MembersStep ==
  ASSUME NEW a \in Seq(Entries),
         NEW k \in 0..(Len(a) - 1), NEW acc \in Progress, NEW new \in Progress,
         MembersStand(a, acc),
         Passes(acc, a[k+1], new) \/ Refuses(acc, a[k+1], new)
           \/ Raises(acc, a[k+1], new) \/ Takes(acc, a[k+1], new)
  PROVE  MembersStand(a, new)
<1>1. k + 1 \in 1..Len(a) /\ DOMAIN a = 1..Len(a)
  OBVIOUS
<1>2. CASE Passes(acc, a[k+1], new)
  BY <1>2 DEF Passes
<1>3. CASE Refuses(acc, a[k+1], new) \/ Raises(acc, a[k+1], new)
  <2>1. new.members = acc.members /\ new.seen = acc.seen
    BY <1>3 DEF Refuses, Raises
  <2>. QED BY <2>1 DEF MembersStand
<1>4. CASE Takes(acc, a[k+1], new)
  <2>. DEFINE old == acc.members
              n == Len(old)
              p == PathOf(a, k + 1)
              is == a[k+1].is
  <2>1. /\ ~IsDirectory(a[k+1]) /\ p # Null /\ p \notin acc.seen
        /\ new.seen = acc.seen \cup {p} /\ new.members = Append(old, [path |-> p, is |-> is])
    BY <1>4 DEF Takes, Refusable, PathOf
  <2>2. old \in MemberList
    BY DEF Progress
  <2>3. n \in Nat /\ DOMAIN old = 1..n
    <3>. HIDE DEF old
    <3>. QED BY <2>2 DEF MemberList
  <2>4. /\ DOMAIN new.members = 1..(n + 1)
        /\ \A m \in 1..n : new.members[m] = old[m]
        /\ new.members[n+1].path = p /\ new.members[n+1].is = is
    <3>. HIDE DEF old, p, is
    <3>. QED BY <2>1, <2>2, <2>3 DEF MemberList
  <2>5. LeadsNowhereElse(p)
    <3>1. a[k+1].parts \in Seq(STRING)
      BY <1>1, EntryShape
    <3>. QED BY <2>1, <3>1, SafePath DEF PathOf
  <2>6. k + 1 \in Files(a)
    BY <1>1, <2>1 DEF Files
  <2>7. \A m \in 1..n : /\ LeadsNowhereElse(old[m].path) /\ old[m].path \in acc.seen
                        /\ \E j \in Files(a) : a[j].is = old[m].is
    BY <2>3 DEF MembersStand
  <2>8. \A m, l \in 1..n : old[m].path = old[l].path => m = l
    BY <2>3 DEF MembersStand
  <2>9. \A m \in 1..(n + 1) : m \in 1..n \/ m = n + 1
    BY <2>3
  <2>. HIDE DEF old, n, p
  <2>10. ASSUME NEW m \in 1..(n + 1)
         PROVE  /\ LeadsNowhereElse(new.members[m].path)
                /\ new.members[m].path \in new.seen
                /\ \E j \in Files(a) : a[j].is = new.members[m].is
    <3>1. CASE m \in 1..n
      BY <3>1, <2>1, <2>4, <2>7
    <3>2. CASE m = n + 1
      BY <3>2, <2>1, <2>4, <2>5, <2>6
    <3>. QED BY <2>9, <3>1, <3>2
  <2>11. ASSUME NEW m \in 1..(n + 1), NEW l \in 1..(n + 1),
                new.members[m].path = new.members[l].path
         PROVE  m = l
    <3>1. \A i \in 1..n : new.members[i].path = old[i].path /\ old[i].path # p
      BY <2>1, <2>4, <2>7
    <3>. QED BY <2>4, <2>8, <2>9, <2>11, <3>1
  <2>. QED BY <2>4, <2>10, <2>11 DEF MembersStand
<1>. QED BY <1>2, <1>3, <1>4

\* The loop stops for no other reason than one that makes the archive unacceptable.
LEMMA StoppedStep ==
  ASSUME NEW a \in Seq(Entries), NEW h, SumsOf(h, a), SizeOf(a) = h[Len(a)],
         NEW k \in 0..(Len(a) - 1), NEW acc \in Progress, NEW new \in Progress,
         Counted(a, h, k, acc), Counted(a, h, k + 1, new), Stopped(a, acc),
         Passes(acc, a[k+1], new) \/ Refuses(acc, a[k+1], new)
           \/ Raises(acc, a[k+1], new) \/ Takes(acc, a[k+1], new)
  PROVE  Stopped(a, new)
<1>1. k + 1 \in 1..Len(a) /\ DOMAIN a = 1..Len(a)
  OBVIOUS
<1>2. CASE Passes(acc, a[k+1], new)
  BY <1>2 DEF Passes
<1>3. CASE Refuses(acc, a[k+1], new)
  <2>1. acc.outcome = "unpacked" /\ new.outcome = "rejected"
    BY <1>3 DEF Refuses
  <2>2. ~Acceptable(a)
    BY <1>3, <2>1, RefusedIsNotAcceptable DEF Refuses
  <2>3. new.read <= MAX_UNCOMPRESSED_TOTAL
    <3>1. CASE new.read = acc.read
      BY <3>1 DEF Stopped
    <3>2. CASE new.read = acc.read + a[k+1].size - 1 /\ ~SizeExceeds(a[k+1], acc.total)
      <4>1. acc.read = acc.total
        BY <2>1 DEF Counted
      <4>2. acc.total \in Nat /\ a[k+1].size \in Nat
        BY <1>1, EntryShape DEF Progress
      <4>. QED BY <3>2, <4>1, <4>2, ArchiveAssumption DEF SizeExceeds, ArchiveAssumption
    <3>. QED BY <1>3, <3>1, <3>2 DEF Refuses
  <2>. QED BY <2>1, <2>2, <2>3 DEF Stopped
<1>4. CASE Raises(acc, a[k+1], new)
  <2>1. k + 1 \in Files(a) /\ a[k+1].is = "damaged"
    BY <1>1, <1>4 DEF Raises, Files
  <2>. QED BY <1>4, <2>1 DEF Raises, Stopped
<1>5. CASE Takes(acc, a[k+1], new)
  BY <1>5 DEF Takes, Stopped, Counted
<1>. QED BY <1>2, <1>3, <1>4, <1>5

\* safe_unpack's loop, entry after entry.
LEMMA UnpackByPrefix ==
  ASSUME NEW a \in Seq(Entries)
  PROVE  \E g : /\ g[0] = NothingUnpacked
                /\ \A k \in 1..Len(a) : g[k] = UnpackEntry(g[k-1], a[k])
                /\ UnpackEntries(a) = g[Len(a)]
<1>1. UnpackEntries(a) = Unpacks!Folded(<< >>, a, NothingUnpacked)
  BY DEF UnpackEntries, FoldLeft, MapThenFoldSet, Max, Unpacks!Folded, Unpacks!Largest, UnpackOp
<1>2. \E g : /\ g[0] = NothingUnpacked
             /\ \A k \in 1..Len(a) : g[k] = UnpackOp(<< >>, g[k-1], a[k])
             /\ Unpacks!Folded(<< >>, a, NothingUnpacked) = g[Len(a)]
  BY Unpacks!ByPrefix
<1>. QED BY <1>1, <1>2 DEF UnpackOp

\* What the loop has come to when it ends.
LEMMA LoopEnds ==
  ASSUME NEW a \in Seq(Entries), NEW h, SumsOf(h, a), SizeOf(a) = h[Len(a)]
  PROVE  LET out == UnpackEntries(a)
         IN  /\ out \in Progress /\ Counted(a, h, Len(a), out)
             /\ MembersStand(a, out) /\ Stopped(a, out)
<1>1. PICK g : /\ g[0] = NothingUnpacked
               /\ \A k \in 1..Len(a) : g[k] = UnpackEntry(g[k-1], a[k])
               /\ UnpackEntries(a) = g[Len(a)]
  BY UnpackByPrefix
<1>2. Len(a) \in Nat /\ DOMAIN a = 1..Len(a)
  OBVIOUS
<1>. DEFINE S == {k \in 0..Len(a) : /\ g[k] \in Progress /\ Counted(a, h, k, g[k])
                                   /\ MembersStand(a, g[k]) /\ Stopped(a, g[k])}
<1>3. 0 \in S
  <2>. DEFINE acc == NothingUnpacked
  <2>1. acc \in Progress
    <3>1. << >> \in MemberList
      BY DEF MemberList
    <3>. QED BY <3>1 DEF NothingUnpacked, Progress
  <2>2. Counted(a, h, 0, acc)
    <3>1. FilesUpTo(a, 0) = {}
      BY DEF FilesUpTo
    <3>2. h[0] = 0 /\ 0 <= MAX_UNCOMPRESSED_TOTAL
      BY ArchiveAssumption DEF SumsOf, ArchiveAssumption
    <3>. QED BY <3>1, <3>2 DEF NothingUnpacked, Counted
  <2>3. MembersStand(a, acc)
    BY DEF NothingUnpacked, MembersStand
  <2>4. Stopped(a, acc)
    BY ArchiveAssumption DEF NothingUnpacked, Stopped, ArchiveAssumption
  <2>5. 0 \in 0..Len(a)
    BY <1>2
  <2>. QED BY <1>1, <2>1, <2>2, <2>3, <2>4, <2>5
<1>4. ASSUME NEW k \in 0..(Len(a) - 1), k \in S PROVE k + 1 \in S
  <2>1. k + 1 \in 1..Len(a) /\ k + 1 \in 0..Len(a) /\ (k + 1) - 1 = k
    BY <1>2
  <2>2. g[k+1] = UnpackEntry(g[k], a[k+1])
    BY <1>1, <2>1
  <2>3. a[k+1] \in Entries
    BY <2>1
  <2>4. g[k] \in Progress /\ Counted(a, h, k, g[k]) /\ MembersStand(a, g[k]) /\ Stopped(a, g[k])
    BY <1>4
  <2>. HIDE DEF S
  <2>5. /\ g[k+1] \in Progress
        /\ Passes(g[k], a[k+1], g[k+1]) \/ Refuses(g[k], a[k+1], g[k+1])
             \/ Raises(g[k], a[k+1], g[k+1]) \/ Takes(g[k], a[k+1], g[k+1])
    BY <2>2, <2>3, <2>4, UnpackStep
  <2>6. Counted(a, h, k + 1, g[k+1])
    BY <2>4, <2>5, CountedStep
  <2>7. MembersStand(a, g[k+1])
    BY <2>4, <2>5, MembersStep
  <2>8. Stopped(a, g[k+1])
    BY <2>4, <2>5, <2>6, StoppedStep
  <2>. QED BY <2>1, <2>5, <2>6, <2>7, <2>8 DEF S
<1>5. \A k \in 0..Len(a) : k \in S
  <2>. HIDE DEF S
  <2>. QED BY <1>2, <1>3, <1>4, Sums!Upwards
<1>6. Len(a) \in 0..Len(a)
  BY <1>2
<1>. QED BY <1>1, <1>5, <1>6

\* safe_unpack: what each outcome says of the directory, and of what was unpacked.
LEMMA UnpackOutcome ==
  ASSUME NEW a \in Seq(Entries)
  PROVE  LET out == safe_unpack(a)
         IN  /\ out.outcome \in {"unpacked", "rejected", "raised"}
             /\ out.outcome = "unpacked" => Acceptable(a)
             /\ out.outcome = "rejected" => ~Acceptable(a)
             /\ out.outcome = "raised" => \E j \in Files(a) : a[j].is = "damaged"
             /\ out.read <= MAX_UNCOMPRESSED_TOTAL
             /\ out.members \in MemberList
             /\ MembersStand(a, out)
<1>1. PICK h : SumsOf(h, a) /\ SizeOf(a) = h[Len(a)]
  BY SumByPrefix
<1>2. Len(a) \in Nat /\ DOMAIN a = 1..Len(a)
  OBVIOUS
<1>3. Cardinality(Files(a)) \in Nat
  <2>1. IsFiniteSet(1..Len(a))
    BY <1>2, FS_Interval
  <2>2. Files(a) \subseteq 1..Len(a)
    BY <1>2 DEF Files
  <2>. QED BY <2>1, <2>2, FS_Subset, FS_CardinalityType
<1>4. CASE Files(a) = {} \/ Cardinality(Files(a)) > MAX_MEMBERS
  <2>. DEFINE out == [NothingUnpacked EXCEPT !.outcome = "rejected"]
  <2>1. safe_unpack(a) = out
    BY <1>4 DEF safe_unpack
  <2>2. out.outcome = "rejected" /\ out.read = 0 /\ out.members = << >>
    BY DEF NothingUnpacked
  <2>3. ~Acceptable(a)
    <3>1. CASE Files(a) = {}
      BY <3>1 DEF Acceptable
    <3>2. CASE Cardinality(Files(a)) > MAX_MEMBERS
      <4>1. ~(Cardinality(Files(a)) <= MAX_MEMBERS)
        BY <1>3, <3>2, ArchiveAssumption DEF ArchiveAssumption
      <4>. QED BY <4>1 DEF Acceptable, Sizes
    <3>. QED BY <1>4, <3>1, <3>2
  <2>4. out.members \in MemberList /\ MembersStand(a, out)
    <3>. HIDE DEF out
    <3>1. << >> \in MemberList
      BY DEF MemberList
    <3>. QED BY <2>2, <3>1 DEF MembersStand
  <2>5. out.read <= MAX_UNCOMPRESSED_TOTAL
    BY <2>2, ArchiveAssumption DEF ArchiveAssumption
  <2>. HIDE DEF out
  <2>. QED BY <2>1, <2>2, <2>3, <2>4, <2>5
<1>5. CASE Files(a) # {} /\ ~(Cardinality(Files(a)) > MAX_MEMBERS)
  <2>. DEFINE out == UnpackEntries(a)
  <2>1. safe_unpack(a) = out
    BY <1>5 DEF safe_unpack
  <2>2. out \in Progress /\ Counted(a, h, Len(a), out) /\ MembersStand(a, out) /\ Stopped(a, out)
    BY <1>1, LoopEnds
  <2>. HIDE DEF out
  <2>3. /\ out.outcome \in {"unpacked", "rejected", "raised"} /\ out.members \in MemberList
    BY <2>2 DEF Progress
  <2>4. ASSUME out.outcome = "unpacked" PROVE Acceptable(a)
    <3>1. FilesUpTo(a, Len(a)) = Files(a)
      BY <1>2 DEF FilesUpTo, Files
    <3>2. /\ h[Len(a)] <= MAX_UNCOMPRESSED_TOTAL
          /\ \A j \in Files(a) : a[j].is \in Readable /\ PathOf(a, j) # Null /\ Small(a[j])
          /\ \A i, j \in Files(a) : PathOf(a, i) = PathOf(a, j) => i = j
      BY <2>2, <2>4, <3>1 DEF Counted
    <3>3. Cardinality(Files(a)) <= MAX_MEMBERS
      BY <1>3, <1>5, ArchiveAssumption DEF ArchiveAssumption
    <3>4. Sizes(a)
      BY <1>1, <3>2, <3>3 DEF Sizes, Small
    <3>. QED BY <1>5, <3>2, <3>4 DEF Acceptable, PathOf
  <2>5. /\ out.outcome = "rejected" => ~Acceptable(a)
        /\ out.outcome = "raised" => \E j \in Files(a) : a[j].is = "damaged"
        /\ out.read <= MAX_UNCOMPRESSED_TOTAL
    BY <2>2 DEF Stopped
  <2>. QED BY <2>1, <2>2, <2>3, <2>4, <2>5
<1>. QED BY <1>4, <1>5
\* safe_unpack: for every directory and every limit, what is unpacked is exactly
\* what is acceptable, whatever the order of the checks; no more bytes than the limit
\* were ever decompressed, and each member has a path of its own that leads nowhere
\* but into the archive's own prefix.
THEOREM UnpackingIsExact ==
  ASSUME NEW a \in Seq(Entries)
  PROVE  LET out == safe_unpack(a)
         IN  /\ out.outcome = "unpacked" <=> Acceptable(a)
             /\ out.read <= MAX_UNCOMPRESSED_TOTAL
             /\ MembersStand(a, out)
<1>1. PICK out : out = safe_unpack(a)
  OBVIOUS
<1>2. /\ out.outcome \in {"unpacked", "rejected", "raised"}
      /\ out.outcome = "unpacked" => Acceptable(a)
      /\ out.outcome = "rejected" => ~Acceptable(a)
      /\ out.outcome = "raised" => \E j \in Files(a) : a[j].is = "damaged"
      /\ out.read <= MAX_UNCOMPRESSED_TOTAL
      /\ MembersStand(a, out)
  BY <1>1, UnpackOutcome
<1>3. (\E j \in Files(a) : a[j].is = "damaged") => ~Acceptable(a)
  BY DEF Acceptable, Readable
<1>. QED BY <1>1, <1>2, <1>3

----------------------------------------------------------------------------
(* The inductive invariant. *)

\* s is a list, whatever it lists.
List(s) == s \in Seq(Range(s))

IsRow(x) ==
  x = [path |-> x.path, class |-> x.class, machine |-> x.machine, assembly |-> x.assembly,
       state |-> x.state, method |-> x.method, at |-> x.at]

\* The rows, each created at the start of its transaction: those of one path at
\* different times.
RowsStand ==
  /\ clock \in Nat /\ List(rows)
  /\ \A k \in DOMAIN rows :
       IsRow(rows[k]) /\ rows[k].at \in 1..clock /\ rows[k].method \in {Classifier, Override}
  /\ \A j, k \in DOMAIN rows :
       rows[j].path = rows[k].path /\ rows[j].at = rows[k].at => j = k

Busy(r) == review[r].phase # "none"

\* A correction copies a row that it has read; if that row is not superseded yet,
\* the correction supersedes it.
ReviewStands(r) ==
  /\ review[r].phase \in {"none", "read", "marked", "inserted"}
  /\ review[r] = [phase |-> review[r].phase, row |-> review[r].row, copy |-> review[r].copy,
                  update |-> review[r].update, marked |-> review[r].marked]
  /\ Busy(r) =>
       /\ review[r].row \in DOMAIN rows
       /\ IsRow(review[r].copy) /\ review[r].copy.method = Override
       /\ review[r].copy.state # "superseded"
       /\ review[r].copy.path = rows[review[r].row].path
       /\ review[r].copy.at \in 1..clock
       /\ review[r].copy.at > rows[review[r].row].at
       /\ \A k \in DOMAIN rows : rows[k].at # review[r].copy.at
       /\ ~review[r].update => rows[review[r].row].state = "superseded"
       /\ review[r].phase \in {"marked", "inserted"} =>
            review[r].marked = IF review[r].update THEN {review[r].row} ELSE {}

ReviewsStand ==
  /\ review = [r \in Reviewers |-> review[r]]
  /\ \A r \in Reviewers : ReviewStands(r)
  /\ \A r, q \in Reviewers :
       Busy(r) /\ Busy(q) /\ review[r].copy.at = review[q].copy.at => r = q

\* The attempt's start is its own, and while it holds the document nobody else has
\* inserted anything.
AttemptStands ==
  /\ attempt.phase \in {"none", "waiting", "locked", "unpacked", "writing"}
  /\ attempt = [phase |-> attempt.phase, at |-> attempt.at, seen |-> attempt.seen,
                todo |-> attempt.todo, adds |-> attempt.adds, marked |-> attempt.marked,
                name |-> attempt.name]
  /\ attempt.phase # "none" =>
       /\ attempt.at \in 1..clock
       /\ \A k \in DOMAIN rows : rows[k].at # attempt.at
       /\ \A r \in Reviewers : Busy(r) => review[r].copy.at # attempt.at
  /\ DocumentHeld => Inserted = {}
  /\ attempt.phase # "writing" => attempt.adds = << >> /\ attempt.marked = {}
  /\ attempt.phase \in {"unpacked", "writing"} => intake.phase = "unpacked"

\* A prediction that may be written: of no path where a person's word is in force.
Writable(row) ==
  /\ IsRow(row) /\ row.at = attempt.at /\ row.method = Classifier /\ row.state # "superseded"
  /\ ~Overridden(row.path)

\* What the attempt has still to write and what it has written, each path once, and
\* what it has marked: the assignment in force of each path it has written.
WritesStand ==
  attempt.phase = "writing" =>
    /\ List(attempt.todo) /\ List(attempt.adds)
    /\ \A i \in DOMAIN attempt.todo : attempt.todo[i] # Null =>
         /\ Writable(attempt.todo[i].row)
         /\ attempt.todo[i].supersede = {current_for_path(rows, attempt.todo[i].row.path)} \ {0}
    /\ \A i \in DOMAIN attempt.adds :
         /\ Writable(attempt.adds[i])
         /\ {current_for_path(rows, attempt.adds[i].path)} \ {0} \subseteq attempt.marked
    /\ \A k \in attempt.marked :
         k # 0 /\ \E i \in DOMAIN attempt.adds : k = current_for_path(rows, attempt.adds[i].path)
    /\ \A i, j \in DOMAIN attempt.todo :
         attempt.todo[i] # Null /\ attempt.todo[j] # Null
           /\ attempt.todo[i].row.path = attempt.todo[j].row.path => i = j
    /\ \A i, j \in DOMAIN attempt.adds :
         attempt.adds[i].path = attempt.adds[j].path => i = j
    /\ \A i \in DOMAIN attempt.todo, j \in DOMAIN attempt.adds :
         attempt.todo[i] # Null => attempt.todo[i].row.path # attempt.adds[j].path

\* The members of an archive that has been unpacked, each under a path of its own.
MembersKnown ==
  intake.phase = "unpacked" =>
    /\ intake.members \in MemberList /\ intake.members \in Unpackable
    /\ \A k \in DOMAIN intake.members : intake.members[k].path # Root
    /\ \A j, k \in DOMAIN intake.members :
         intake.members[j].path = intake.members[k].path => j = k

\* The upload, and what is known of the archive while it is kept.
UploadStands ==
  /\ intake = [phase |-> intake.phase, size |-> intake.size, total |-> intake.total,
               archive |-> intake.archive, members |-> intake.members]
  /\ intake.phase \in {"reading", "empty", "too_large", "stored", "unpacked", "rejected", "raised"}
  /\ intake.phase \in {"reading", "empty", "too_large", "stored"} =>
       /\ intake.size \in Nat /\ intake.total \in Nat /\ intake.total <= intake.size
       /\ intake.archive = << >>
  /\ UploadBounded

ArchiveStands == intake.archive # << >> => intake.archive \in Archives /\ SafeUnpack

IntakeStands == UploadStands /\ ArchiveStands /\ MembersKnown

\* OneCurrent, without counting.
OnePerPath == \A p \in Paths \ forked : \A j, k \in Current(rows, p) : j = k

AssignmentsStand == RowsStand /\ ReviewsStand /\ AttemptStands /\ WritesStand /\ OnePerPath

IInv == IntakeStands /\ AssignmentsStand

----------------------------------------------------------------------------
(* Lists. *)

\* A list is the function of its positions.
LEMMA ListShape ==
  ASSUME NEW s, List(s)
  PROVE  Len(s) \in Nat /\ DOMAIN s = 1..Len(s) /\ s = [k \in 1..Len(s) |-> s[k]]
BY DEF List

\* A function on 1..n is a list of length n.
LEMMA ListOf ==
  ASSUME NEW n \in Nat, NEW s, s = [k \in 1..n |-> s[k]]
  PROVE  List(s) /\ Len(s) = n /\ DOMAIN s = 1..n
<1>1. DOMAIN s = 1..n
  OBVIOUS
<1>2. s \in [1..n -> Range(s)]
  BY <1>1 DEF Range
<1>3. s \in Seq(Range(s))
  BY <1>2
<1>. QED BY <1>1, <1>3 DEF List

\* Nothing is a list.
LEMMA EmptyList ==
  List(<< >>) /\ Len(<< >>) = 0 /\ DOMAIN << >> = {}
<1>1. << >> \in Seq(Range(<< >>))
  OBVIOUS
<1>. QED BY <1>1 DEF List

\* The tail of a list.
LEMMA ListTail ==
  ASSUME NEW s, List(s), s # << >>
  PROVE  /\ List(Tail(s)) /\ Len(s) > 0 /\ Len(Tail(s)) = Len(s) - 1
         /\ \A k \in 1..(Len(s) - 1) : Tail(s)[k] = s[k+1]
<1>1. Len(s) \in Nat /\ DOMAIN s = 1..Len(s) /\ s \in Seq(Range(s))
  BY DEF List
<1>2. Len(s) > 0
  BY <1>1
<1>3. /\ Tail(s) \in Seq(Range(s)) /\ Len(Tail(s)) = Len(s) - 1
      /\ \A k \in 1..(Len(s) - 1) : Tail(s)[k] = s[k+1]
  BY <1>1, <1>2
<1>4. Tail(s) = [k \in 1..(Len(s) - 1) |-> Tail(s)[k]]
  <2>. DEFINE t == Tail(s)
              X == Range(s)
  <2>1. t \in Seq(X) /\ Len(t) = Len(s) - 1
    BY <1>3
  <2>. HIDE DEF t, X
  <2>2. t \in [1..Len(t) -> X]
    BY <2>1
  <2>3. t = [k \in 1..Len(t) |-> t[k]]
    BY <2>2
  <2>4. t = [k \in 1..(Len(s) - 1) |-> t[k]]
    BY <2>1, <2>3
  <2>. QED BY <2>4 DEF t
<1>5. Len(s) - 1 \in Nat
  BY <1>1, <1>2
<1>. QED BY <1>2, <1>3, <1>4, <1>5, ListOf

\* A list with one more element.
LEMMA ListAppend ==
  ASSUME NEW s, List(s), NEW x
  PROVE  /\ List(Append(s, x)) /\ Len(Append(s, x)) = Len(s) + 1
         /\ \A k \in 1..Len(s) : Append(s, x)[k] = s[k]
         /\ Append(s, x)[Len(s) + 1] = x
<1>. DEFINE t == Append(s, x)
            X == Range(s) \cup {x}
<1>1. Len(s) \in Nat /\ s \in Seq(Range(s))
  BY DEF List
<1>2. s \in Seq(X)
  <2>1. s \in [1..Len(s) -> Range(s)]
    BY <1>1
  <2>2. Range(s) \subseteq X
    OBVIOUS
  <2>. HIDE DEF X
  <2>3. s \in [1..Len(s) -> X]
    BY <2>1, <2>2
  <2>. QED BY <1>1, <2>3
<1>3. x \in X
  OBVIOUS
<1>. HIDE DEF X
<1>4. t \in Seq(X) /\ Len(t) = Len(s) + 1 /\ t[Len(s) + 1] = x
      /\ \A k \in 1..Len(s) : t[k] = s[k]
  BY <1>1, <1>2, <1>3
<1>5. t = [k \in 1..(Len(s) + 1) |-> t[k]]
  <2>. HIDE DEF t
  <2>1. t \in [1..Len(t) -> X]
    BY <1>4
  <2>2. t = [k \in 1..Len(t) |-> t[k]]
    BY <2>1
  <2>. QED BY <1>4, <2>2
<1>6. Len(s) + 1 \in Nat
  BY <1>1
<1>. HIDE DEF t
<1>7. List(t)
  BY <1>5, <1>6, ListOf
<1>. QED BY <1>4, <1>7 DEF t

\* Two lists one after the other.
LEMMA ListConcat ==
  ASSUME NEW s, List(s), NEW u, List(u)
  PROVE  /\ List(s \o u) /\ Len(s \o u) = Len(s) + Len(u)
         /\ \A k \in 1..Len(s) : (s \o u)[k] = s[k]
         /\ \A k \in 1..Len(u) : (s \o u)[Len(s) + k] = u[k]
<1>. DEFINE t == s \o u
            X == Range(s) \cup Range(u)
<1>1. /\ Len(s) \in Nat /\ s \in [1..Len(s) -> Range(s)]
      /\ Len(u) \in Nat /\ u \in [1..Len(u) -> Range(u)]
  BY DEF List
<1>2. Range(s) \subseteq X /\ Range(u) \subseteq X
  OBVIOUS
<1>. HIDE DEF X
<1>3. s \in Seq(X) /\ u \in Seq(X)
  <2>1. s \in [1..Len(s) -> X] /\ u \in [1..Len(u) -> X]
    BY <1>1, <1>2
  <2>. QED BY <1>1, <2>1
<1>4. t \in Seq(X) /\ Len(t) = Len(s) + Len(u)
  BY <1>3
<1>5. \A k \in 1..Len(s) : t[k] = s[k]
  BY <1>1, <1>3
<1>6. \A k \in 1..Len(u) : t[Len(s) + k] = u[k]
  BY <1>1, <1>3
<1>7. t = [k \in 1..(Len(s) + Len(u)) |-> t[k]]
  <2>. HIDE DEF t
  <2>1. t \in [1..Len(t) -> X]
    BY <1>4
  <2>2. t = [k \in 1..Len(t) |-> t[k]]
    BY <2>1
  <2>. QED BY <1>4, <2>2
<1>8. Len(s) + Len(u) \in Nat
  BY <1>1
<1>. HIDE DEF t
<1>9. List(t)
  BY <1>7, <1>8, ListOf
<1>. QED BY <1>4, <1>5, <1>6, <1>9 DEF t

----------------------------------------------------------------------------
(* The assignment in force. *)

\* A table of rows that were created before a time.
Table(t) ==
  /\ List(t)
  /\ \A k \in DOMAIN t : IsRow(t[k]) /\ t[k].at \in Nat
  /\ \E c \in Nat : \A k \in DOMAIN t : t[k].at \in 1..c
  /\ \A j, k \in DOMAIN t : t[j].path = t[k].path /\ t[j].at = t[k].at => j = k

\* The rows are such a table.
LEMMA RowsAreATable ==
  ASSUME RowsStand
  PROVE  Table(rows)
BY DEF RowsStand, Table

\* _current_for_path returns a row in force that none in force is later than, or nothing
\* when there is none.
LEMMA CurrentForPath ==
  ASSUME NEW t, Table(t), NEW p
  PROVE  LET k == current_for_path(t, p)
         IN  /\ k = 0 <=> Current(t, p) = {}
             /\ k # 0 => k \in Current(t, p) /\ \A j \in Current(t, p) : t[j].at <= t[k].at
<1>. DEFINE C == Current(t, p)
            times == {t[j].at : j \in C}
            k == current_for_path(t, p)
<1>1. DOMAIN t = 1..Len(t) /\ Len(t) \in Nat
  BY ListShape DEF Table
<1>2. C \subseteq 1..Len(t)
  BY <1>1 DEF Current
<1>3. CASE C = {}
  BY <1>3 DEF current_for_path
<1>4. CASE C # {}
  <2>1. PICK c \in Nat : \A j \in DOMAIN t : t[j].at \in 1..c
    BY DEF Table
  <2>2. times \in SUBSET (1..c) /\ times # {}
    BY <1>1, <1>2, <1>4, <2>1
  <2>3. /\ Sums!Largest(times) \in times
        /\ \A y \in times : Sums!Largest(times) >= y
    <3>. HIDE DEF times
    <3>. QED BY <2>2, Sums!LargestIsIn
  <2>4. PICK m \in C : Sums!Largest(times) = t[m].at
    BY <2>3
  <2>5. \A j \in C : t[j].at <= t[m].at /\ t[j].at \in times
    <3>1. \A j \in C : t[j].at \in times /\ t[j].at \in Nat
      BY <1>2, <1>1 DEF Table
    <3>2. t[m].at \in Nat
      BY <3>1
    <3>. HIDE DEF times, C
    <3>. QED BY <2>3, <2>4, <3>1, <3>2
  <2>6. k = CHOOSE i \in C : \A j \in C : t[j].at <= t[i].at
    BY <1>4 DEF current_for_path
  <2>7. \E i \in C : \A j \in C : t[j].at <= t[i].at
    BY <2>5
  <2>8. k \in C /\ \A j \in C : t[j].at <= t[k].at
    <3>. HIDE DEF C, k
    <3>. QED BY <2>6, <2>7
  <2>9. k # 0
    <3>. HIDE DEF C, k
    <3>. QED BY <1>2, <2>8
  <2>. QED BY <1>4, <2>8, <2>9
<1>. QED BY <1>3, <1>4

\* Rows of a path were created at different times, so only one was created last.
LEMMA LatestIsInForce ==
  ASSUME NEW t, Table(t), NEW p, NEW k \in Current(t, p),
         \A j \in Current(t, p) : t[j].at <= t[k].at
  PROVE  current_for_path(t, p) = k /\ k # 0
<1>. DEFINE i == current_for_path(t, p)
<1>1. i \in Current(t, p) /\ t[k].at <= t[i].at /\ i # 0
  BY CurrentForPath
<1>. HIDE DEF i
<1>2. i \in DOMAIN t /\ k \in DOMAIN t /\ t[i].path = t[k].path
  BY <1>1 DEF Current
<1>3. t[i].at \in Nat /\ t[k].at \in Nat /\ t[i].at <= t[k].at
  BY <1>1, <1>2 DEF Table
<1>4. t[i].at = t[k].at
  BY <1>1, <1>3
<1>5. i = k
  BY <1>2, <1>4 DEF Table
<1>. QED BY <1>1, <1>5 DEF i

\* new is t after a commit that supersedes S and inserts u.
Committed(t, S, u, new) ==
  /\ List(new) /\ Len(new) = Len(t) + Len(u)
  /\ \A k \in 1..Len(t) :
       new[k] = IF k \in S THEN [t[k] EXCEPT !.state = "superseded"] ELSE t[k]
  /\ \A i \in 1..Len(u) : new[Len(t) + i] = u[i]

\* Superseding rows changes their state only.
LEMMA SupersededList ==
  ASSUME NEW t, List(t), NEW S
  PROVE  /\ List(Superseded(t, S)) /\ Len(Superseded(t, S)) = Len(t)
         /\ \A k \in 1..Len(t) :
              Superseded(t, S)[k] = IF k \in S THEN [t[k] EXCEPT !.state = "superseded"] ELSE t[k]
<1>. DEFINE s == Superseded(t, S)
<1>1. Len(t) \in Nat /\ DOMAIN t = 1..Len(t)
  BY ListShape
<1>2. /\ s = [k \in 1..Len(t) |-> s[k]]
      /\ \A k \in 1..Len(t) : s[k] = IF k \in S THEN [t[k] EXCEPT !.state = "superseded"] ELSE t[k]
  BY <1>1 DEF Superseded
<1>. HIDE DEF s
<1>3. List(s) /\ Len(s) = Len(t)
  BY <1>1, <1>2, ListOf
<1>. QED BY <1>2, <1>3 DEF s

\* The attempt's commit is one.
LEMMA CommitMany ==
  ASSUME NEW t, List(t), NEW S, NEW u, List(u)
  PROVE  Committed(t, S, u, Superseded(t, S) \o u)
<1>. DEFINE s == Superseded(t, S)
<1>1. /\ List(s) /\ Len(s) = Len(t)
      /\ \A k \in 1..Len(t) : s[k] = IF k \in S THEN [t[k] EXCEPT !.state = "superseded"] ELSE t[k]
  BY SupersededList
<1>. HIDE DEF s
<1>2. /\ List(s \o u) /\ Len(s \o u) = Len(t) + Len(u)
      /\ \A k \in 1..Len(t) : (s \o u)[k] = s[k]
      /\ \A k \in 1..Len(u) : (s \o u)[Len(t) + k] = u[k]
  BY <1>1, ListConcat
<1>. QED BY <1>1, <1>2 DEF Committed, s

\* A correction's commit is one.
LEMMA CommitOne ==
  ASSUME NEW t, List(t), NEW S, NEW x
  PROVE  Committed(t, S, <<x>>, Append(Superseded(t, S), x))
<1>. DEFINE s == Superseded(t, S)
<1>1. /\ List(s) /\ Len(s) = Len(t)
      /\ \A k \in 1..Len(t) : s[k] = IF k \in S THEN [t[k] EXCEPT !.state = "superseded"] ELSE t[k]
  BY SupersededList
<1>. HIDE DEF s
<1>2. /\ List(Append(s, x)) /\ Len(Append(s, x)) = Len(t) + 1
      /\ \A k \in 1..Len(t) : Append(s, x)[k] = s[k]
      /\ Append(s, x)[Len(t) + 1] = x
  BY <1>1, ListAppend
<1>3. Len(<<x>>) = 1 /\ <<x>>[1] = x
  OBVIOUS
<1>4. \A i \in 1..Len(<<x>>) : i = 1
  BY <1>3
<1>5. \A i \in 1..Len(<<x>>) : Append(s, x)[Len(t) + i] = <<x>>[i]
  BY <1>2, <1>3, <1>4
<1>. QED BY <1>1, <1>2, <1>3, <1>5 DEF Committed, s

\* What is left of t, and where the rows of u are.
Keeps(t, S, u, new) ==
  /\ Len(t) \in Nat /\ Len(u) \in Nat
  /\ DOMAIN t = 1..Len(t) /\ DOMAIN new = 1..(Len(t) + Len(u))
  /\ \A k \in 1..Len(t) :
       /\ k \in DOMAIN new /\ IsRow(new[k]) /\ new[k].path = t[k].path
       /\ new[k].at = t[k].at /\ new[k].method = t[k].method
       /\ (k \in S => new[k].state = "superseded") /\ (k \notin S => new[k].state = t[k].state)
  /\ \A i \in 1..Len(u) : Len(t) + i \in DOMAIN new /\ new[Len(t) + i] = u[i]
  /\ \A k \in DOMAIN new : k \in 1..Len(t) \/ \E i \in 1..Len(u) : k = Len(t) + i

\* A commit keeps what the rows say except for the state of what it supersedes.
LEMMA KeptRows ==
  ASSUME NEW t, Table(t), NEW S, NEW u, List(u), NEW new, Committed(t, S, u, new)
  PROVE  Keeps(t, S, u, new)
<1>1. /\ Len(t) \in Nat /\ Len(u) \in Nat /\ DOMAIN t = 1..Len(t)
      /\ DOMAIN new = 1..(Len(t) + Len(u))
  BY ListShape DEF Committed, Table
<1>2. ASSUME NEW k \in 1..Len(t)
      PROVE  /\ k \in DOMAIN new /\ IsRow(new[k]) /\ new[k].path = t[k].path
             /\ new[k].at = t[k].at /\ new[k].method = t[k].method
             /\ (k \in S => new[k].state = "superseded") /\ (k \notin S => new[k].state = t[k].state)
  <2>1. IsRow(t[k])
    BY <1>1 DEF Table
  <2>2. k \in DOMAIN new
    BY <1>1
  <2>3. CASE k \in S
    <3>. DEFINE x == t[k]
    <3>1. new[k] = [x EXCEPT !.state = "superseded"]
      BY <2>3 DEF Committed
    <3>. HIDE DEF x
    <3>2. IsRow(x)
      BY <2>1 DEF x
    <3>3. /\ IsRow([x EXCEPT !.state = "superseded"])
          /\ [x EXCEPT !.state = "superseded"].path = x.path
          /\ [x EXCEPT !.state = "superseded"].at = x.at
          /\ [x EXCEPT !.state = "superseded"].method = x.method
          /\ [x EXCEPT !.state = "superseded"].state = "superseded"
      BY <3>2 DEF IsRow
    <3>. QED BY <2>2, <2>3, <3>1, <3>3 DEF x
  <2>4. CASE k \notin S
    BY <2>1, <2>2, <2>4 DEF Committed
  <2>. QED BY <2>3, <2>4
<1>3. \A i \in 1..Len(u) : Len(t) + i \in DOMAIN new /\ new[Len(t) + i] = u[i]
  BY <1>1 DEF Committed
<1>4. ASSUME NEW k \in DOMAIN new, k \notin 1..Len(t)
      PROVE  \E i \in 1..Len(u) : k = Len(t) + i
  <2>1. k - Len(t) \in 1..Len(u) /\ k = Len(t) + (k - Len(t))
    BY <1>1, <1>4
  <2>. QED BY <2>1
<1>. QED BY <1>1, <1>2, <1>3, <1>4 DEF Keeps

Fresh(u, p) == {j \in 1..Len(u) : u[j].path = p /\ u[j].state # "superseded"}
After(t, S, u, p) == (Current(t, p) \ S) \cup {Len(t) + i : i \in Fresh(u, p)}

\* What is in force for a path after a commit.
LEMMA CurrentAfter ==
  ASSUME NEW t, Table(t), NEW S, NEW u, List(u), NEW new, Committed(t, S, u, new), NEW p
  PROVE  Current(new, p) = After(t, S, u, p)
<1>. DEFINE fresh == {Len(t) + i : i \in Fresh(u, p)}
<1>1. /\ Len(t) \in Nat /\ Len(u) \in Nat
      /\ DOMAIN t = 1..Len(t) /\ DOMAIN new = 1..(Len(t) + Len(u))
      /\ \A k \in 1..Len(t) :
           /\ k \in DOMAIN new /\ new[k].path = t[k].path
           /\ (k \in S => new[k].state = "superseded") /\ (k \notin S => new[k].state = t[k].state)
      /\ \A i \in 1..Len(u) : Len(t) + i \in DOMAIN new /\ new[Len(t) + i] = u[i]
      /\ \A k \in DOMAIN new : k \in 1..Len(t) \/ \E i \in 1..Len(u) : k = Len(t) + i
  <2>1. Keeps(t, S, u, new)
    BY KeptRows
  <2>. QED BY <2>1 DEF Keeps
<1>2. ASSUME NEW k \in Current(new, p) PROVE k \in (Current(t, p) \ S) \cup fresh
  <2>1. k \in DOMAIN new /\ new[k].path = p /\ new[k].state # "superseded"
    BY DEF Current
  <2>2. CASE k \in 1..Len(t)
    BY <1>1, <2>1, <2>2 DEF Current
  <2>3. CASE k \notin 1..Len(t)
    <3>1. PICK i \in 1..Len(u) : k = Len(t) + i
      BY <1>1, <2>1, <2>3
    <3>2. u[i].path = p /\ u[i].state # "superseded"
      BY <1>1, <2>1, <3>1
    <3>. QED BY <3>1, <3>2 DEF Fresh
  <2>. QED BY <2>2, <2>3
<1>3. ASSUME NEW k \in Current(t, p), k \notin S PROVE k \in Current(new, p)
  BY <1>1, <1>3 DEF Current
<1>4. ASSUME NEW k \in fresh PROVE k \in Current(new, p)
  <2>1. PICK i \in 1..Len(u) : u[i].path = p /\ u[i].state # "superseded" /\ k = Len(t) + i
    BY DEF Fresh
  <2>. QED BY <1>1, <2>1 DEF Current
<1>. HIDE DEF fresh
<1>5. Current(new, p) = (Current(t, p) \ S) \cup fresh
  BY <1>2, <1>3, <1>4
<1>. QED BY <1>5 DEF fresh, After

----------------------------------------------------------------------------
(* What comes in. *)

\* The lesser of two numbers.
LEMMA LeastOfTwo ==
  ASSUME NEW a \in Int, NEW b \in Int
  PROVE  Min({a, b}) = IF a <= b THEN a ELSE b
<1>. DEFINE m == Min({a, b})
<1>1. m = CHOOSE x \in {a, b} : \A y \in {a, b} : x <= y
  BY DEF Min
<1>2. \E x \in {a, b} : \A y \in {a, b} : x <= y
  <2>1. CASE a <= b
    BY <2>1
  <2>2. CASE ~(a <= b)
    BY <2>2
  <2>. QED BY <2>1, <2>2
<1>3. m \in {a, b} /\ \A y \in {a, b} : m <= y
  <2>. HIDE DEF m
  <2>. QED BY <1>1, <1>2
<1>. HIDE DEF m
<1>4. m = IF a <= b THEN a ELSE b
  BY <1>3
<1>. QED BY <1>4 DEF m

\* The upload as it begins.
LEMMA IntakeInit ==
  ASSUME Init
  PROVE  IntakeStands
<1>1. PICK size \in Bodies :
        intake = [phase |-> "reading", size |-> size, total |-> 0,
                  archive |-> << >>, members |-> << >>]
  BY DEF Init
<1>2. size \in Nat /\ MAX_BYTES \in Nat
  BY PackagesAssumption DEF PackagesAssumption
<1>3. UploadStands
  BY <1>1, <1>2 DEF UploadStands, UploadBounded
<1>4. ArchiveStands /\ MembersKnown
  BY <1>1 DEF ArchiveStands, MembersKnown
<1>. QED BY <1>3, <1>4 DEF IntakeStands

\* One read: it asks for something as long as the body may still fit.
LEMMA ReadStep ==
  ASSUME IntakeStands, read_upload_bounded
  PROVE  IntakeStands'
<1>. DEFINE size == intake.size
            total == intake.total
            most == Min({size - total, Wanted(total)})
<1>1. /\ intake.phase = "reading"
      /\ \E n \in IF most = 0 THEN {0} ELSE 1..most :
           intake' =
             IF n = 0 THEN [intake EXCEPT !.phase = IF intake.total = 0 THEN "empty" ELSE "stored"]
             ELSE IF intake.total + n > MAX_BYTES THEN [intake EXCEPT !.phase = "too_large"]
             ELSE [intake EXCEPT !.total = @ + n]
  BY DEF read_upload_bounded
<1>2. /\ size \in Nat /\ total \in Nat /\ total <= size /\ total <= MAX_BYTES
      /\ intake.archive = << >> /\ MAX_BYTES \in Nat /\ CHUNK \in Nat \ {0}
  BY <1>1, PackagesAssumption DEF IntakeStands, UploadStands, UploadBounded, PackagesAssumption
<1>3. /\ Wanted(total) \in Nat /\ Wanted(total) > 0
  <2>1. MAX_BYTES - total + 1 \in Nat /\ MAX_BYTES - total + 1 > 0 /\ CHUNK > 0
    BY <1>2
  <2>2. Wanted(total) = IF CHUNK <= MAX_BYTES - total + 1 THEN CHUNK ELSE MAX_BYTES - total + 1
    BY <1>2, <2>1, LeastOfTwo DEF Wanted
  <2>. QED BY <1>2, <2>1, <2>2
<1>4. /\ most \in Nat /\ most <= size - total
      /\ most = 0 => total = size
  <2>1. size - total \in Nat
    BY <1>2
  <2>2. most = IF size - total <= Wanted(total) THEN size - total ELSE Wanted(total)
    BY <1>3, <2>1, LeastOfTwo
  <2>. HIDE DEF most
  <2>. QED BY <1>2, <1>3, <2>1, <2>2
<1>5. PICK n \in IF most = 0 THEN {0} ELSE 1..most :
           intake' =
             IF n = 0 THEN [intake EXCEPT !.phase = IF intake.total = 0 THEN "empty" ELSE "stored"]
             ELSE IF intake.total + n > MAX_BYTES THEN [intake EXCEPT !.phase = "too_large"]
             ELSE [intake EXCEPT !.total = @ + n]
  BY <1>1
<1>6. n \in Nat /\ n <= most /\ (n = 0 => most = 0)
  <2>. HIDE DEF most
  <2>. QED BY <1>4
<1>. HIDE DEF most
<1>7. intake = [phase |-> intake.phase, size |-> intake.size, total |-> intake.total,
                archive |-> intake.archive, members |-> intake.members]
  BY DEF IntakeStands, UploadStands
<1>8. CASE n = 0
  <2>. DEFINE ph == IF intake.total = 0 THEN "empty" ELSE "stored"
  <2>1. intake' = [intake EXCEPT !.phase = ph]
    BY <1>5, <1>8
  <2>2. ph \in {"empty", "stored"} /\ (ph = "empty" <=> total = 0)
    OBVIOUS
  <2>3. total = size
    BY <1>4, <1>6, <1>8
  <2>. HIDE DEF ph
  <2>4. /\ intake'.phase = ph /\ intake'.size = size /\ intake'.total = total
        /\ intake'.archive = << >>
        /\ intake' = [phase |-> ph, size |-> size, total |-> total,
                      archive |-> intake.archive, members |-> intake.members]
    BY <1>2, <1>7, <2>1
  <2>5. intake'.members = intake.members
    BY <1>7, <2>1
  <2>. HIDE DEF size, total
  <2>6. UploadStands'
    BY <1>2, <2>2, <2>3, <2>4, <2>5 DEF UploadStands, UploadBounded
  <2>7. ArchiveStands' /\ MembersKnown'
    BY <2>2, <2>4 DEF ArchiveStands, MembersKnown
  <2>. QED BY <2>6, <2>7 DEF IntakeStands
<1>9. CASE n # 0 /\ total + n > MAX_BYTES
  <2>1. intake' = [intake EXCEPT !.phase = "too_large"]
    BY <1>5, <1>9
  <2>2. size > MAX_BYTES
    BY <1>2, <1>4, <1>6, <1>9
  <2>3. /\ intake'.phase = "too_large" /\ intake'.size = size /\ intake'.total = total
        /\ intake'.archive = << >> /\ intake'.members = intake.members
        /\ intake' = [phase |-> "too_large", size |-> size, total |-> total,
                      archive |-> intake.archive, members |-> intake.members]
    BY <1>2, <1>7, <2>1
  <2>. HIDE DEF size, total
  <2>4. UploadStands'
    BY <1>2, <2>2, <2>3 DEF UploadStands, UploadBounded
  <2>5. ArchiveStands' /\ MembersKnown'
    BY <2>3 DEF ArchiveStands, MembersKnown
  <2>. QED BY <2>4, <2>5 DEF IntakeStands
<1>10. CASE n # 0 /\ ~(total + n > MAX_BYTES)
  <2>. DEFINE sum == total + n
  <2>1. intake' = [intake EXCEPT !.total = sum]
    BY <1>5, <1>10
  <2>2. sum \in Nat /\ sum <= size /\ sum <= MAX_BYTES
    BY <1>2, <1>4, <1>6, <1>10
  <2>. HIDE DEF sum
  <2>3. /\ intake'.phase = "reading" /\ intake'.size = size /\ intake'.total = sum
        /\ intake'.archive = << >> /\ intake'.members = intake.members
        /\ intake' = [phase |-> "reading", size |-> size, total |-> sum,
                      archive |-> intake.archive, members |-> intake.members]
    BY <1>1, <1>2, <1>7, <2>1
  <2>. HIDE DEF size, total
  <2>4. UploadStands'
    BY <1>2, <2>2, <2>3 DEF UploadStands, UploadBounded
  <2>5. ArchiveStands' /\ MembersKnown'
    BY <2>3 DEF ArchiveStands, MembersKnown
  <2>. QED BY <2>4, <2>5 DEF IntakeStands
<1>. QED BY <1>8, <1>9, <1>10

\* The archive is unpacked, or was unpacked by an attempt before.
LEMMA UnpackStored ==
  ASSUME IntakeStands, intake.phase = "stored", NEW a \in Archives,
         NEW out, out = safe_unpack(a), NEW refused \in BOOLEAN,
         refused <=> \E k \in DOMAIN out.members : out.members[k].is = "invalid",
         intake' = [phase |-> IF out.outcome = "unpacked" /\ refused THEN "rejected"
                              ELSE out.outcome,
                    size |-> 0, total |-> out.read, archive |-> a, members |-> out.members]
  PROVE  IntakeStands'
<1>. DEFINE ph == IF out.outcome = "unpacked" /\ refused THEN "rejected" ELSE out.outcome
<1>1. a \in Seq(Entries)
  BY PackagesAssumption DEF PackagesAssumption
<1>2. /\ out.outcome \in {"unpacked", "rejected", "raised"}
      /\ out.outcome = "unpacked" => Acceptable(a)
      /\ out.outcome = "rejected" => ~Acceptable(a)
      /\ out.outcome = "raised" => \E j \in Files(a) : a[j].is = "damaged"
      /\ out.read <= MAX_UNCOMPRESSED_TOTAL
      /\ out.members \in MemberList
      /\ MembersStand(a, out)
  BY <1>1, UnpackOutcome
<1>3. /\ intake'.phase = ph /\ intake'.total = out.read /\ intake'.archive = a
      /\ intake'.members = out.members /\ intake'.size = 0
      /\ intake' = [phase |-> intake'.phase, size |-> intake'.size, total |-> intake'.total,
                    archive |-> intake'.archive, members |-> intake'.members]
  OBVIOUS
<1>4. ph \in {"unpacked", "rejected", "raised"}
  BY <1>2
<1>5. UploadStands'
  <2>. HIDE DEF ph
  <2>. QED BY <1>3, <1>4 DEF UploadStands, UploadBounded
<1>6. SafeUnpack'
  <2>1. ASSUME ph = "unpacked" PROVE Acceptable(a)
    BY <1>2, <2>1
  <2>2. ASSUME ph = "raised" PROVE \E k \in Files(a) : a[k].is = "damaged"
    BY <1>2, <2>2
  <2>3. ASSUME ph = "rejected" PROVE ~Acceptable(a) \/ \E k \in Files(a) : a[k].is = "invalid"
    <3>1. CASE out.outcome = "rejected"
      BY <3>1, <1>2
    <3>2. CASE out.outcome # "rejected"
      <4>1. PICK k \in DOMAIN out.members : out.members[k].is = "invalid"
        BY <2>3, <3>2
      <4>2. \E j \in Files(a) : a[j].is = out.members[k].is
        BY <1>2 DEF MembersStand
      <4>. QED BY <4>1, <4>2
    <3>. QED BY <3>1, <3>2
  <2>4. \A k \in DOMAIN out.members : Range(out.members[k].path) \cap {"", ".", "..", "c:"} = {}
    BY <1>2 DEF MembersStand, LeadsNowhereElse
  <2>. HIDE DEF ph
  <2>. QED BY <1>2, <1>3, <2>1, <2>2, <2>3, <2>4 DEF SafeUnpack
<1>7. MembersKnown'
  <2>1. /\ \A k \in DOMAIN out.members : out.members[k].path # << >>
        /\ \A j, k \in DOMAIN out.members : out.members[j].path = out.members[k].path => j = k
    BY <1>2 DEF MembersStand, LeadsNowhereElse
  <2>2. ASSUME out.outcome = "unpacked" PROVE out.members \in Unpackable
    <3>1. out \in Range(Unpacked)
      BY DEF Unpacked, Range
    <3>. QED BY <2>2, <3>1 DEF Unpackable
  <2>3. ph = "unpacked" => out.outcome = "unpacked"
    OBVIOUS
  <2>. HIDE DEF ph
  <2>. QED BY <1>2, <1>3, <2>1, <2>2, <2>3 DEF MembersKnown, Root
<1>8. ArchiveStands'
  BY <1>3, <1>6 DEF ArchiveStands
<1>. QED BY <1>5, <1>7, <1>8 DEF IntakeStands

\* Nothing happens to the upload.
LEMMA IntakeKept ==
  ASSUME IntakeStands, UNCHANGED intake
  PROVE  IntakeStands'
<1>1. UploadStands'
  BY DEF IntakeStands, UploadStands, UploadBounded
<1>2. ArchiveStands'
  BY DEF IntakeStands, ArchiveStands, SafeUnpack
<1>3. MembersKnown'
  BY DEF IntakeStands, MembersKnown
<1>. QED BY <1>1, <1>2, <1>3 DEF IntakeStands

\* _ingest_zip, for the upload and its archive.
LEMMA IngestStep ==
  ASSUME IntakeStands, ingest_zip
  PROVE  IntakeStands'
<1>1. CASE UNCHANGED intake
  BY <1>1, IntakeKept
<1>2. CASE ~UNCHANGED intake
  <2>1. /\ intake.phase = "stored"
        /\ \E a \in Archives :
             intake' = [phase |-> IF /\ Unpacked[a].outcome = "unpacked"
                                     /\ \E k \in DOMAIN Unpacked[a].members :
                                          Unpacked[a].members[k].is = "invalid"
                                  THEN "rejected" ELSE Unpacked[a].outcome,
                        size |-> 0, total |-> Unpacked[a].read, archive |-> a,
                        members |-> Unpacked[a].members]
    BY <1>2 DEF ingest_zip
  <2>2. PICK a \in Archives :
             intake' = [phase |-> IF /\ Unpacked[a].outcome = "unpacked"
                                     /\ \E k \in DOMAIN Unpacked[a].members :
                                          Unpacked[a].members[k].is = "invalid"
                                  THEN "rejected" ELSE Unpacked[a].outcome,
                        size |-> 0, total |-> Unpacked[a].read, archive |-> a,
                        members |-> Unpacked[a].members]
    BY <2>1
  <2>. DEFINE out == Unpacked[a]
              refused == \E k \in DOMAIN out.members : out.members[k].is = "invalid"
  <2>3. out = safe_unpack(a) /\ refused \in BOOLEAN
    BY DEF Unpacked
  <2>4. intake' = [phase |-> IF out.outcome = "unpacked" /\ refused THEN "rejected"
                             ELSE out.outcome,
                   size |-> 0, total |-> out.read, archive |-> a, members |-> out.members]
    BY <2>2
  <2>5. refused <=> \E k \in DOMAIN out.members : out.members[k].is = "invalid"
    OBVIOUS
  <2>. HIDE DEF out, refused
  <2>. QED BY <2>1, <2>3, <2>4, <2>5, UnpackStored
<1>. QED BY <1>1, <1>2

\* Once it has been classified the entries are of no more use.
LEMMA ClassifyIntake ==
  ASSUME IntakeStands, intake.phase = "unpacked",
         intake' = [intake EXCEPT !.archive = << >>, !.total = 0]
  PROVE  IntakeStands'
<1>1. intake = [phase |-> intake.phase, size |-> intake.size, total |-> intake.total,
                archive |-> intake.archive, members |-> intake.members]
  BY DEF IntakeStands, UploadStands
<1>2. /\ intake'.phase = "unpacked" /\ intake'.archive = << >> /\ intake'.members = intake.members
      /\ intake' = [phase |-> intake'.phase, size |-> intake'.size, total |-> intake'.total,
                    archive |-> intake'.archive, members |-> intake'.members]
  BY <1>1
<1>3. UploadStands' /\ ArchiveStands'
  BY <1>2 DEF UploadStands, UploadBounded, ArchiveStands
<1>4. MembersKnown'
  BY <1>2 DEF IntakeStands, MembersKnown
<1>. QED BY <1>3, <1>4 DEF IntakeStands

\* No step breaks what is known of the upload and its archive.
LEMMA IntakeStep ==
  ASSUME IInv, [Next]_vars
  PROVE  IntakeStands'
<1>1. IntakeStands
  BY DEF IInv
<1>2. CASE read_upload_bounded
  BY <1>1, <1>2, ReadStep
<1>3. CASE ingest_zip
  BY <1>1, <1>3, IngestStep
<1>4. CASE classify_and_assign_package
  <2>1. intake.phase = "unpacked"
    BY <1>4 DEF IInv, AssignmentsStand, AttemptStands, classify_and_assign_package
  <2>. QED BY <1>1, <1>4, <2>1, ClassifyIntake DEF classify_and_assign_package
<1>5. CASE \/ AttemptBegin \/ AttemptLock \/ AttemptWrite \/ AttemptCommit \/ AttemptRollback
  <2>1. UNCHANGED intake
    BY <1>5 DEF AttemptBegin, AttemptLock, AttemptWrite, AttemptCommit, AttemptRollback
  <2>. QED BY <1>1, <2>1, IntakeKept
<1>6. CASE \E r \in Reviewers : OverrideRead(r) \/ Finish(r) \/ OverrideRollback(r)
  <2>1. UNCHANGED intake
    BY <1>6 DEF OverrideRead, Finish, OverrideMark, OverrideInsert, OverrideCommit, OverrideRollback
  <2>. QED BY <1>1, <2>1, IntakeKept
<1>7. CASE UNCHANGED vars
  BY <1>1, <1>7, IntakeKept DEF vars
<1>. QED BY <1>2, <1>3, <1>4, <1>5, <1>6, <1>7 DEF Next, Attempt

----------------------------------------------------------------------------
(* What a step leaves alone. *)

\* The rows, when none is written.
LEMMA RowsFrame ==
  ASSUME RowsStand, UNCHANGED rows, clock' \in {clock, clock + 1}
  PROVE  RowsStand'
<1>1. clock \in Nat /\ clock' \in Nat /\ clock <= clock'
  BY DEF RowsStand
<1>2. List(rows)'
  BY DEF RowsStand, List
<1>3. \A k \in DOMAIN rows : IsRow(rows[k])'
  BY DEF RowsStand, IsRow
<1>4. \A k \in DOMAIN rows : rows[k].at \in 1..clock'
  BY <1>1 DEF RowsStand
<1>. QED BY <1>1, <1>2, <1>3, <1>4 DEF RowsStand

\* One row in force per path, when none is written.
LEMMA OneFrame ==
  ASSUME OnePerPath, UNCHANGED <<rows, forked>>
  PROVE  OnePerPath'
BY DEF OnePerPath, Current

\* The attempt's writes, when nothing is written.
LEMMA WritesFrame ==
  ASSUME WritesStand, UNCHANGED <<rows, attempt>>
  PROVE  WritesStand'
BY DEF WritesStand, Writable, Overridden

\* A correction, when it takes no step and none is committed.
LEMMA ReviewFrame ==
  ASSUME RowsStand, NEW r \in Reviewers, ReviewStands(r),
         UNCHANGED rows, review'[r] = review[r], clock' \in {clock, clock + 1}
  PROVE  ReviewStands(r)'
<1>1. clock \in Nat /\ clock' \in Nat /\ clock <= clock'
  BY DEF RowsStand
<1>2. Busy(r)' <=> Busy(r)
  BY DEF Busy
<1>3. Busy(r) => review[r].copy.at \in 1..clock'
  BY <1>1 DEF ReviewStands
<1>4. Busy(r) => IsRow(review[r].copy)'
  BY DEF ReviewStands, IsRow
<1>. QED BY <1>2, <1>3, <1>4 DEF ReviewStands

\* The other reviewers, when one takes a step that commits nothing.
LEMMA ReviewsFrame ==
  ASSUME RowsStand, ReviewsStand, UNCHANGED rows, clock' \in {clock, clock + 1},
         NEW r \in Reviewers, NEW new, review' = [review EXCEPT ![r] = new],
         ReviewStands(r)',
         new.phase # "none" =>
           \A q \in Reviewers \ {r} : Busy(q) => review[q].copy.at # new.copy.at
  PROVE  ReviewsStand'
<1>1. review = [q \in Reviewers |-> review[q]]
  BY DEF ReviewsStand
<1>2. /\ review'[r] = new /\ \A q \in Reviewers \ {r} : review'[q] = review[q]
      /\ review' = [q \in Reviewers |-> review'[q]]
  BY <1>1
<1>3. ASSUME NEW q \in Reviewers PROVE ReviewStands(q)'
  <2>1. CASE q = r
    BY <2>1
  <2>2. CASE q # r
    BY <1>2, <2>2, ReviewFrame DEF ReviewsStand
  <2>. QED BY <2>1, <2>2
<1>4. ASSUME NEW p \in Reviewers, NEW q \in Reviewers,
             Busy(p)', Busy(q)', review'[p].copy.at = review'[q].copy.at
      PROVE  p = q
  <2>1. CASE p # r /\ q # r
    BY <1>2, <1>4, <2>1 DEF ReviewsStand, Busy
  <2>2. CASE p = r /\ q # r
    BY <1>2, <1>4, <2>2 DEF Busy
  <2>3. CASE q = r /\ p # r
    BY <1>2, <1>4, <2>3 DEF Busy
  <2>. QED BY <2>1, <2>2, <2>3
<1>5. \A q \in Reviewers : ReviewStands(q)'
  BY <1>3
<1>6. \A p, q \in Reviewers :
        Busy(p)' /\ Busy(q)' /\ review'[p].copy.at = review'[q].copy.at => p = q
  BY <1>4
<1>. QED BY <1>2, <1>5, <1>6 DEF ReviewsStand

\* All corrections, when none takes a step and none is committed.
LEMMA ReviewsKept ==
  ASSUME RowsStand, ReviewsStand, UNCHANGED <<rows, review>>, clock' \in {clock, clock + 1}
  PROVE  ReviewsStand'
<1>1. \A q \in Reviewers : ReviewStands(q)'
  BY ReviewFrame DEF ReviewsStand
<1>. QED BY <1>1 DEF ReviewsStand, Busy

\* The attempt, when a reviewer or the upload takes a step that commits nothing.
LEMMA AttemptFrame ==
  ASSUME RowsStand, AttemptStands, UNCHANGED <<rows, attempt>>, clock' \in {clock, clock + 1},
         \A r \in Reviewers : Busy(r)' =>
           \/ Busy(r) /\ review'[r].copy = review[r].copy
           \/ review'[r].copy.at = clock + 1,
         DocumentHeld => Inserted' = {},
         intake.phase = "unpacked" => intake'.phase = "unpacked"
  PROVE  AttemptStands'
<1>1. clock \in Nat /\ clock' \in Nat /\ clock <= clock'
  BY DEF RowsStand
<1>2. ASSUME attempt.phase # "none"
      PROVE  /\ attempt.at \in 1..clock'
             /\ \A k \in DOMAIN rows : rows[k].at # attempt.at
             /\ \A r \in Reviewers : Busy(r)' => review'[r].copy.at # attempt.at
  <2>1. attempt.at \in 1..clock
    BY <1>2 DEF AttemptStands
  <2>2. attempt.at # clock + 1 /\ attempt.at \in 1..clock'
    BY <1>1, <2>1
  <2>. QED BY <1>2, <2>2 DEF AttemptStands
<1>3. DocumentHeld' => Inserted' = {}
  BY DEF DocumentHeld
<1>. QED BY <1>2, <1>3 DEF AttemptStands

----------------------------------------------------------------------------
(* The steps that commit nothing. *)

\* A read of the upload.
LEMMA UploadKeepsAssignments ==
  ASSUME AssignmentsStand, read_upload_bounded
  PROVE  AssignmentsStand'
<1>1. /\ UNCHANGED <<rows, clock, attempt, review, name, forked>> /\ intake.phase = "reading"
  BY DEF read_upload_bounded
<1>2. RowsStand /\ ReviewsStand /\ AttemptStands /\ WritesStand /\ OnePerPath
  BY DEF AssignmentsStand
<1>3. RowsStand' /\ ReviewsStand' /\ WritesStand' /\ OnePerPath'
  BY <1>1, <1>2, RowsFrame, ReviewsKept, WritesFrame, OneFrame
<1>4. DocumentHeld => Inserted' = {}
  BY <1>1, <1>2 DEF AttemptStands, Inserted
<1>5. AttemptStands'
  BY <1>1, <1>2, <1>4, AttemptFrame DEF Busy
<1>. QED BY <1>3, <1>5 DEF AssignmentsStand

\* The attempt, when it takes a step that commits nothing.
LEMMA AttemptKeepsOthers ==
  ASSUME AssignmentsStand, UNCHANGED <<rows, review, forked>>, clock' \in {clock, clock + 1},
         AttemptStands', WritesStand'
  PROVE  AssignmentsStand'
<1>1. RowsStand /\ ReviewsStand /\ OnePerPath
  BY DEF AssignmentsStand
<1>2. RowsStand' /\ ReviewsStand' /\ OnePerPath'
  BY <1>1, RowsFrame, ReviewsKept, OneFrame
<1>. QED BY <1>2 DEF AssignmentsStand

\* AttemptBegin: the attempt's start is later than all there is.
LEMMA BeginStep ==
  ASSUME AssignmentsStand, AttemptBegin
  PROVE  AssignmentsStand'
<1>1. /\ clock' = clock + 1 /\ UNCHANGED <<intake, rows, review, name, forked>>
      /\ attempt' = [NoAttempt EXCEPT !.phase = "waiting", !.at = clock + 1]
  BY DEF AttemptBegin
<1>2. RowsStand /\ ReviewsStand
  BY DEF AssignmentsStand
<1>3. clock \in Nat
  BY <1>2 DEF RowsStand
<1>. DEFINE n == clock + 1
<1>4. n \in Nat /\ n > clock /\ n \in 1..n
  BY <1>3
<1>5. \A k \in DOMAIN rows : rows[k].at # n
  BY <1>2, <1>3, <1>4 DEF RowsStand
<1>6. \A r \in Reviewers : Busy(r) => review[r].copy.at # n
  <2>1. \A r \in Reviewers : Busy(r) => review[r].copy.at \in 1..clock
    BY <1>2 DEF ReviewsStand, ReviewStands
  <2>. QED BY <1>3, <1>4, <2>1
<1>. HIDE DEF n
<1>7. /\ attempt'.phase = "waiting" /\ attempt'.at = n /\ clock' = n
      /\ attempt'.adds = << >> /\ attempt'.marked = {}
      /\ attempt' = [phase |-> attempt'.phase, at |-> attempt'.at, seen |-> attempt'.seen,
                     todo |-> attempt'.todo, adds |-> attempt'.adds, marked |-> attempt'.marked,
                     name |-> attempt'.name]
  BY <1>1 DEF NoAttempt, n
<1>8. AttemptStands'
  BY <1>1, <1>4, <1>5, <1>6, <1>7 DEF AttemptStands, DocumentHeld, Busy
<1>9. WritesStand'
  BY <1>7 DEF WritesStand
<1>. QED BY <1>1, <1>8, <1>9, AttemptKeepsOthers

\* What AttemptStands says of an attempt that has begun.
Begun ==
  /\ attempt.at \in 1..clock
  /\ \A k \in DOMAIN rows : rows[k].at # attempt.at
  /\ \A r \in Reviewers : Busy(r) => review[r].copy.at # attempt.at

\* AttemptStands, of an attempt that has begun.
LEMMA HasBegun ==
  ASSUME AttemptStands, attempt.phase # "none"
  PROVE  Begun
BY DEF AttemptStands, Begun

\* AttemptLock: nobody has inserted anything when the document is locked.
LEMMA LockStep ==
  ASSUME AssignmentsStand, AttemptLock
  PROVE  AssignmentsStand'
<1>1. /\ attempt.phase = "waiting" /\ Inserted = {}
      /\ attempt' = [attempt EXCEPT !.phase = "locked"]
      /\ UNCHANGED <<intake, rows, clock, review, name, forked>>
  BY DEF AttemptLock
<1>2. AttemptStands /\ Begun
  BY <1>1, HasBegun DEF AssignmentsStand
<1>3. /\ attempt'.phase = "locked" /\ attempt'.at = attempt.at
      /\ attempt'.adds = attempt.adds /\ attempt'.marked = attempt.marked
      /\ attempt' = [phase |-> attempt'.phase, at |-> attempt'.at, seen |-> attempt'.seen,
                     todo |-> attempt'.todo, adds |-> attempt'.adds, marked |-> attempt'.marked,
                     name |-> attempt'.name]
  BY <1>1, <1>2 DEF AttemptStands
<1>4. Inserted' = {}
  BY <1>1 DEF Inserted
<1>5. AttemptStands'
  BY <1>1, <1>2, <1>3, <1>4 DEF AttemptStands, Begun, Busy
<1>6. WritesStand'
  BY <1>3 DEF WritesStand
<1>. QED BY <1>1, <1>5, <1>6, AttemptKeepsOthers

\* Without an attempt there is nothing to be known of one.
LEMMA NoAttemptStands ==
  ASSUME attempt' = NoAttempt
  PROVE  AttemptStands' /\ WritesStand'
<1>1. /\ attempt'.phase = "none" /\ attempt'.adds = << >> /\ attempt'.marked = {}
      /\ attempt' = [phase |-> attempt'.phase, at |-> attempt'.at, seen |-> attempt'.seen,
                     todo |-> attempt'.todo, adds |-> attempt'.adds, marked |-> attempt'.marked,
                     name |-> attempt'.name]
  BY DEF NoAttempt
<1>. QED BY <1>1 DEF AttemptStands, WritesStand, DocumentHeld

\* AttemptRollback leaves nothing behind.
LEMMA RollbackStep ==
  ASSUME AssignmentsStand, AttemptRollback
  PROVE  AssignmentsStand'
BY NoAttemptStands, AttemptKeepsOthers DEF AttemptRollback

\* _ingest_zip, for the assignments.
LEMMA IngestAssignments ==
  ASSUME AssignmentsStand, ingest_zip
  PROVE  AssignmentsStand'
<1>1. /\ attempt.phase = "locked" /\ UNCHANGED <<rows, clock, review, name, forked>>
  BY DEF ingest_zip
<1>2. AttemptStands /\ Begun
  BY <1>1, HasBegun DEF AssignmentsStand
<1>3. CASE attempt' = NoAttempt
  BY <1>1, <1>3, NoAttemptStands, AttemptKeepsOthers
<1>4. CASE attempt' = [attempt EXCEPT !.phase = "unpacked"] /\ intake'.phase = "unpacked"
  <2>1. /\ attempt'.phase = "unpacked" /\ attempt'.at = attempt.at
        /\ attempt'.adds = attempt.adds /\ attempt'.marked = attempt.marked
        /\ attempt' = [phase |-> attempt'.phase, at |-> attempt'.at, seen |-> attempt'.seen,
                       todo |-> attempt'.todo, adds |-> attempt'.adds, marked |-> attempt'.marked,
                       name |-> attempt'.name]
    BY <1>4, <1>2 DEF AttemptStands
  <2>2. Inserted' = {}
    BY <1>1, <1>2 DEF Inserted, AttemptStands, DocumentHeld
  <2>3. AttemptStands'
    BY <1>1, <1>2, <1>4, <2>1, <2>2 DEF AttemptStands, Begun, Busy
  <2>4. WritesStand'
    BY <2>1 DEF WritesStand
  <2>. QED BY <1>1, <2>3, <2>4, AttemptKeepsOthers
<1>5. attempt' = NoAttempt \/ (attempt' = [attempt EXCEPT !.phase = "unpacked"] /\ intake'.phase = "unpacked")
  <2>1. CASE intake.phase = "unpacked"
    BY <2>1 DEF ingest_zip
  <2>2. CASE intake.phase = "stored"
    <3>1. attempt' = IF intake'.phase = "unpacked"
                     THEN [attempt EXCEPT !.phase = "unpacked"] ELSE NoAttempt
      BY <2>2 DEF ingest_zip
    <3>. QED BY <3>1
  <2>. QED BY <2>1, <2>2 DEF ingest_zip
<1>. QED BY <1>3, <1>4, <1>5

----------------------------------------------------------------------------
(* Classification and the writes that follow from it. *)

Standing(d) == d.state \in {"needs_review", "proposed"}

\* apply_package_identity changes no decision's state and loses none.
LEMMA IdentityKeepsStates ==
  ASSUME NEW n \in Nat, NEW ds, ds = [k \in 1..n |-> ds[k]],
         \A k \in 1..n : Standing(ds[k]) /\ DOMAIN ds[k] = {"class", "machine", "assembly", "confidence", "state"}
  PROVE  LET out == apply_package_identity(ds)
         IN  DOMAIN out = 1..n /\ \A k \in 1..n : Standing(out[k])
<1>. DEFINE codes == {ds[k].machine : k \in {j \in DOMAIN ds : AssignToMachine(ds[j])}} \ {Null}
            shared == CHOOSE c \in codes : TRUE
            new(d) == [d EXCEPT !.machine = shared, !.confidence = IF @ < 88 THEN @ ELSE 88]
            out == apply_package_identity(ds)
<1>1. out = IF Cardinality(codes) # 1 THEN ds
            ELSE [k \in DOMAIN ds |->
                   IF AssignToMachine(ds[k]) /\ ds[k].machine # shared THEN new(ds[k]) ELSE ds[k]]
  BY DEF apply_package_identity
<1>2. DOMAIN ds = 1..n
  OBVIOUS
<1>3. ASSUME NEW d, DOMAIN d = {"class", "machine", "assembly", "confidence", "state"}
      PROVE  new(d).state = d.state
  BY <1>3
<1>. HIDE DEF codes, shared, new, out
<1>4. CASE Cardinality(codes) # 1
  BY <1>1, <1>2, <1>4 DEF out
<1>5. CASE Cardinality(codes) = 1
  <2>1. /\ DOMAIN out = 1..n
        /\ \A k \in 1..n : out[k] = new(ds[k]) \/ out[k] = ds[k]
    BY <1>1, <1>2, <1>5
  <2>2. \A k \in 1..n : Standing(out[k])
    BY <1>3, <2>1 DEF Standing
  <2>. QED BY <2>1, <2>2 DEF out
<1>. QED BY <1>4, <1>5

\* There is a decision for the archive and for each member, in a state that stands.
LEMMA DecisionsShape ==
  ASSUME NEW seen \in Readings, NEW members \in Unpackable, members \in MemberList
  PROVE  LET ds == Decided[seen][members]
         IN  DOMAIN ds = 1..(Len(members) + 1) /\ \A k \in DOMAIN ds : Standing(ds[k])
<1>. DEFINE n == Len(members) + 1
            items == Inputs(seen, members)
            raw == [k \in 1..n |-> classify(items[k])]
<1>1. n \in Nat
  BY DEF MemberList
<1>2. Decided[seen][members] = apply_package_identity(raw)
  BY DEF Decided
<1>3. ASSUME NEW item
      PROVE  /\ Standing(classify(item))
             /\ DOMAIN classify(item) = {"class", "machine", "assembly", "confidence", "state"}
  BY DEF classify, Standing
<1>. HIDE DEF n, items
<1>4. /\ raw = [k \in 1..n |-> raw[k]]
      /\ \A k \in 1..n : /\ Standing(raw[k])
                         /\ DOMAIN raw[k] = {"class", "machine", "assembly", "confidence", "state"}
  BY <1>3
<1>. HIDE DEF raw
<1>. QED BY <1>1, <1>2, <1>4, IdentityKeepsStates DEF n

\* The archive and its members have different paths.
LEMMA MemberPathsShape ==
  ASSUME MembersKnown, intake.phase = "unpacked"
  PROVE  /\ List(MemberPaths) /\ Len(MemberPaths) = Len(intake.members) + 1
         /\ \A j, k \in DOMAIN MemberPaths : MemberPaths[j] = MemberPaths[k] => j = k
<1>. DEFINE ms == intake.members
            n == Len(ms)
            ps == [k \in DOMAIN ms |-> ms[k].path]
<1>1. /\ ms \in MemberList
      /\ \A k \in DOMAIN ms : ms[k].path # Root
      /\ \A j, k \in DOMAIN ms : ms[j].path = ms[k].path => j = k
  BY DEF MembersKnown
<1>. HIDE DEF ms
<1>2. n \in Nat /\ DOMAIN ms = 1..n
  BY <1>1 DEF MemberList
<1>3. ps = [k \in 1..n |-> ps[k]]
  BY <1>2
<1>4. List(ps) /\ Len(ps) = n /\ DOMAIN ps = 1..n
  <2>. HIDE DEF ps, n
  <2>. QED BY <1>2, <1>3, ListOf
<1>5. List(<<Root>>) /\ Len(<<Root>>) = 1 /\ <<Root>>[1] = Root
  <2>1. <<Root>> \in Seq(Range(<<Root>>))
    BY DEF Range
  <2>. QED BY <2>1 DEF List
<1>6. \A k \in 1..n : ps[k] = ms[k].path
  BY <1>2
<1>7. MemberPaths = <<Root>> \o ps
  BY DEF MemberPaths, ms
<1>. HIDE DEF ps, n
<1>8. /\ List(MemberPaths) /\ Len(MemberPaths) = 1 + n
      /\ MemberPaths[1] = Root
      /\ \A k \in 1..n : MemberPaths[1 + k] = ps[k]
  <2>1. /\ List(<<Root>> \o ps) /\ Len(<<Root>> \o ps) = Len(<<Root>>) + Len(ps)
        /\ \A k \in 1..Len(<<Root>>) : (<<Root>> \o ps)[k] = <<Root>>[k]
        /\ \A k \in 1..Len(ps) : (<<Root>> \o ps)[Len(<<Root>>) + k] = ps[k]
    BY <1>4, <1>5, ListConcat
  <2>. QED BY <1>4, <1>5, <1>7, <2>1
<1>9. DOMAIN MemberPaths = 1..(n + 1)
  <2>1. DOMAIN MemberPaths = 1..Len(MemberPaths)
    BY <1>8, ListShape
  <2>. QED BY <1>2, <1>8, <2>1
<1>10. \A k \in 2..(n + 1) : k - 1 \in 1..n /\ MemberPaths[k] = ms[k-1].path
  <2>1. ASSUME NEW k \in 2..(n + 1) PROVE k - 1 \in 1..n /\ 1 + (k - 1) = k
    BY <1>2
  <2>. QED BY <1>6, <1>8, <2>1
<1>11. ASSUME NEW j \in DOMAIN MemberPaths, NEW k \in DOMAIN MemberPaths,
              MemberPaths[j] = MemberPaths[k]
       PROVE  j = k
  <2>1. \A i \in 1..(n + 1) : i = 1 \/ i \in 2..(n + 1)
    BY <1>2
  <2>2. \A i \in 2..(n + 1) : MemberPaths[i] # Root
    BY <1>1, <1>2, <1>10
  <2>3. CASE j = 1 \/ k = 1
    BY <1>8, <1>9, <1>11, <2>1, <2>2, <2>3
  <2>4. CASE j # 1 /\ k # 1
    <3>1. j \in 2..(n + 1) /\ k \in 2..(n + 1)
      BY <1>9, <2>1, <2>4
    <3>2. ms[j-1].path = ms[k-1].path /\ j - 1 \in 1..n /\ k - 1 \in 1..n
      BY <1>10, <1>11, <3>1
    <3>3. j - 1 = k - 1
      BY <1>1, <1>2, <3>2
    <3>. QED BY <3>1, <3>3
  <2>. QED BY <2>3, <2>4
<1>12. Len(MemberPaths) = Len(intake.members) + 1
  BY <1>2, <1>8 DEF n, ms
<1>. QED BY <1>8, <1>11, <1>12

\* The archive's own path comes first, then those of its members.
LEMMA MemberPathsAre ==
  ASSUME MembersKnown, intake.phase = "unpacked"
  PROVE  /\ DOMAIN MemberPaths = 1..(Len(intake.members) + 1)
         /\ MemberPaths[1] = Root
         /\ \A k \in 1..Len(intake.members) : MemberPaths[k + 1] = intake.members[k].path
<1>1. PICK ms : ms = intake.members /\ ms \in MemberList
  BY DEF MembersKnown
<1>2. PICK n : n = Len(ms) /\ n \in Nat /\ DOMAIN ms = 1..n
  BY <1>1 DEF MemberList
<1>3. PICK ps : ps = [k \in 1..n |-> ms[k].path]
  OBVIOUS
<1>4. MemberPaths = <<Root>> \o ps
  BY <1>1, <1>2, <1>3 DEF MemberPaths
<1>5. List(ps) /\ Len(ps) = n
  <2>1. ps = [k \in 1..n |-> ps[k]]
    BY <1>3
  <2>. QED BY <1>2, <2>1, ListOf
<1>6. List(<<Root>>) /\ Len(<<Root>>) = 1 /\ <<Root>>[1] = Root
  <2>1. <<Root>> \in Seq(Range(<<Root>>))
    BY DEF Range
  <2>. QED BY <2>1 DEF List
<1>7. /\ List(<<Root>> \o ps) /\ Len(<<Root>> \o ps) = 1 + n
      /\ (<<Root>> \o ps)[1] = Root
      /\ \A k \in 1..n : (<<Root>> \o ps)[1 + k] = ps[k]
  <2>1. /\ List(<<Root>> \o ps) /\ Len(<<Root>> \o ps) = Len(<<Root>>) + Len(ps)
        /\ \A k \in 1..Len(<<Root>>) : (<<Root>> \o ps)[k] = <<Root>>[k]
        /\ \A k \in 1..Len(ps) : (<<Root>> \o ps)[Len(<<Root>>) + k] = ps[k]
    BY <1>5, <1>6, ListConcat
  <2>. QED BY <1>5, <1>6, <2>1
<1>8. DOMAIN MemberPaths = 1..(n + 1) /\ 1 + n = n + 1 /\ \A k \in 1..n : 1 + k = k + 1
  <2>1. DOMAIN MemberPaths = 1..Len(MemberPaths)
    BY <1>4, <1>7, ListShape
  <2>. QED BY <1>2, <1>4, <1>7, <2>1
<1>. QED BY <1>1, <1>2, <1>3, <1>4, <1>7, <1>8

\* What a change may be, of the rows as they are.
WritableAt(row, p, now) ==
  /\ IsRow(row) /\ row.path = p /\ row.at = now /\ row.method = Classifier
  /\ row.state # "superseded" /\ ~Overridden(p)

\* A change replaces exactly the row in force, and never a person's.
LEMMA ChangeShape ==
  ASSUME RowsStand, NEW p, NEW d, Standing(d), NEW now
  PROVE  LET c == Change(p, d, now)
         IN  c # Null => /\ WritableAt(c.row, p, now)
                         /\ c.supersede = {current_for_path(rows, p)} \ {0}
<1>. DEFINE k == current_for_path(rows, p)
            a == Assigned(d)
            row == [path |-> p, class |-> a.class, machine |-> a.machine, assembly |-> a.assembly,
                    state |-> d.state, method |-> Classifier, at |-> now]
            c == Change(p, d, now)
<1>1. SUFFICES ASSUME c # Null
               PROVE  WritableAt(c.row, p, now) /\ c.supersede = {k} \ {0}
  OBVIOUS
<1>2. /\ ~(k # 0 /\ Overridden(p))
      /\ c = [supersede |-> IF k # 0 /\ (IF k = 0 THEN Null ELSE rows[k]).method = Classifier
                            THEN {k} ELSE {}, row |-> row]
  <2>. HIDE DEF row
  <2>. QED BY <1>1 DEF Change, row
<1>3. ~Overridden(p)
  BY <1>2 DEF Overridden
<1>4. k # 0 => rows[k].method = Classifier
  <2>1. k # 0 => k \in Current(rows, p)
    BY RowsAreATable, CurrentForPath
  <2>2. k # 0 => k \in DOMAIN rows
    BY <2>1 DEF Current
  <2>. HIDE DEF k
  <2>3. k # 0 => rows[k].method \in {Classifier, Override}
    BY <2>2 DEF RowsStand
  <2>. QED BY <1>3, <2>3 DEF Overridden, k
<1>5. c.supersede = {k} \ {0}
  <2>. HIDE DEF k, row, c
  <2>1. CASE k = 0
    BY <1>2, <2>1
  <2>2. CASE k # 0
    BY <1>2, <1>4, <2>2
  <2>. QED BY <2>1, <2>2
<1>6. c.row = row
  <2>. HIDE DEF c, row
  <2>. QED BY <1>2
<1>7. row.state # "superseded"
  BY DEF Standing
<1>8. WritableAt(row, p, now)
  <2>1. /\ IsRow(row) /\ row.path = p /\ row.at = now /\ row.method = Classifier
    BY DEF IsRow
  <2>. HIDE DEF row
  <2>. QED BY <1>3, <1>7, <2>1 DEF WritableAt
<1>. HIDE DEF c, row, k
<1>. QED BY <1>5, <1>6, <1>8

\* classify_and_assign_package plans one change per path, of the rows as they are.
LEMMA ClassifyStep ==
  ASSUME IntakeStands, AssignmentsStand, classify_and_assign_package
  PROVE  AssignmentsStand'
<1>1. /\ attempt.phase = "unpacked" /\ UNCHANGED <<rows, clock, review, name, forked>>
      /\ intake' = [intake EXCEPT !.archive = << >>, !.total = 0]
  BY DEF classify_and_assign_package
<1>2. RowsStand /\ AttemptStands /\ Begun /\ intake.phase = "unpacked"
  BY <1>1, HasBegun DEF AssignmentsStand, AttemptStands
<1>3. MembersKnown /\ intake.members \in MemberList /\ intake.members \in Unpackable
  BY <1>2 DEF IntakeStands, MembersKnown
<1>. DEFINE n == Len(intake.members) + 1
            todo(ds) == [k \in DOMAIN ds |-> Change(MemberPaths[k], ds[k], attempt.at)]
<1>4. PICK seen \in Readings :
        \E other : attempt' = [attempt EXCEPT !.phase = "writing", !.seen = seen, !.name = other,
                                              !.todo = todo(Decided[seen][intake.members])]
  <2>. HIDE DEF todo
  <2>. QED BY DEF classify_and_assign_package, todo
<1>. DEFINE ds == Decided[seen][intake.members]
<1>16. PICK ts : ts = todo(ds)
  OBVIOUS
<1>5. DOMAIN ds = 1..n /\ \A k \in 1..n : Standing(ds[k])
  BY <1>3, DecisionsShape
<1>6. n \in Nat
  BY <1>3 DEF MemberList
<1>7. ts = [k \in 1..n |-> ts[k]] /\ \A k \in 1..n : ts[k] = Change(MemberPaths[k], ds[k], attempt.at)
  <2>. HIDE DEF ds, n
  <2>. QED BY <1>5, <1>16
<1>. HIDE DEF ds, n, todo
<1>8. List(ts) /\ DOMAIN ts = 1..n
  BY <1>6, <1>7, ListOf
<1>9. /\ attempt'.phase = "writing" /\ attempt'.todo = ts /\ attempt'.at = attempt.at
      /\ attempt'.adds = << >> /\ attempt'.marked = {}
      /\ attempt' = [phase |-> attempt'.phase, at |-> attempt'.at, seen |-> attempt'.seen,
                     todo |-> attempt'.todo, adds |-> attempt'.adds, marked |-> attempt'.marked,
                     name |-> attempt'.name]
  BY <1>1, <1>2, <1>4, <1>16 DEF AttemptStands, ds
<1>10. \A k \in 1..n : ts[k] # Null =>
         /\ WritableAt(ts[k].row, MemberPaths[k], attempt.at)
         /\ ts[k].supersede = {current_for_path(rows, MemberPaths[k])} \ {0}
  <2>1. ASSUME NEW k \in 1..n, ts[k] # Null
        PROVE  /\ WritableAt(ts[k].row, MemberPaths[k], attempt.at)
               /\ ts[k].supersede = {current_for_path(rows, MemberPaths[k])} \ {0}
    <3>1. RowsStand /\ Standing(ds[k]) /\ ts[k] = Change(MemberPaths[k], ds[k], attempt.at)
      BY <1>2, <1>5, <1>7
    <3>. DEFINE d == ds[k]
                p == MemberPaths[k]
                now == attempt.at
                c == ts[k]
    <3>2. Standing(d) /\ c = Change(p, d, now) /\ c # Null
      BY <2>1, <3>1
    <3>. HIDE DEF d, p, now, c
    <3>3. WritableAt(c.row, p, now) /\ c.supersede = {current_for_path(rows, p)} \ {0}
      BY <3>1, <3>2, ChangeShape
    <3>. QED BY <3>3 DEF d, p, now, c
  <2>. QED BY <2>1
<1>11. \A j, k \in 1..n : MemberPaths[j] = MemberPaths[k] => j = k
  <2>1. /\ List(MemberPaths) /\ Len(MemberPaths) = n
        /\ \A j, k \in DOMAIN MemberPaths : MemberPaths[j] = MemberPaths[k] => j = k
    BY <1>2, <1>3, MemberPathsShape DEF n
  <2>2. DOMAIN MemberPaths = 1..n
    BY <2>1, ListShape
  <2>. QED BY <2>1, <2>2
<1>12. Inserted' = {}
  BY <1>1, <1>2 DEF Inserted, AttemptStands, DocumentHeld
<1>13. AttemptStands'
  <2>1. intake'.phase = "unpacked"
    BY <1>1, <1>2 DEF IntakeStands, UploadStands
  <2>. QED BY <1>1, <1>2, <1>9, <1>12, <2>1 DEF AttemptStands, Begun, Busy
<1>14. \A i \in 1..n : ts[i] # Null =>
         /\ Writable(ts[i].row)'
         /\ ts[i].supersede = {current_for_path(rows', ts[i].row.path)} \ {0}
  <2>1. ASSUME NEW i \in 1..n, ts[i] # Null
        PROVE  /\ Writable(ts[i].row)'
               /\ ts[i].supersede = {current_for_path(rows', ts[i].row.path)} \ {0}
    <3>0. PICK x : x = ts[i].row
      OBVIOUS
    <3>1. /\ WritableAt(x, MemberPaths[i], attempt.at)
          /\ ts[i].supersede = {current_for_path(rows, MemberPaths[i])} \ {0}
      BY <1>10, <2>1, <3>0
    <3>2. IsRow(x) /\ x.path = MemberPaths[i] /\ x.at = attempt.at /\ x.method = Classifier
          /\ x.state # "superseded" /\ ~Overridden(x.path)
      BY <3>1 DEF WritableAt
    <3>3. rows' = rows /\ attempt'.at = attempt.at
      BY <1>1, <1>9
    <3>4. ~Overridden(x.path)'
      BY <3>2, <3>3 DEF Overridden
    <3>5. IsRow(x)'
      BY <3>2 DEF IsRow
    <3>6. Writable(x)'
      BY <3>2, <3>3, <3>4, <3>5 DEF Writable
    <3>. QED BY <3>0, <3>1, <3>2, <3>3, <3>6
  <2>. QED BY <2>1
<1>15. WritesStand'
  <2>1. List(attempt.todo)' /\ List(attempt.adds)'
    BY <1>8, <1>9, EmptyList DEF List
  <2>2. DOMAIN attempt'.adds = {} /\ DOMAIN attempt'.todo = 1..n
    BY <1>8, <1>9, EmptyList
  <2>3. \A i, j \in 1..n :
          ts[i] # Null /\ ts[j] # Null /\ ts[i].row.path = ts[j].row.path => i = j
    BY <1>10, <1>11 DEF WritableAt
  <2>. QED BY <1>9, <1>14, <2>1, <2>2, <2>3 DEF WritesStand
<1>. QED BY <1>1, <1>13, <1>15, AttemptKeepsOthers

----------------------------------------------------------------------------
(* The attempt's writes. *)

\* WritesStand, of given lists.
WritesAre(todo, adds, marked) ==
  /\ List(todo) /\ List(adds)
  /\ \A i \in 1..Len(todo) : todo[i] # Null =>
       /\ Writable(todo[i].row)
       /\ todo[i].supersede = {current_for_path(rows, todo[i].row.path)} \ {0}
  /\ \A i \in 1..Len(adds) :
       /\ Writable(adds[i])
       /\ {current_for_path(rows, adds[i].path)} \ {0} \subseteq marked
  /\ \A k \in marked :
       k # 0 /\ \E i \in 1..Len(adds) : k = current_for_path(rows, adds[i].path)
  /\ \A i, j \in 1..Len(todo) :
       todo[i] # Null /\ todo[j] # Null /\ todo[i].row.path = todo[j].row.path => i = j
  /\ \A i, j \in 1..Len(adds) : adds[i].path = adds[j].path => i = j
  /\ \A i \in 1..Len(todo), j \in 1..Len(adds) :
       todo[i] # Null => todo[i].row.path # adds[j].path

\* What WritesStand says, of the attempt's own lists.
LEMMA HasWritten ==
  ASSUME WritesStand, attempt.phase = "writing"
  PROVE  WritesAre(attempt.todo, attempt.adds, attempt.marked)
<1>1. List(attempt.todo) /\ List(attempt.adds)
  BY DEF WritesStand
<1>2. DOMAIN attempt.todo = 1..Len(attempt.todo) /\ DOMAIN attempt.adds = 1..Len(attempt.adds)
  BY <1>1, ListShape
<1>. QED BY <1>1, <1>2 DEF WritesStand, WritesAre

\* The same lists in the next state, where the rows are the same.
LEMMA WritesCarryOver ==
  ASSUME NEW CONSTANT t, NEW CONSTANT a, NEW CONSTANT m, WritesAre(t, a, m),
         attempt'.todo = t, attempt'.adds = a, attempt'.marked = m,
         attempt'.at = attempt.at, UNCHANGED rows
  PROVE  WritesStand'
<1>1. List(t) /\ List(a)
  BY DEF WritesAre
<1>2. DOMAIN t = 1..Len(t) /\ DOMAIN a = 1..Len(a)
  BY <1>1, ListShape
<1>3. ASSUME NEW CONSTANT row, Writable(row) PROVE Writable(row)'
  BY <1>3 DEF Writable, Overridden, IsRow
<1>4. \A i \in DOMAIN t : t[i] # Null => Writable(t[i].row)'
  BY <1>2, <1>3 DEF WritesAre
<1>5. \A i \in DOMAIN a : Writable(a[i])'
  BY <1>2, <1>3 DEF WritesAre
<1>6. List(t)' /\ List(a)'
  BY <1>1 DEF List
<1>. QED BY <1>1, <1>2, <1>4, <1>5, <1>6 DEF WritesStand, WritesAre

\* Passing over a path for which there is nothing to write.
LEMMA NothingWritten ==
  ASSUME NEW t, NEW a, NEW m, WritesAre(t, a, m), t # << >>
  PROVE  WritesAre(Tail(t), a, m)
<1>1. List(t) /\ List(a)
  BY DEF WritesAre
<1>2. PICK u : u = Tail(t)
  OBVIOUS
<1>3. /\ List(u) /\ Len(t) \in Nat /\ Len(t) > 0 /\ Len(u) = Len(t) - 1
      /\ \A k \in 1..(Len(t) - 1) : u[k] = t[k+1]
  BY <1>1, <1>2, ListTail, ListShape
<1>4. \A k \in 1..Len(u) : k + 1 \in 1..Len(t) /\ u[k] = t[k+1]
  BY <1>3
<1>5. \A i, j \in 1..Len(u) : i + 1 = j + 1 => i = j
  BY <1>3
<1>6. \A i, j \in 1..Len(u) :
        u[i] # Null /\ u[j] # Null /\ u[i].row.path = u[j].row.path => i = j
  <2>1. \A i, j \in 1..Len(t) :
          t[i] # Null /\ t[j] # Null /\ t[i].row.path = t[j].row.path => i = j
    BY DEF WritesAre
  <2>. QED BY <1>4, <1>5, <2>1
<1>7. \A i \in 1..Len(u), j \in 1..Len(a) : u[i] # Null => u[i].row.path # a[j].path
  BY <1>4 DEF WritesAre
<1>8. \A i \in 1..Len(u) : u[i] # Null =>
       /\ Writable(u[i].row)
       /\ u[i].supersede = {current_for_path(rows, u[i].row.path)} \ {0}
  BY <1>4 DEF WritesAre
<1>9. WritesAre(u, a, m)
  BY <1>3, <1>6, <1>7, <1>8 DEF WritesAre
<1>. QED BY <1>2, <1>9

\* Writing what there is for a path.
LEMMA OneWritten ==
  ASSUME NEW t, NEW a, NEW m, WritesAre(t, a, m), t # << >>, Head(t) # Null
  PROVE  WritesAre(Tail(t), Append(a, Head(t).row), m \cup Head(t).supersede)
<1>1. List(t) /\ List(a)
  BY DEF WritesAre
<1>2. WritesAre(Tail(t), a, m)
  BY NothingWritten
<1>3. PICK u : u = Tail(t)
  OBVIOUS
<1>4. /\ Len(t) \in Nat /\ Len(t) > 0 /\ Len(u) = Len(t) - 1
      /\ \A k \in 1..(Len(t) - 1) : u[k] = t[k+1]
  BY <1>1, <1>3, ListTail, ListShape
<1>5. Head(t) = t[1] /\ 1 \in 1..Len(t)
  BY <1>1, <1>4 DEF List
<1>6. PICK x, s : x = Head(t).row /\ s = Head(t).supersede
  OBVIOUS
<1>7. /\ Writable(x) /\ s = {current_for_path(rows, x.path)} \ {0}
      /\ \A j \in 1..Len(a) : x.path # a[j].path
  BY <1>5, <1>6 DEF WritesAre
<1>8. \A k \in 1..Len(u) : k + 1 \in 1..Len(t) /\ u[k] = t[k+1] /\ k + 1 # 1
  BY <1>4
<1>9. \A k \in 1..Len(u) : u[k] # Null => u[k].row.path # x.path
  BY <1>5, <1>6, <1>8 DEF WritesAre
<1>10. PICK b, n : b = Append(a, x) /\ n = m \cup s
  OBVIOUS
<1>11. /\ List(b) /\ Len(a) \in Nat /\ Len(b) = Len(a) + 1 /\ b[Len(a) + 1] = x
       /\ \A k \in 1..Len(a) : b[k] = a[k]
  BY <1>1, <1>10, ListAppend, ListShape
<1>12. /\ \A k \in 1..Len(b) : k \in 1..Len(a) \/ k = Len(a) + 1
       /\ \A k \in 1..Len(a) : k \in 1..Len(b)
       /\ Len(a) + 1 \in 1..Len(b)
  BY <1>11
<1>13. WritesAre(u, a, m)
  BY <1>2, <1>3
<1>14. \A i \in 1..Len(b) : Writable(b[i]) /\ {current_for_path(rows, b[i].path)} \ {0} \subseteq n
  <2>1. ASSUME NEW i \in 1..Len(a)
        PROVE  Writable(b[i]) /\ {current_for_path(rows, b[i].path)} \ {0} \subseteq n
    BY <1>10, <1>11, <1>13 DEF WritesAre
  <2>2. Writable(b[Len(a) + 1]) /\ {current_for_path(rows, b[Len(a) + 1].path)} \ {0} \subseteq n
    BY <1>7, <1>10, <1>11
  <2>. QED BY <1>12, <2>1, <2>2
<1>15. \A k \in n : k # 0 /\ \E i \in 1..Len(b) : k = current_for_path(rows, b[i].path)
  <2>1. ASSUME NEW k \in m
        PROVE  k # 0 /\ \E i \in 1..Len(b) : k = current_for_path(rows, b[i].path)
    <3>1. k # 0 /\ \E i \in 1..Len(a) : k = current_for_path(rows, a[i].path)
      BY <1>13 DEF WritesAre
    <3>. QED BY <1>11, <1>12, <3>1
  <2>2. ASSUME NEW k \in s
        PROVE  k # 0 /\ \E i \in 1..Len(b) : k = current_for_path(rows, b[i].path)
    BY <1>7, <1>11, <1>12
  <2>. QED BY <1>10, <2>1, <2>2
<1>16. \A i, j \in 1..Len(b) : b[i].path = b[j].path => i = j
  <2>1. \A i, j \in 1..Len(a) : b[i].path = b[j].path => i = j
    BY <1>11, <1>13 DEF WritesAre
  <2>2. \A j \in 1..Len(a) : b[Len(a) + 1].path # b[j].path
    BY <1>7, <1>11
  <2>. QED BY <1>12, <2>1, <2>2
<1>17. \A i \in 1..Len(u), j \in 1..Len(b) : u[i] # Null => u[i].row.path # b[j].path
  <2>1. \A i \in 1..Len(u), j \in 1..Len(a) : u[i] # Null => u[i].row.path # b[j].path
    BY <1>11, <1>13 DEF WritesAre
  <2>2. \A i \in 1..Len(u) : u[i] # Null => u[i].row.path # b[Len(a) + 1].path
    BY <1>9, <1>11
  <2>. QED BY <1>12, <2>1, <2>2
<1>18. WritesAre(u, b, n)
  BY <1>11, <1>13, <1>14, <1>15, <1>16, <1>17 DEF WritesAre
<1>. QED BY <1>3, <1>6, <1>10, <1>18

\* AttemptWrite carries out one planned change.
LEMMA WriteStep ==
  ASSUME AssignmentsStand, AttemptWrite
  PROVE  AssignmentsStand'
<1>1. /\ attempt.phase = "writing" /\ attempt.todo # << >>
      /\ UNCHANGED <<intake, rows, clock, review, name, forked>>
  BY DEF AttemptWrite
<1>2. AttemptStands /\ Begun /\ WritesAre(attempt.todo, attempt.adds, attempt.marked)
  BY <1>1, HasBegun, HasWritten DEF AssignmentsStand
<1>3. PICK t, a, m : t = attempt.todo /\ a = attempt.adds /\ m = attempt.marked
  OBVIOUS
<1>4. PICK b, n : /\ attempt' = [attempt EXCEPT !.todo = Tail(t), !.adds = b, !.marked = n]
                  /\ WritesAre(Tail(t), b, n)
  <2>1. CASE Head(t) = Null
    <3>1. attempt' = [attempt EXCEPT !.todo = Tail(t)]
      BY <1>3, <2>1 DEF AttemptWrite
    <3>2. attempt' = [attempt EXCEPT !.todo = Tail(t), !.adds = a, !.marked = m]
      BY <1>2, <1>3, <3>1 DEF AttemptStands
    <3>. QED BY <1>1, <1>2, <1>3, <3>2, NothingWritten
  <2>2. CASE Head(t) # Null
    <3>1. attempt' = [attempt EXCEPT !.todo = Tail(t), !.adds = Append(a, Head(t).row),
                                     !.marked = m \cup Head(t).supersede]
      BY <1>3, <2>2 DEF AttemptWrite
    <3>. QED BY <1>1, <1>2, <1>3, <2>2, <3>1, OneWritten
  <2>. QED BY <2>1, <2>2
<1>5. PICK u : u = Tail(t)
  OBVIOUS
<1>6. /\ attempt'.phase = "writing" /\ attempt'.at = attempt.at
      /\ attempt'.todo = u /\ attempt'.adds = b /\ attempt'.marked = n
      /\ attempt' = [phase |-> attempt'.phase, at |-> attempt'.at, seen |-> attempt'.seen,
                     todo |-> attempt'.todo, adds |-> attempt'.adds, marked |-> attempt'.marked,
                     name |-> attempt'.name]
  BY <1>1, <1>2, <1>4, <1>5 DEF AttemptStands
<1>7. Inserted' = {}
  BY <1>1, <1>2 DEF Inserted, AttemptStands, DocumentHeld
<1>8. AttemptStands'
  BY <1>1, <1>2, <1>6, <1>7 DEF AttemptStands, Begun, Busy
<1>9. WritesStand'
  BY <1>1, <1>4, <1>5, <1>6, WritesCarryOver
<1>. QED BY <1>1, <1>8, <1>9, AttemptKeepsOthers

----------------------------------------------------------------------------
(* What a commit does to the rows. *)

\* A row that may be inserted: created by a transaction that none of the rows is of.
Insertable(row) ==
  /\ IsRow(row) /\ row.at \in 1..clock /\ row.method \in {Classifier, Override}
  /\ row.state # "superseded" /\ \A k \in DOMAIN rows : rows[k].at # row.at

\* A commit that supersedes S and inserts u, one row for a path.
Commits(S, u) ==
  /\ List(u) /\ Committed(rows, S, u, rows')
  /\ \A i \in 1..Len(u) : Insertable(u[i])
  /\ \A i, j \in 1..Len(u) : u[i].path = u[j].path => i = j

\* After such a commit the rows of a path have different times.
LEMMA CommittedRows ==
  ASSUME RowsStand, UNCHANGED clock, NEW CONSTANT S, NEW CONSTANT u, Commits(S, u)
  PROVE  Keeps(rows, S, u, rows') /\ Table(rows) /\ Table(rows') /\ RowsStand'
<1>1. PICK t, new : t = rows /\ new = rows'
  OBVIOUS
<1>2. Table(t) /\ List(u) /\ Committed(t, S, u, new)
  BY <1>1, RowsAreATable DEF Commits
<1>3. Keeps(t, S, u, new)
  BY <1>2, KeptRows
<1>4. PICK c : c = clock /\ c \in Nat
  BY DEF RowsStand
<1>5. \A k \in 1..Len(t) : t[k].at \in 1..c /\ t[k].method \in {Classifier, Override}
  BY <1>1, <1>3, <1>4 DEF RowsStand, Keeps
<1>6. \A i \in 1..Len(u) :
        /\ IsRow(u[i]) /\ u[i].at \in 1..c /\ u[i].method \in {Classifier, Override}
        /\ \A k \in 1..Len(t) : t[k].at # u[i].at
  <2>1. DOMAIN t = 1..Len(t)
    BY <1>3 DEF Keeps
  <2>2. \A i \in 1..Len(u) : Insertable(u[i])
    BY DEF Commits
  <2>. QED BY <1>1, <1>4, <2>1, <2>2 DEF Insertable
<1>7. \A k \in DOMAIN new :
        IsRow(new[k]) /\ new[k].at \in 1..c /\ new[k].method \in {Classifier, Override}
  <2>1. ASSUME NEW k \in 1..Len(t)
        PROVE  IsRow(new[k]) /\ new[k].at \in 1..c /\ new[k].method \in {Classifier, Override}
    BY <1>3, <1>5 DEF Keeps
  <2>2. ASSUME NEW i \in 1..Len(u)
        PROVE  /\ IsRow(new[Len(t) + i]) /\ new[Len(t) + i].at \in 1..c
               /\ new[Len(t) + i].method \in {Classifier, Override}
    <3>1. new[Len(t) + i] = u[i]
      BY <1>3 DEF Keeps
    <3>. QED BY <1>6, <3>1
  <2>. QED BY <1>3, <2>1, <2>2 DEF Keeps
<1>8. ASSUME NEW j \in DOMAIN new, NEW k \in DOMAIN new,
             new[j].path = new[k].path, new[j].at = new[k].at
      PROVE  j = k
  <2>1. CASE j \in 1..Len(t) /\ k \in 1..Len(t)
    <3>1. t[j].path = t[k].path /\ t[j].at = t[k].at
      BY <1>3, <1>8, <2>1 DEF Keeps
    <3>2. j \in DOMAIN t /\ k \in DOMAIN t
      BY <1>3, <2>1 DEF Keeps
    <3>. QED BY <1>2, <3>1, <3>2 DEF Table
  <2>2. \A i \in 1..Len(t), m \in 1..Len(u) : new[i].at # new[Len(t) + m].at
    <3>1. ASSUME NEW i \in 1..Len(t), NEW m \in 1..Len(u) PROVE new[i].at # new[Len(t) + m].at
      <4>1. new[i].at = t[i].at /\ new[Len(t) + m] = u[m]
        BY <1>3 DEF Keeps
      <4>2. t[i].at # u[m].at
        BY <1>6
      <4>. QED BY <4>1, <4>2
    <3>. QED BY <3>1
  <2>3. CASE j \notin 1..Len(t) /\ k \notin 1..Len(t)
    <3>1. PICK i \in 1..Len(u), m \in 1..Len(u) : j = Len(t) + i /\ k = Len(t) + m
      BY <1>3, <2>3 DEF Keeps
    <3>2. u[i].path = u[m].path
      BY <1>3, <1>8, <3>1 DEF Keeps
    <3>. QED BY <3>1, <3>2 DEF Commits
  <2>4. CASE j \in 1..Len(t) /\ k \notin 1..Len(t)
    <3>1. PICK m \in 1..Len(u) : k = Len(t) + m
      BY <1>3, <2>4 DEF Keeps
    <3>. QED BY <1>8, <2>2, <2>4, <3>1
  <2>5. CASE j \notin 1..Len(t) /\ k \in 1..Len(t)
    <3>1. PICK m \in 1..Len(u) : j = Len(t) + m
      BY <1>3, <2>5 DEF Keeps
    <3>. QED BY <1>8, <2>2, <2>5, <3>1
  <2>. QED BY <2>1, <2>3, <2>4, <2>5
<1>9. \A j, k \in DOMAIN new : new[j].path = new[k].path /\ new[j].at = new[k].at => j = k
  BY <1>8
<1>10. List(new)
  BY <1>2 DEF Committed
<1>11. Table(new)
  <2>1. \A k \in DOMAIN new : new[k].at \in Nat
    BY <1>4, <1>7
  <2>. QED BY <1>4, <1>7, <1>9, <1>10, <2>1 DEF Table
<1>12. RowsStand'
  <2>1. List(rows)'
    BY <1>1, <1>10 DEF List
  <2>2. clock' = c
    BY <1>4
  <2>3. \A k \in DOMAIN rows' : IsRow(rows[k])'
    BY <1>1, <1>7 DEF IsRow
  <2>. QED BY <1>1, <1>4, <1>7, <1>9, <2>1, <2>2, <2>3 DEF RowsStand
<1>. QED BY <1>1, <1>2, <1>3, <1>11, <1>12

\* A correction that goes on after the commit of another transaction.
LEMMA ReviewOutlives ==
  ASSUME NEW CONSTANT S, NEW CONSTANT u, Keeps(rows, S, u, rows'), UNCHANGED clock,
         NEW r \in Reviewers, ReviewStands(r), review'[r] = review[r],
         Busy(r) => \A i \in 1..Len(u) : u[i].at # review[r].copy.at
  PROVE  ReviewStands(r)'
<1>1. Busy(r)' <=> Busy(r)
  BY DEF Busy
<1>2. ASSUME Busy(r)
      PROVE  /\ review[r].row \in DOMAIN rows'
             /\ review[r].copy.path = rows'[review[r].row].path
             /\ review[r].copy.at > rows'[review[r].row].at
             /\ ~review[r].update => rows'[review[r].row].state = "superseded"
  BY <1>2 DEF ReviewStands, Keeps
<1>3. ASSUME Busy(r) PROVE \A k \in DOMAIN rows' : rows'[k].at # review[r].copy.at
  <2>1. PICK at : at = review[r].copy.at
    OBVIOUS
  <2>2. \A k \in 1..Len(rows) : rows'[k].at # at
    <3>1. \A k \in 1..Len(rows) : rows[k].at # at
      BY <1>3, <2>1 DEF ReviewStands
    <3>. QED BY <3>1 DEF Keeps
  <2>3. \A i \in 1..Len(u) : rows'[Len(rows) + i].at # at
    <3>1. \A i \in 1..Len(u) : u[i].at # at
      BY <1>3, <2>1
    <3>. QED BY <3>1 DEF Keeps
  <2>4. \A k \in DOMAIN rows' : k \in 1..Len(rows) \/ \E i \in 1..Len(u) : k = Len(rows) + i
    BY DEF Keeps
  <2>5. \A k \in DOMAIN rows' : rows'[k].at # at
    BY <2>2, <2>3, <2>4
  <2>. QED BY <2>1, <2>5
<1>4. Busy(r) => IsRow(review[r].copy)'
  BY DEF ReviewStands, IsRow
<1>. QED BY <1>1, <1>2, <1>3, <1>4 DEF ReviewStands

\* AttemptCommit: what was planned is still what is in force, so one is in force after it.
LEMMA CommitStep ==
  ASSUME AssignmentsStand, AttemptCommit
  PROVE  AssignmentsStand'
<1>1. /\ attempt.phase = "writing" /\ attempt' = NoAttempt
      /\ rows' = Superseded(rows, attempt.marked) \o attempt.adds
      /\ UNCHANGED <<intake, clock, review, forked>>
  BY DEF AttemptCommit
<1>2. /\ RowsStand /\ ReviewsStand /\ AttemptStands /\ Begun /\ OnePerPath
      /\ WritesAre(attempt.todo, attempt.adds, attempt.marked)
  BY <1>1, HasBegun, HasWritten DEF AssignmentsStand
<1>3. PICK S, u, at : S = attempt.marked /\ u = attempt.adds /\ at = attempt.at
  OBVIOUS
<1>4. /\ List(u)
      /\ \A i, j \in 1..Len(u) : u[i].path = u[j].path => i = j
      /\ \A i \in 1..Len(u) : {current_for_path(rows, u[i].path)} \ {0} \subseteq S
  BY <1>2, <1>3 DEF WritesAre
<1>5. \A i \in 1..Len(u) : Insertable(u[i]) /\ u[i].at = at
  <2>1. \A i \in 1..Len(u) : Writable(u[i])
    BY <1>2, <1>3 DEF WritesAre
  <2>. QED BY <1>2, <1>3, <2>1 DEF Writable, Insertable, Begun
<1>6. Commits(S, u)
  <2>1. Committed(rows, S, u, Superseded(rows, S) \o u)
    BY <1>2, <1>4, CommitMany DEF RowsStand
  <2>. QED BY <1>1, <1>3, <1>4, <1>5, <2>1 DEF Commits
<1>7. Keeps(rows, S, u, rows') /\ Table(rows) /\ RowsStand'
  BY <1>1, <1>2, <1>6, CommittedRows
<1>8. ReviewsStand'
  <2>1. \A r \in Reviewers : ReviewStands(r)'
    <3>1. ASSUME NEW r \in Reviewers PROVE ReviewStands(r)'
      <4>1. Busy(r) => \A i \in 1..Len(u) : u[i].at # review[r].copy.at
        BY <1>2, <1>3, <1>5 DEF Begun
      <4>2. ReviewStands(r) /\ review'[r] = review[r]
        BY <1>1, <1>2 DEF ReviewsStand
      <4>. QED BY <1>1, <1>7, <4>1, <4>2, ReviewOutlives
    <3>. QED BY <3>1
  <2>. QED BY <1>1, <1>2, <2>1 DEF ReviewsStand, Busy
<1>9. AttemptStands' /\ WritesStand'
  BY <1>1, NoAttemptStands
<1>10. ASSUME NEW p \in Paths \ forked, NEW j \in Current(rows', p), NEW k \in Current(rows', p)
       PROVE  j = k
  <2>. DEFINE fresh == Fresh(u, p)
              at0 == Len(rows)
  <2>1. Current(rows', p) = (Current(rows, p) \ S) \cup {at0 + i : i \in fresh}
    <3>1. PICK t, new : t = rows /\ new = rows'
      OBVIOUS
    <3>2. Table(t) /\ Committed(t, S, u, new)
      BY <1>6, <1>7, <3>1 DEF Commits
    <3>3. Current(new, p) = After(t, S, u, p)
      BY <1>4, <3>2, CurrentAfter
    <3>. QED BY <3>1, <3>3 DEF After
  <2>2. \A i, m \in fresh : i = m
    BY <1>4 DEF Fresh
  <2>3. \A i, m \in Current(rows, p) : i = m
    BY <1>2 DEF OnePerPath
  <2>4. fresh # {} => Current(rows, p) \subseteq S
    <3>1. SUFFICES ASSUME NEW i \in fresh PROVE Current(rows, p) \subseteq S
      OBVIOUS
    <3>2. i \in 1..Len(u) /\ u[i].path = p
      BY DEF Fresh
    <3>3. {current_for_path(rows, p)} \ {0} \subseteq S
      BY <1>4, <3>2
    <3>4. /\ current_for_path(rows, p) = 0 <=> Current(rows, p) = {}
          /\ current_for_path(rows, p) # 0 => current_for_path(rows, p) \in Current(rows, p)
      BY <1>7, CurrentForPath
    <3>. QED BY <2>3, <3>3, <3>4
  <2>. HIDE DEF fresh, at0
  <2>5. CASE fresh = {}
    BY <1>10, <2>1, <2>3, <2>5
  <2>6. CASE fresh # {}
    BY <1>10, <2>1, <2>2, <2>4, <2>6
  <2>. QED BY <2>5, <2>6
<1>11. OnePerPath'
  BY <1>1, <1>10 DEF OnePerPath, Current
<1>. QED BY <1>7, <1>8, <1>9, <1>11 DEF AssignmentsStand

----------------------------------------------------------------------------
(* The corrections. *)

\* A reviewer's step that commits nothing: the correction goes on, or it begins.
LEMMA ReviewerStep ==
  ASSUME AssignmentsStand, UNCHANGED <<intake, rows, attempt, forked>>,
         clock' \in {clock, clock + 1},
         NEW r \in Reviewers, NEW CONSTANT new, review' = [review EXCEPT ![r] = new],
         ReviewStands(r)',
         new.phase # "none" =>
           new.copy.at = clock + 1 \/ (Busy(r) /\ new.copy = review[r].copy),
         new.phase = "inserted" => ~DocumentHeld
  PROVE  AssignmentsStand'
<1>1. RowsStand /\ ReviewsStand /\ AttemptStands /\ WritesStand /\ OnePerPath
  BY DEF AssignmentsStand
<1>2. RowsStand' /\ WritesStand' /\ OnePerPath'
  BY <1>1, RowsFrame, WritesFrame, OneFrame
<1>3. clock \in Nat /\ \A q \in Reviewers : Busy(q) => review[q].copy.at \in 1..clock
  BY <1>1 DEF RowsStand, ReviewsStand, ReviewStands
<1>4. new.phase # "none" => \A q \in Reviewers \ {r} : Busy(q) => review[q].copy.at # new.copy.at
  <2>1. CASE new.copy.at = clock + 1
    <3>1. \A q \in Reviewers : Busy(q) => review[q].copy.at # clock + 1
      BY <1>3
    <3>. QED BY <2>1, <3>1
  <2>2. CASE Busy(r) /\ new.copy = review[r].copy
    BY <1>1, <2>2 DEF ReviewsStand
  <2>. QED BY <2>1, <2>2
<1>5. ReviewsStand'
  BY <1>1, <1>4, ReviewsFrame
<1>6. /\ review'[r] = new /\ \A q \in Reviewers \ {r} : review'[q] = review[q]
  BY <1>1 DEF ReviewsStand
<1>7. \A q \in Reviewers : Busy(q)' =>
        \/ Busy(q) /\ review'[q].copy = review[q].copy
        \/ review'[q].copy.at = clock + 1
  BY <1>6 DEF Busy
<1>8. DocumentHeld => Inserted' = {}
  <2>1. ASSUME DocumentHeld PROVE \A q \in Reviewers : review'[q].phase # "inserted"
    <3>1. \A q \in Reviewers : review[q].phase # "inserted"
      BY <1>1, <2>1 DEF AttemptStands, Inserted
    <3>. QED BY <1>6, <2>1, <3>1
  <2>. QED BY <2>1 DEF Inserted
<1>9. AttemptStands'
  BY <1>1, <1>7, <1>8, AttemptFrame
<1>. QED BY <1>2, <1>5, <1>9 DEF AssignmentsStand

\* OverrideRead: the correction begins later than all there is.
LEMMA ReadStepOf ==
  ASSUME AssignmentsStand, NEW r \in Reviewers, OverrideRead(r)
  PROVE  AssignmentsStand'
<1>1. clock' = clock + 1 /\ UNCHANGED <<intake, rows, attempt, forked>>
  BY DEF OverrideRead
<1>2. RowsStand /\ ReviewsStand
  BY DEF AssignmentsStand
<1>. DEFINE given(new, old) == IF new = Keep THEN old ELSE new
            copyOf(was, c) ==
              [path |-> was.path, class |-> given(c.class, was.class),
               machine |-> given(c.machine, was.machine), assembly |-> given(c.assembly, was.assembly),
               state |-> "accepted", method |-> Override, at |-> clock + 1]
<1>3. PICK k \in DOMAIN rows, c \in Corrections :
        review' = [review EXCEPT ![r] =
          [phase |-> "read", row |-> k, update |-> rows[k].state # "superseded", marked |-> {},
           copy |-> copyOf(rows[k], c)]]
  BY DEF OverrideRead
<1>4. PICK copy : copy = copyOf(rows[k], c)
  OBVIOUS
<1>5. /\ IsRow(copy) /\ copy.path = rows[k].path /\ copy.state # "superseded"
      /\ copy.method = Override /\ copy.at = clock + 1
  BY <1>4 DEF IsRow
<1>. HIDE DEF copyOf
<1>6. PICK update : update = (rows[k].state # "superseded")
  OBVIOUS
<1>7. PICK new : new = [phase |-> "read", row |-> k, update |-> update, marked |-> {}, copy |-> copy]
  OBVIOUS
<1>8. review' = [review EXCEPT ![r] = new]
  BY <1>3, <1>4, <1>6, <1>7
<1>9. review'[r] = new
  BY <1>2, <1>8 DEF ReviewsStand
<1>10. clock \in Nat /\ clock' \in Nat /\ \A i \in DOMAIN rows : rows[i].at \in 1..clock
  BY <1>1, <1>2 DEF RowsStand
<1>11. /\ clock + 1 \in 1..clock' /\ clock + 1 > rows[k].at
       /\ \A i \in DOMAIN rows : rows[i].at # clock + 1
  BY <1>1, <1>10
<1>12. IsRow(copy)'
  BY <1>5 DEF IsRow
<1>13. ~update => rows[k].state = "superseded"
  BY <1>6
<1>14. /\ new.phase = "read" /\ new.row = k /\ new.update = update /\ new.marked = {} /\ new.copy = copy
       /\ new = [phase |-> new.phase, row |-> new.row, copy |-> new.copy,
                 update |-> new.update, marked |-> new.marked]
  BY <1>7
<1>15. ReviewStands(r)'
  <2>1. k \in DOMAIN rows' /\ rows' = rows
    BY <1>1
  <2>. QED BY <1>5, <1>9, <1>11, <1>12, <1>13, <1>14, <2>1 DEF ReviewStands, Busy
<1>. QED BY <1>1, <1>5, <1>8, <1>14, <1>15, ReviewerStep

\* What ReviewStands says of a correction that has begun.
Correcting(x) ==
  /\ x.row \in DOMAIN rows /\ IsRow(x.copy) /\ x.copy.method = Override
  /\ x.copy.state # "superseded" /\ x.copy.path = rows[x.row].path
  /\ x.copy.at \in 1..clock /\ x.copy.at > rows[x.row].at
  /\ \A k \in DOMAIN rows : rows[k].at # x.copy.at
  /\ ~x.update => rows[x.row].state = "superseded"

\* A correction that goes on: only what it has marked, and how far it is, changes.
LEMMA ReviewGoesOn ==
  ASSUME AssignmentsStand, UNCHANGED <<intake, rows, clock, attempt, forked>>,
         NEW r \in Reviewers, Busy(r), NEW phase \in {"marked", "inserted"},
         phase = "inserted" => ~DocumentHeld,
         review' = [review EXCEPT ![r].phase = phase,
                                  ![r].marked = IF review[r].update THEN {review[r].row} ELSE {}]
  PROVE  AssignmentsStand'
<1>1. RowsStand /\ ReviewsStand /\ ReviewStands(r)
  BY DEF AssignmentsStand, ReviewsStand
<1>2. PICK x : x = review[r]
  OBVIOUS
<1>3. PICK m : m = IF x.update THEN {x.row} ELSE {}
  OBVIOUS
<1>4. /\ Correcting(x)
      /\ x = [phase |-> x.phase, row |-> x.row, copy |-> x.copy, update |-> x.update,
              marked |-> x.marked]
  BY <1>1, <1>2 DEF ReviewStands, Correcting
<1>5. PICK new : new = [x EXCEPT !.phase = phase, !.marked = m]
  OBVIOUS
<1>6. review' = [review EXCEPT ![r] = new]
  BY <1>1, <1>2, <1>3, <1>5 DEF ReviewsStand
<1>7. review'[r] = new
  BY <1>1, <1>6 DEF ReviewsStand
<1>8. /\ new.phase = phase /\ new.row = x.row /\ new.update = x.update /\ new.marked = m
      /\ new.copy = x.copy
      /\ new = [phase |-> new.phase, row |-> new.row, copy |-> new.copy,
                update |-> new.update, marked |-> new.marked]
  BY <1>4, <1>5
<1>9. IsRow(x.copy)'
  BY <1>4 DEF IsRow, Correcting
<1>10. ReviewStands(r)'
  BY <1>3, <1>4, <1>7, <1>8, <1>9 DEF ReviewStands, Correcting, Busy
<1>. QED BY <1>2, <1>6, <1>8, <1>10, ReviewerStep

\* OverrideMark.
LEMMA MarkStep ==
  ASSUME AssignmentsStand, NEW r \in Reviewers, OverrideMark(r)
  PROVE  AssignmentsStand'
BY ReviewGoesOn DEF OverrideMark, Busy

\* OverrideInsert: nobody holds the document.
LEMMA InsertStep ==
  ASSUME AssignmentsStand, NEW r \in Reviewers, OverrideInsert(r)
  PROVE  AssignmentsStand'
<1>1. /\ review[r].phase = "marked" /\ ~DocumentHeld
      /\ review' = [review EXCEPT ![r].phase = "inserted"]
      /\ UNCHANGED <<intake, rows, clock, attempt, forked>>
  BY DEF OverrideInsert
<1>2. PICK x : x = review[r]
  OBVIOUS
<1>3. /\ review = [q \in Reviewers |-> review[q]]
      /\ x = [phase |-> x.phase, row |-> x.row, copy |-> x.copy, update |-> x.update,
              marked |-> x.marked]
      /\ x.marked = IF x.update THEN {x.row} ELSE {}
  BY <1>1, <1>2 DEF AssignmentsStand, ReviewsStand, ReviewStands, Busy
<1>4. PICK m : m = IF x.update THEN {x.row} ELSE {}
  OBVIOUS
<1>5. [x EXCEPT !.phase = "inserted"] = [x EXCEPT !.phase = "inserted", !.marked = m]
  BY <1>3, <1>4
<1>6. review' = [review EXCEPT ![r] = [x EXCEPT !.phase = "inserted", !.marked = m]]
  BY <1>1, <1>2, <1>5
<1>7. review' = [review EXCEPT ![r].phase = "inserted",
                               ![r].marked = IF review[r].update THEN {review[r].row} ELSE {}]
  BY <1>2, <1>3, <1>4, <1>6
<1>. QED BY <1>1, <1>7, ReviewGoesOn DEF Busy

\* OverrideRollback.
LEMMA GiveUpStep ==
  ASSUME AssignmentsStand, NEW r \in Reviewers, OverrideRollback(r)
  PROVE  AssignmentsStand'
<1>1. /\ review' = [review EXCEPT ![r] = NoReview]
      /\ UNCHANGED <<intake, rows, clock, attempt, forked>>
  BY DEF OverrideRollback
<1>2. PICK new : new = NoReview
  OBVIOUS
<1>3. review'[r] = new /\ review' = [review EXCEPT ![r] = new]
  BY <1>1, <1>2 DEF AssignmentsStand, ReviewsStand
<1>4. /\ new.phase = "none"
      /\ new = [phase |-> new.phase, row |-> new.row, copy |-> new.copy,
                update |-> new.update, marked |-> new.marked]
  BY <1>2 DEF NoReview
<1>5. ReviewStands(r)'
  BY <1>3, <1>4 DEF ReviewStands, Busy
<1>. QED BY <1>1, <1>3, <1>4, <1>5, ReviewerStep

\* The commit of a correction.
LEMMA CorrectionCommits ==
  ASSUME AssignmentsStand, NEW r \in Reviewers, OverrideCommit(r),
         NEW CONSTANT S, S = review[r].marked, NEW CONSTANT x, x = review[r].copy
  PROVE  /\ Commits(S, <<x>>) /\ ~DocumentHeld /\ x.method = Override
         /\ review[r].row \in Current(rows, x.path) => S = {review[r].row}
         /\ S \subseteq {review[r].row} /\ review[r].row \in DOMAIN rows
         /\ x.path = rows[review[r].row].path /\ x.at > rows[review[r].row].at
<1>1. /\ review[r].phase = "inserted" /\ UNCHANGED <<intake, clock, attempt, name>>
      /\ rows' = Append(Superseded(rows, S), x)
  BY DEF OverrideCommit
<1>2. RowsStand /\ AttemptStands /\ ReviewStands(r) /\ Busy(r)
  BY <1>1 DEF AssignmentsStand, ReviewsStand, Busy
<1>3. Insertable(x) /\ x.method = Override
  BY <1>2 DEF ReviewStands, Insertable
<1>4. Committed(rows, S, <<x>>, rows')
  BY <1>1, <1>2, CommitOne DEF RowsStand
<1>5. List(<<x>>) /\ \A i \in 1..Len(<<x>>) : <<x>>[i] = x /\ i = 1
  <2>1. List(<<x>>)
    <3>1. <<x>> \in Seq(Range(<<x>>))
      BY DEF Range
    <3>. QED BY <3>1 DEF List
  <2>2. Len(<<x>>) = 1 /\ <<x>>[1] = x
    OBVIOUS
  <2>3. \A i \in 1..1 : i = 1
    OBVIOUS
  <2>. QED BY <2>1, <2>2, <2>3
<1>6. Commits(S, <<x>>)
  BY <1>3, <1>4, <1>5 DEF Commits
<1>7. ~DocumentHeld
  BY <1>1, <1>2 DEF AttemptStands, Inserted
<1>8. /\ S = IF review[r].update THEN {review[r].row} ELSE {}
      /\ ~review[r].update => rows[review[r].row].state = "superseded"
  BY <1>1, <1>2 DEF ReviewStands
<1>9. review[r].row \in Current(rows, x.path) => S = {review[r].row}
  BY <1>8 DEF Current
<1>. QED BY <1>2, <1>3, <1>6, <1>7, <1>8, <1>9 DEF ReviewStands

\* What is in force after it: what was, except what it superseded, and the correction.
LEMMA AfterCorrection ==
  ASSUME RowsStand, UNCHANGED clock, NEW CONSTANT S, NEW CONSTANT x, Commits(S, <<x>>), NEW p
  PROVE  Current(rows', p) =
           (Current(rows, p) \ S) \cup (IF x.path = p THEN {Len(rows) + 1} ELSE {})
<1>1. Table(rows)
  BY RowsAreATable
<1>2. PICK t, new : t = rows /\ new = rows'
  OBVIOUS
<1>3. List(<<x>>) /\ Committed(t, S, <<x>>, new) /\ Table(t)
  BY <1>1, <1>2 DEF Commits
<1>4. Current(new, p) = After(t, S, <<x>>, p)
  BY <1>3, CurrentAfter
<1>5. Len(<<x>>) = 1 /\ <<x>>[1] = x /\ 1..1 = {1}
  OBVIOUS
<1>6. Insertable(x)
  <2>1. 1 \in 1..Len(<<x>>)
    BY <1>5
  <2>. QED BY <1>5, <2>1 DEF Commits
<1>7. Fresh(<<x>>, p) = IF x.path = p THEN {1} ELSE {}
  BY <1>5, <1>6 DEF Fresh, Insertable
<1>8. {Len(t) + i : i \in Fresh(<<x>>, p)} = IF x.path = p THEN {Len(t) + 1} ELSE {}
  BY <1>7
<1>. QED BY <1>2, <1>4, <1>8 DEF After

\* OverrideCommit: one is in force after it, unless the row it corrects was superseded.
LEMMA CorrectionStep ==
  ASSUME AssignmentsStand, NEW r \in Reviewers, OverrideCommit(r)
  PROVE  AssignmentsStand'
<1>1. PICK S, x, row : S = review[r].marked /\ x = review[r].copy /\ row = review[r].row
  OBVIOUS
<1>2. /\ review[r].phase = "inserted" /\ review' = [review EXCEPT ![r] = NoReview]
      /\ UNCHANGED <<intake, clock, attempt, name>>
      /\ forked' = IF rows[row].state = "superseded" THEN forked \cup {x.path} ELSE forked
  BY <1>1 DEF OverrideCommit
<1>3. /\ Commits(S, <<x>>) /\ ~DocumentHeld
      /\ row \in Current(rows, x.path) => S = {row}
      /\ S \subseteq {row} /\ row \in DOMAIN rows /\ x.path = rows[row].path
  BY <1>1, CorrectionCommits
<1>4. RowsStand /\ ReviewsStand /\ AttemptStands /\ OnePerPath
  BY DEF AssignmentsStand
<1>5. Keeps(rows, S, <<x>>, rows') /\ Table(rows) /\ RowsStand'
  BY <1>2, <1>3, <1>4, CommittedRows
<1>6. Len(<<x>>) = 1 /\ <<x>>[1] = x /\ \A i \in 1..1 : i = 1
  OBVIOUS
<1>7. /\ review'[r] = NoReview /\ \A q \in Reviewers \ {r} : review'[q] = review[q]
      /\ review' = [q \in Reviewers |-> review'[q]]
  BY <1>2, <1>4 DEF ReviewsStand
<1>8. ~Busy(r)'
  BY <1>7 DEF Busy, NoReview
<1>9. ASSUME NEW q \in Reviewers PROVE ReviewStands(q)'
  <2>1. CASE q = r
    BY <1>7, <1>8, <2>1 DEF ReviewStands, NoReview
  <2>2. CASE q # r
    <3>1. Busy(q) => x.at # review[q].copy.at
      BY <1>1, <1>2, <1>4, <2>2 DEF ReviewsStand, Busy
    <3>2. Busy(q) => \A i \in 1..Len(<<x>>) : <<x>>[i].at # review[q].copy.at
      BY <1>6, <3>1
    <3>3. ReviewStands(q) /\ review'[q] = review[q]
      BY <1>4, <1>7, <2>2 DEF ReviewsStand
    <3>. QED BY <1>2, <1>5, <3>2, <3>3, ReviewOutlives
  <2>. QED BY <2>1, <2>2
<1>10. ReviewsStand'
  <2>1. \A p, q \in Reviewers :
          Busy(p)' /\ Busy(q)' /\ review'[p].copy.at = review'[q].copy.at => p = q
    BY <1>4, <1>7, <1>8 DEF ReviewsStand, Busy
  <2>2. \A q \in Reviewers : ReviewStands(q)'
    BY <1>9
  <2>. QED BY <1>7, <2>1, <2>2 DEF ReviewsStand
<1>11. ~DocumentHeld' /\ attempt.phase \in {"none", "waiting"}
  BY <1>2, <1>3, <1>4 DEF AttemptStands, DocumentHeld
<1>12. AttemptStands'
  <2>1. ASSUME attempt.phase # "none"
        PROVE  /\ attempt.at \in 1..clock
               /\ \A k \in DOMAIN rows' : rows'[k].at # attempt.at
               /\ \A q \in Reviewers : Busy(q)' => review'[q].copy.at # attempt.at
    <3>1. PICK at : at = attempt.at
      OBVIOUS
    <3>2. Begun
      BY <1>4, <2>1, HasBegun
    <3>3. x.at # at
      BY <1>1, <1>2, <3>1, <3>2 DEF Begun, Busy
    <3>4. \A k \in 1..Len(rows) : rows'[k].at # at
      BY <1>5, <3>1, <3>2 DEF Begun, Keeps
    <3>5. \A i \in 1..Len(<<x>>) : rows'[Len(rows) + i].at # at
      BY <1>5, <1>6, <3>3 DEF Keeps
    <3>6. \A k \in DOMAIN rows' : rows'[k].at # at
      BY <1>5, <3>4, <3>5 DEF Keeps
    <3>7. \A q \in Reviewers : Busy(q)' => review'[q].copy.at # at
      BY <1>7, <1>8, <3>1, <3>2 DEF Begun, Busy
    <3>. QED BY <3>1, <3>2, <3>6, <3>7 DEF Begun
  <2>. QED BY <1>2, <1>4, <1>11, <2>1 DEF AttemptStands
<1>13. WritesStand'
  BY <1>2, <1>11 DEF WritesStand
<1>14. ASSUME NEW p \in Paths \ forked', NEW j \in Current(rows', p), NEW k \in Current(rows', p)
       PROVE  j = k
  <2>1. p \notin forked /\ p \in Paths
    BY <1>2
  <2>2. \A i, m \in Current(rows, p) : i = m
    BY <1>4, <2>1 DEF OnePerPath
  <2>3. Current(rows', p) =
           (Current(rows, p) \ S) \cup (IF x.path = p THEN {Len(rows) + 1} ELSE {})
    BY <1>2, <1>3, <1>4, AfterCorrection
  <2>4. CASE x.path # p
    BY <1>14, <2>2, <2>3, <2>4
  <2>5. CASE x.path = p
    <3>1. rows[row].state # "superseded"
      BY <1>2, <2>5
    <3>2. row \in Current(rows, p)
      BY <1>3, <2>5, <3>1 DEF Current
    <3>3. Current(rows, p) \ S = {}
      BY <1>3, <2>2, <2>5, <3>2
    <3>. QED BY <1>14, <2>3, <2>5, <3>3
  <2>. QED BY <2>4, <2>5
<1>15. OnePerPath'
  <2>1. \A p \in Paths \ forked' : \A j, k \in Current(rows', p) : j = k
    BY <1>14
  <2>. QED BY <2>1 DEF OnePerPath, Current
<1>. QED BY <1>5, <1>10, <1>12, <1>13, <1>15 DEF AssignmentsStand

----------------------------------------------------------------------------
(* The invariant. *)

\* The assignments as they begin: there are none.
LEMMA AssignmentsInit ==
  ASSUME Init
  PROVE  AssignmentsStand
<1>1. /\ rows = << >> /\ clock = 0 /\ attempt = NoAttempt
      /\ review = [r \in Reviewers |-> NoReview]
  BY DEF Init
<1>2. List(rows) /\ DOMAIN rows = {}
  BY <1>1, EmptyList
<1>3. RowsStand
  BY <1>1, <1>2 DEF RowsStand
<1>4. \A r \in Reviewers : review[r] = NoReview
  BY <1>1
<1>5. review = [r \in Reviewers |-> review[r]]
  BY <1>1
<1>6. \A r \in Reviewers : ~Busy(r) /\ ReviewStands(r)
  BY <1>4 DEF Busy, ReviewStands, NoReview
<1>7. ReviewsStand
  BY <1>5, <1>6 DEF ReviewsStand
<1>8. /\ attempt.phase = "none" /\ attempt.adds = << >> /\ attempt.marked = {}
      /\ attempt = [phase |-> attempt.phase, at |-> attempt.at, seen |-> attempt.seen,
                    todo |-> attempt.todo, adds |-> attempt.adds, marked |-> attempt.marked,
                    name |-> attempt.name]
  BY <1>1 DEF NoAttempt
<1>9. AttemptStands /\ WritesStand
  BY <1>8 DEF AttemptStands, WritesStand, DocumentHeld
<1>10. OnePerPath
  BY <1>2 DEF OnePerPath, Current
<1>. QED BY <1>3, <1>7, <1>9, <1>10 DEF AssignmentsStand

\* No step breaks what is known of the assignments and of the transactions.
LEMMA AssignmentsStep ==
  ASSUME IInv, [Next]_vars
  PROVE  AssignmentsStand'
<1>. USE DEF IInv
<1>1. CASE UNCHANGED vars
  <2>1. RowsStand /\ ReviewsStand /\ AttemptStands /\ WritesStand
    BY DEF AssignmentsStand
  <2>2. DocumentHeld => Inserted' = {}
    BY <1>1, <2>1 DEF AttemptStands, Inserted, vars
  <2>3. AttemptStands'
    BY <1>1, <2>1, <2>2, AttemptFrame DEF Busy, vars
  <2>4. WritesStand'
    BY <1>1, <2>1, WritesFrame DEF vars
  <2>. QED BY <1>1, <2>3, <2>4, AttemptKeepsOthers DEF vars
<1>2. CASE read_upload_bounded
  BY <1>2, UploadKeepsAssignments
<1>3. CASE AttemptBegin
  BY <1>3, BeginStep
<1>4. CASE AttemptLock
  BY <1>4, LockStep
<1>5. CASE ingest_zip
  BY <1>5, IngestAssignments
<1>6. CASE classify_and_assign_package
  BY <1>6, ClassifyStep
<1>7. CASE AttemptWrite
  BY <1>7, WriteStep
<1>8. CASE AttemptCommit
  BY <1>8, CommitStep
<1>9. CASE AttemptRollback
  BY <1>9, RollbackStep
<1>10. ASSUME NEW r \in Reviewers, OverrideRead(r) \/ Finish(r) \/ OverrideRollback(r)
       PROVE  AssignmentsStand'
  BY <1>10, ReadStepOf, MarkStep, InsertStep, CorrectionStep, GiveUpStep DEF Finish
<1>. QED BY <1>1, <1>2, <1>3, <1>4, <1>5, <1>6, <1>7, <1>8, <1>9, <1>10 DEF Next, Attempt

\* package_intake.py, package_assignment.py: what is known of the upload, of the rows
\* and of the transactions that are under way holds in every state.
THEOREM Invariant == Spec => []IInv
<1>1. Init => IInv
  BY IntakeInit, AssignmentsInit DEF IInv
<1>2. IInv /\ [Next]_vars => IInv'
  BY IntakeStep, AssignmentsStep DEF IInv
<1>. QED BY <1>1, <1>2, PTL DEF Spec

----------------------------------------------------------------------------
(* What follows. *)

\* uploads.py, zip_unpack.py: whatever the limits, the bodies and the archives, the
\* limits on what comes in are exact, and nothing beyond them is ever held.
THEOREM IntakeIsBounded == Spec => []IntakeBounded
<1>1. IInv => IntakeBounded
  <2>1. SUFFICES ASSUME IInv PROVE IntakeBounded
    OBVIOUS
  <2>2. UploadStands /\ ArchiveStands
    BY <2>1 DEF IInv, IntakeStands
  <2>3. UploadBounded
    BY <2>2 DEF UploadStands
  <2>4. SafeUnpack
    <3>1. CASE intake.archive = << >>
      BY <3>1 DEF SafeUnpack
    <3>2. CASE intake.archive # << >>
      BY <2>2, <3>2 DEF ArchiveStands
    <3>. QED BY <3>1, <3>2
  <2>5. SizeChecksAgree
    <3>1. SUFFICES ASSUME intake.archive # << >>
                   PROVE  directory_within_limits(intake.archive) <=> Sizes(intake.archive)
      BY DEF SizeChecksAgree
    <3>2. PICK a : a = intake.archive
      OBVIOUS
    <3>3. a \in Seq(Entries)
      BY <2>2, <3>1, <3>2, PackagesAssumption DEF ArchiveStands
    <3>4. directory_within_limits(a) <=> Sizes(a)
      BY <3>3, DirectoryChecksAreExact
    <3>. QED BY <3>2, <3>4
  <2>. QED BY <2>3, <2>4, <2>5 DEF IntakeBounded
<1>. QED BY <1>1, Invariant, PTL

\* package_assignment.py: whatever the readings, the corrections and the reviewers, a
\* path has one assignment in force, unless a correction superseded nothing.
THEOREM OneIsCurrent == Spec => []OneCurrent
<1>1. IInv => OneCurrent
  <2>1. SUFFICES ASSUME OnePerPath, NEW p \in Paths \ forked
                 PROVE  Cardinality(Current(rows, p)) <= 1
    BY DEF OneCurrent, IInv, AssignmentsStand
  <2>. DEFINE C == Current(rows, p)
  <2>2. \A j, k \in C : j = k
    BY <2>1 DEF OnePerPath
  <2>. HIDE DEF C
  <2>3. CASE C = {}
    BY <2>3, FS_EmptySet DEF C
  <2>4. CASE C # {}
    <3>1. PICK k \in C : TRUE
      BY <2>4
    <3>2. C = {k}
      BY <2>2, <3>1
    <3>3. Cardinality({k}) = 1
      BY FS_Singleton
    <3>. QED BY <3>2, <3>3 DEF C
  <2>. QED BY <2>3, <2>4
<1>. QED BY <1>1, Invariant, PTL

\* A step that commits nothing leaves the rows as they are.
LEMMA RowsChange ==
  ASSUME [Next]_vars
  PROVE  \/ UNCHANGED rows \/ AttemptCommit
         \/ \E r \in Reviewers : OverrideCommit(r)
<1>1. CASE UNCHANGED vars
  BY <1>1 DEF vars
<1>2. CASE read_upload_bounded \/ AttemptBegin \/ AttemptRollback
  BY <1>2 DEF read_upload_bounded, AttemptBegin, AttemptRollback
<1>3. CASE Attempt
  BY <1>3 DEF Attempt, AttemptLock, ingest_zip, classify_and_assign_package, AttemptWrite
<1>4. ASSUME NEW r \in Reviewers, OverrideRead(r) \/ Finish(r) \/ OverrideRollback(r)
      PROVE  UNCHANGED rows \/ OverrideCommit(r)
  BY <1>4 DEF OverrideRead, Finish, OverrideMark, OverrideInsert, OverrideRollback
<1>. QED BY <1>1, <1>2, <1>3, <1>4 DEF Next

\* A commit that does not touch a path leaves what is in force for it.
LEMMA StaysInForce ==
  ASSUME NEW t, Table(t), NEW new, Table(new), NEW S, NEW u, Keeps(t, S, u, new),
         NEW p, Current(new, p) = Current(t, p), current_for_path(t, p) # 0
  PROVE  /\ current_for_path(new, p) = current_for_path(t, p)
         /\ new[current_for_path(t, p)].method = t[current_for_path(t, p)].method
<1>1. PICK k : k = current_for_path(t, p)
  OBVIOUS
<1>2. k # 0 /\ k \in Current(t, p) /\ \A j \in Current(t, p) : t[j].at <= t[k].at
  BY <1>1, CurrentForPath
<1>3. \A j \in Current(t, p) : j \in 1..Len(t)
  BY DEF Current, Keeps
<1>4. \A j \in Current(t, p) : new[j].at = t[j].at /\ new[j].method = t[j].method
  BY <1>3 DEF Keeps
<1>5. k \in Current(new, p) /\ \A j \in Current(new, p) : new[j].at <= new[k].at
  BY <1>2, <1>4
<1>6. current_for_path(new, p) = k
  BY <1>5, LatestIsInForce
<1>. QED BY <1>1, <1>2, <1>4, <1>6

\* The attempt's commit: what it supersedes is what was in force for the paths it
\* inserts rows for.
LEMMA AttemptCommits ==
  ASSUME AssignmentsStand, AttemptCommit,
         NEW CONSTANT S, S = attempt.marked, NEW CONSTANT u, u = attempt.adds
  PROVE  /\ UNCHANGED clock /\ Commits(S, u)
         /\ \A i \in 1..Len(u) : Writable(u[i])
         /\ \A k \in S : \E i \in 1..Len(u) :
              k \in Current(rows, u[i].path) /\ u[i].path = rows[k].path
<1>1. /\ attempt.phase = "writing" /\ UNCHANGED clock
      /\ rows' = Superseded(rows, attempt.marked) \o attempt.adds
  BY DEF AttemptCommit
<1>2. /\ RowsStand /\ AttemptStands /\ Begun
      /\ WritesAre(attempt.todo, attempt.adds, attempt.marked)
  BY <1>1, HasBegun, HasWritten DEF AssignmentsStand
<1>3. /\ List(u)
      /\ \A i, j \in 1..Len(u) : u[i].path = u[j].path => i = j
      /\ \A k \in S : k # 0 /\ \E i \in 1..Len(u) : k = current_for_path(rows, u[i].path)
      /\ \A i \in 1..Len(u) : Writable(u[i])
  BY <1>2 DEF WritesAre
<1>4. Commits(S, u)
  <2>1. Committed(rows, S, u, Superseded(rows, S) \o u)
    BY <1>2, <1>3, CommitMany DEF RowsStand
  <2>2. \A i \in 1..Len(u) : Insertable(u[i])
    BY <1>2, <1>3 DEF Writable, Insertable, Begun
  <2>. QED BY <1>1, <1>3, <2>1, <2>2 DEF Commits
<1>5. Table(rows)
  BY <1>2, RowsAreATable
<1>6. ASSUME NEW k \in S
      PROVE  \E i \in 1..Len(u) : k \in Current(rows, u[i].path) /\ u[i].path = rows[k].path
  <2>1. PICK i \in 1..Len(u) : k # 0 /\ k = current_for_path(rows, u[i].path)
    BY <1>3
  <2>2. k \in Current(rows, u[i].path)
    BY <1>5, <2>1, CurrentForPath
  <2>. QED BY <2>2 DEF Current
<1>. QED BY <1>1, <1>3, <1>4, <1>6

\* The attempt's commit, where a person's word is in force.
LEMMA AttemptYields ==
  ASSUME AssignmentsStand, AttemptCommit, NEW p,
         current_for_path(rows, p) # 0, rows[current_for_path(rows, p)].method = Override
  PROVE  /\ current_for_path(rows', p) # 0
         /\ rows'[current_for_path(rows', p)].method = Override
<1>1. PICK S, u : S = attempt.marked /\ u = attempt.adds
  OBVIOUS
<1>2. UNCHANGED clock /\ Commits(S, u) /\ RowsStand
  BY <1>1, AttemptCommits DEF AssignmentsStand
<1>3. List(u) /\ \A i \in 1..Len(u) : Writable(u[i])
  BY <1>1, <1>2, AttemptCommits DEF Commits
<1>4. \A k \in S : \E i \in 1..Len(u) : k \in Current(rows, u[i].path) /\ u[i].path = rows[k].path
  BY <1>1, AttemptCommits
<1>6. Keeps(rows, S, u, rows') /\ Table(rows) /\ Table(rows')
  BY <1>2, CommittedRows
<1>7. \A i \in 1..Len(u) : u[i].path # p
  BY <1>3 DEF Writable, Overridden
<1>8. \A k \in S : k \notin Current(rows, p)
  BY <1>4, <1>7 DEF Current
<1>9. PICK t, new : t = rows /\ new = rows'
  OBVIOUS
<1>10. Table(t) /\ Table(new) /\ Committed(t, S, u, new) /\ Keeps(t, S, u, new)
  BY <1>2, <1>6, <1>9 DEF Commits
<1>11. Current(new, p) = After(t, S, u, p)
  BY <1>3, <1>10, CurrentAfter
<1>12. Fresh(u, p) = {}
  BY <1>7 DEF Fresh
<1>13. Current(new, p) = Current(t, p)
  BY <1>8, <1>9, <1>11, <1>12 DEF After
<1>14. /\ current_for_path(new, p) = current_for_path(t, p)
       /\ new[current_for_path(t, p)].method = t[current_for_path(t, p)].method
  BY <1>9, <1>10, <1>13, StaysInForce
<1>. QED BY <1>9, <1>14

\* A correction's commit: its row, and that what is in force for its path is not older.
LEMMA CorrectionCounts ==
  ASSUME AssignmentsStand, NEW r \in Reviewers, OverrideCommit(r),
         NEW CONSTANT S, S = review[r].marked, NEW CONSTANT x, x = review[r].copy
  PROVE  LET k == current_for_path(rows', x.path)
         IN  /\ Len(rows) + 1 \in Current(rows', x.path) /\ rows'[Len(rows) + 1] = x
             /\ k # 0 /\ k \in Current(rows', x.path) /\ rows'[k].at >= x.at
             /\ k = Len(rows) + 1 \/ (k \in 1..Len(rows) /\ rows'[k].at > x.at)
<1>1. UNCHANGED clock /\ RowsStand
  BY DEF OverrideCommit, AssignmentsStand
<1>2. Commits(S, <<x>>)
  BY CorrectionCommits
<1>3. Keeps(rows, S, <<x>>, rows') /\ Table(rows')
  BY <1>1, <1>2, CommittedRows
<1>4. PICK t, new, n : t = rows /\ new = rows' /\ n = Len(rows) + 1
  OBVIOUS
<1>5. PICK k : k = current_for_path(new, x.path)
  OBVIOUS
<1>6. Len(<<x>>) = 1 /\ <<x>>[1] = x /\ 1 \in 1..1 /\ \A i \in 1..1 : i = 1
  OBVIOUS
<1>7. n \in Current(new, x.path)
  BY <1>1, <1>2, <1>4, AfterCorrection
<1>8. new[n] = x
  BY <1>3, <1>4, <1>6 DEF Keeps
<1>9. /\ k = 0 <=> Current(new, x.path) = {}
      /\ k # 0 => k \in Current(new, x.path) /\ \A j \in Current(new, x.path) : new[j].at <= new[k].at
  BY <1>3, <1>4, <1>5, CurrentForPath
<1>10. k # 0 /\ k \in Current(new, x.path) /\ x.at <= new[k].at
  BY <1>7, <1>8, <1>9
<1>11. Insertable(x)
  BY <1>2, <1>6 DEF Commits
<1>12. k \in DOMAIN new
  BY <1>10 DEF Current
<1>13. k = n \/ k \in 1..Len(t)
  BY <1>3, <1>4, <1>6, <1>12 DEF Keeps
<1>14. ASSUME k \in 1..Len(t) PROVE new[k].at > x.at
  <2>1. new[k].at = t[k].at /\ t[k].at # x.at
    BY <1>3, <1>4, <1>11, <1>14 DEF Keeps, Insertable
  <2>2. new[k].at \in Nat /\ x.at \in Nat
    <3>1. x.at \in 1..clock /\ clock \in Nat
      BY <1>1, <1>11 DEF RowsStand, Insertable
    <3>2. new[k].at \in Nat
      BY <1>3, <1>4, <1>12 DEF Table
    <3>. QED BY <3>1, <3>2
  <2>. QED BY <1>10, <2>1, <2>2
<1>15. new[k].at >= x.at
  <2>1. new[k].at \in Nat /\ x.at \in Nat
    <3>1. x.at \in 1..clock /\ clock \in Nat
      BY <1>1, <1>11 DEF RowsStand, Insertable
    <3>2. new[k].at \in Nat
      BY <1>3, <1>4, <1>12 DEF Table
    <3>. QED BY <3>1, <3>2
  <2>. QED BY <1>10, <2>1
<1>. QED BY <1>4, <1>5, <1>7, <1>8, <1>10, <1>13, <1>14, <1>15

\* A correction's commit, where a person's word is in force already.
LEMMA CorrectionYields ==
  ASSUME AssignmentsStand, NEW r \in Reviewers, OverrideCommit(r), NEW p,
         current_for_path(rows, p) # 0, rows[current_for_path(rows, p)].method = Override
  PROVE  /\ current_for_path(rows', p) # 0
         /\ rows'[current_for_path(rows', p)].method = Override
<1>1. PICK S, x, row : S = review[r].marked /\ x = review[r].copy /\ row = review[r].row
  OBVIOUS
<1>2. /\ Commits(S, <<x>>) /\ x.method = Override /\ S \subseteq {row}
      /\ x.path = rows[row].path /\ x.at > rows[row].at
  BY <1>1, CorrectionCommits
<1>3. UNCHANGED clock /\ RowsStand
  BY DEF OverrideCommit, AssignmentsStand
<1>4. Keeps(rows, S, <<x>>, rows') /\ Table(rows) /\ Table(rows')
  BY <1>2, <1>3, CommittedRows
<1>5. Current(rows', p) =
        (Current(rows, p) \ S) \cup (IF x.path = p THEN {Len(rows) + 1} ELSE {})
  BY <1>2, <1>3, AfterCorrection
<1>6. PICK t, new, was : t = rows /\ new = rows' /\ was = current_for_path(rows, p)
  OBVIOUS
<1>7. CASE x.path # p
  <2>1. \A k \in S : k \notin Current(t, p)
    BY <1>2, <1>6, <1>7 DEF Current
  <2>2. Current(new, p) = Current(t, p)
    BY <1>5, <1>6, <1>7, <2>1
  <2>3. /\ current_for_path(new, p) = current_for_path(t, p)
        /\ new[current_for_path(t, p)].method = t[current_for_path(t, p)].method
    BY <1>4, <1>6, <2>2, StaysInForce
  <2>. QED BY <1>6, <2>3
<1>8. CASE x.path = p
  <2>1. PICK k : k = current_for_path(new, p)
    OBVIOUS
  <2>2. /\ k # 0 /\ k \in Current(new, p) /\ new[Len(t) + 1] = x
        /\ k = Len(t) + 1 \/ (k \in 1..Len(t) /\ new[k].at > x.at)
    BY <1>1, <1>6, <1>8, <2>1, CorrectionCounts
  <2>3. ASSUME k \in 1..Len(t), new[k].at > x.at PROVE new[k].method = Override
    <3>1. k \in Current(t, p) \ S
      <4>1. k # Len(t) + 1
        BY <1>4, <1>6, <2>3 DEF Keeps
      <4>. QED BY <1>5, <1>6, <1>8, <2>2, <4>1
    <3>2. was \in Current(t, p) /\ \A j \in Current(t, p) : t[j].at <= t[was].at
      BY <1>4, <1>6, CurrentForPath
    <3>3. new[k].at = t[k].at /\ new[k].method = t[k].method /\ was \in 1..Len(t)
      BY <1>4, <1>6, <2>3, <3>2 DEF Keeps, Current
    <3>4. t[k].at \in Nat /\ t[was].at \in Nat /\ x.at \in Nat
      <4>1. \A i \in DOMAIN t : t[i].at \in Nat
        BY <1>4, <1>6 DEF Table
      <4>2. 1 \in 1..Len(<<x>>) /\ <<x>>[1] = x
        OBVIOUS
      <4>3. x.at \in 1..clock /\ clock \in Nat
        BY <1>2, <1>3, <4>2 DEF Commits, Insertable, RowsStand
      <4>. QED BY <3>1, <3>2, <4>1, <4>3 DEF Current
    <3>5. t[k].at <= t[was].at /\ t[k].at > x.at
      BY <2>3, <3>1, <3>2, <3>3
    <3>6. was # row
      BY <1>2, <1>6, <3>4, <3>5
    <3>7. was \in Current(new, p)
      BY <1>2, <1>5, <1>6, <3>2, <3>6
    <3>8. new[was].at <= new[k].at
      BY <1>4, <1>6, <2>1, <2>2, <3>7, CurrentForPath
    <3>9. new[was].at = t[was].at
      BY <1>4, <1>6, <3>3 DEF Keeps
    <3>10. t[was].at = t[k].at /\ t[was].path = t[k].path
      BY <3>1, <3>2, <3>3, <3>4, <3>5, <3>8, <3>9 DEF Current
    <3>11. was = k
      BY <1>4, <1>6, <3>1, <3>2, <3>10 DEF Table, Current
    <3>. QED BY <1>6, <3>3, <3>11
  <2>4. new[k].method = Override
    BY <1>2, <2>2, <2>3
  <2>. QED BY <1>6, <2>1, <2>2, <2>4
<1>. QED BY <1>7, <1>8

\* A commit that inserts a row for the path of everything it supersedes.
LEMMA CommitReplaces ==
  ASSUME RowsStand, UNCHANGED clock, PathsStayAssigned,
         NEW CONSTANT S, NEW CONSTANT u, Commits(S, u),
         \A k \in S : \E i \in 1..Len(u) : u[i].path = rows[k].path
  PROVE  PathsStayAssigned'
<1>1. PICK t, new : t = rows /\ new = rows'
  OBVIOUS
<1>2. Keeps(t, S, u, new) /\ Table(t)
  BY <1>1, CommittedRows
<1>3. /\ List(u) /\ Committed(t, S, u, new)
      /\ \A i \in 1..Len(u) : u[i].state # "superseded"
  BY <1>1 DEF Commits, Insertable
<1>4. /\ \A k \in S : \E i \in 1..Len(u) : u[i].path = t[k].path
      /\ \A k \in DOMAIN t : Current(t, t[k].path) # {}
  BY <1>1 DEF PathsStayAssigned
<1>5. ASSUME NEW k \in DOMAIN new PROVE Current(new, new[k].path) # {}
  <2>1. PICK p : p = new[k].path
    OBVIOUS
  <2>2. Current(new, p) = After(t, S, u, p)
    BY <1>2, <1>3, CurrentAfter
  <2>3. CASE \E i \in 1..Len(u) : u[i].path = p
    <3>1. PICK i \in 1..Len(u) : u[i].path = p
      BY <2>3
    <3>2. i \in Fresh(u, p)
      BY <1>3, <3>1 DEF Fresh
    <3>3. Len(t) + i \in After(t, S, u, p)
      BY <3>2 DEF After
    <3>. QED BY <2>1, <2>2, <3>3
  <2>4. CASE ~\E i \in 1..Len(u) : u[i].path = p
    <3>1. k \in 1..Len(t)
      BY <1>2, <2>1, <2>4 DEF Keeps
    <3>2. k \in DOMAIN t /\ t[k].path = p
      BY <1>2, <2>1, <3>1 DEF Keeps
    <3>3. PICK j \in Current(t, p) : TRUE
      BY <1>4, <3>2
    <3>4. j \notin S
      BY <1>4, <2>4, <3>3 DEF Current
    <3>5. j \in After(t, S, u, p)
      BY <3>3, <3>4 DEF After
    <3>. QED BY <2>1, <2>2, <3>5
  <2>. QED BY <2>3, <2>4
<1>. QED BY <1>1, <1>5 DEF PathsStayAssigned

\* package_assignment.py: no commit of an attempt or of a correction leaves a path that
\* was assigned with nothing in force.
THEOREM PathsAlwaysAssigned == Spec => []PathsStayAssigned
<1>1. Init => PathsStayAssigned
  BY DEF Init, PathsStayAssigned
<1>2. IInv /\ PathsStayAssigned /\ [Next]_vars => PathsStayAssigned'
  <2>1. SUFFICES ASSUME IInv, PathsStayAssigned, [Next]_vars PROVE PathsStayAssigned'
    OBVIOUS
  <2>2. AssignmentsStand /\ RowsStand /\ AttemptStands
    BY <2>1 DEF IInv, AssignmentsStand
  <2>3. CASE UNCHANGED rows
    BY <2>1, <2>3 DEF PathsStayAssigned, Current
  <2>4. CASE AttemptCommit
    <3>1. PICK S, u : S = attempt.marked /\ u = attempt.adds
      OBVIOUS
    <3>2. UNCHANGED clock /\ Commits(S, u)
      BY <2>2, <2>4, <3>1, AttemptCommits
    <3>3. \A k \in S : \E i \in 1..Len(u) : u[i].path = rows[k].path
      BY <2>2, <2>4, <3>1, AttemptCommits
    <3>. QED BY <2>1, <2>2, <3>2, <3>3, CommitReplaces
  <2>5. ASSUME NEW r \in Reviewers, OverrideCommit(r) PROVE PathsStayAssigned'
    <3>1. PICK S, x : S = review[r].marked /\ x = review[r].copy
      OBVIOUS
    <3>2. PICK u : u = <<x>>
      OBVIOUS
    <3>3. /\ Commits(S, u) /\ S \subseteq {review[r].row}
          /\ x.path = rows[review[r].row].path
      BY <2>2, <2>5, <3>1, <3>2, CorrectionCommits
    <3>4. UNCHANGED clock
      BY <2>5 DEF OverrideCommit
    <3>5. 1 \in 1..Len(u) /\ u[1] = x
      BY <3>2
    <3>6. \A k \in S : \E i \in 1..Len(u) : u[i].path = rows[k].path
      BY <3>3, <3>5
    <3>. QED BY <2>1, <2>2, <3>3, <3>4, <3>6, CommitReplaces
  <2>. QED BY <2>1, <2>3, <2>4, <2>5, RowsChange
<1>. QED BY <1>1, <1>2, Invariant, PTL DEF Spec

\* package_assignment.py: whatever commits in whatever order, no prediction comes into
\* force in the place of a person's correction.
THEOREM PredictionsAlwaysYield == Spec => PredictionsYield
<1>. DEFINE Yields ==
              \A p \in Paths :
                LET was == current_for_path(rows, p)
                    is == current_for_path(rows', p)
                IN  (was # 0 /\ rows[was].method = Override) => is # 0 /\ rows'[is].method = Override
<1>1. IInv /\ [Next]_vars => Yields
  <2>1. SUFFICES ASSUME IInv, [Next]_vars, NEW p \in Paths,
                        current_for_path(rows, p) # 0,
                        rows[current_for_path(rows, p)].method = Override
                 PROVE  /\ current_for_path(rows', p) # 0
                        /\ rows'[current_for_path(rows', p)].method = Override
    OBVIOUS
  <2>2. AssignmentsStand
    BY <2>1 DEF IInv
  <2>3. CASE UNCHANGED rows
    BY <2>1, <2>3
  <2>4. CASE AttemptCommit
    BY <2>1, <2>2, <2>4, AttemptYields
  <2>5. ASSUME NEW r \in Reviewers, OverrideCommit(r)
        PROVE  /\ current_for_path(rows', p) # 0
               /\ rows'[current_for_path(rows', p)].method = Override
    BY <2>1, <2>2, <2>5, CorrectionYields
  <2>. QED BY <2>1, <2>3, <2>4, <2>5, RowsChange
<1>2. IInv /\ [Next]_vars => [Yields]_vars
  BY <1>1
<1>. HIDE DEF Yields
<1>3. Spec => [][Yields]_vars
  BY <1>2, Invariant, PTL DEF Spec
<1>. QED BY <1>3 DEF PredictionsYield, Yields

\* package_assignment.py: whatever commits in whatever order, a correction is in force
\* when it has committed unless one that began later is.
THEOREM LaterStartAlwaysWins == Spec => LaterStartWins
<1>. DEFINE Wins ==
              \A r \in Reviewers :
                (review[r].phase = "inserted" /\ Len(rows') > Len(rows) /\ review'[r].phase = "none") =>
                  LET mine == review[r].copy
                      is == current_for_path(rows', mine.path)
                  IN  rows'[is] = mine \/ (rows'[is].at > mine.at /\ is <= Len(rows))
<1>1. IInv /\ [Next]_vars => Wins
  <2>1. SUFFICES ASSUME IInv, [Next]_vars, NEW r \in Reviewers,
                        review[r].phase = "inserted", Len(rows') > Len(rows),
                        review'[r].phase = "none", NEW CONSTANT x, x = review[r].copy
                 PROVE  \/ rows'[current_for_path(rows', x.path)] = x
                        \/ /\ rows'[current_for_path(rows', x.path)].at > x.at
                           /\ current_for_path(rows', x.path) <= Len(rows)
    OBVIOUS
  <2>2. RowsStand /\ ReviewsStand /\ AttemptStands /\ AssignmentsStand
    BY <2>1 DEF IInv, AssignmentsStand
  <2>3. Len(rows) \in Nat
    BY <2>2, ListShape DEF RowsStand
  <2>4. rows' # rows
    BY <2>1, <2>3
  <2>5. ~AttemptCommit
    BY <2>1, <2>2 DEF AttemptCommit, AttemptStands, DocumentHeld, Inserted
  <2>6. PICK q \in Reviewers : OverrideCommit(q)
    BY <2>1, <2>4, <2>5, RowsChange
  <2>7. q = r
    BY <2>1, <2>2, <2>6 DEF OverrideCommit, ReviewsStand
  <2>8. PICK k : k = current_for_path(rows', x.path)
    OBVIOUS
  <2>9. /\ rows'[Len(rows) + 1] = x
        /\ k = Len(rows) + 1 \/ (k \in 1..Len(rows) /\ rows'[k].at > x.at)
    BY <2>1, <2>2, <2>6, <2>7, <2>8, CorrectionCounts
  <2>10. k \in 1..Len(rows) => k <= Len(rows)
    BY <2>3
  <2>. QED BY <2>8, <2>9, <2>10
<1>2. IInv /\ [Next]_vars => [Wins]_vars
  BY <1>1
<1>. HIDE DEF Wins
<1>3. Spec => [][Wins]_vars
  BY <1>2, Invariant, PTL DEF Spec
<1>. QED BY <1>3 DEF LaterStartWins, Wins

----------------------------------------------------------------------------
(* The machine of a decision. *)

\* The rules are 18 different ones, and the first of them is "unrelated".
LEMMA RulesShape ==
  /\ DOMAIN PATH_RULES = 1..18 /\ PATH_RULES[1] = "unrelated"
  /\ \A k \in 2..18 : PATH_RULES[k] # "unrelated"
<1>1. DOMAIN PATH_RULES = 1..18 /\ PATH_RULES[1] = "unrelated"
  BY DEF PATH_RULES
<1>2. /\ PATH_RULES[2] # "unrelated" /\ PATH_RULES[3] # "unrelated" /\ PATH_RULES[4] # "unrelated"
      /\ PATH_RULES[5] # "unrelated" /\ PATH_RULES[6] # "unrelated" /\ PATH_RULES[7] # "unrelated"
      /\ PATH_RULES[8] # "unrelated" /\ PATH_RULES[9] # "unrelated" /\ PATH_RULES[10] # "unrelated"
      /\ PATH_RULES[11] # "unrelated" /\ PATH_RULES[12] # "unrelated" /\ PATH_RULES[13] # "unrelated"
      /\ PATH_RULES[14] # "unrelated" /\ PATH_RULES[15] # "unrelated" /\ PATH_RULES[16] # "unrelated"
      /\ PATH_RULES[17] # "unrelated" /\ PATH_RULES[18] # "unrelated"
  BY DEF PATH_RULES
<1>3. \A k \in 2..18 : \/ k = 2 \/ k = 3 \/ k = 4 \/ k = 5 \/ k = 6 \/ k = 7 \/ k = 8 \/ k = 9
                       \/ k = 10 \/ k = 11 \/ k = 12 \/ k = 13 \/ k = 14 \/ k = 15 \/ k = 16
                       \/ k = 17 \/ k = 18
  OBVIOUS
<1>4. \A k \in 2..18 : PATH_RULES[k] # "unrelated"
  BY <1>2, <1>3
<1>. QED BY <1>1, <1>4

\* The rule that decides is the first that matches.
LEMMA FirstRule ==
  ASSUME NEW hits, hits \subseteq Range(PATH_RULES), hits # {}
  PROVE  /\ class_from_path(hits) \in hits
         /\ class_from_path(hits) = "unrelated" <=> "unrelated" \in hits
<1>. DEFINE K == {k \in DOMAIN PATH_RULES : PATH_RULES[k] \in hits}
            m == Min(K)
<1>1. K \subseteq 1..18
  BY RulesShape
<1>2. K # {}
  BY DEF Range
<1>3. \E x \in K : \A y \in K : x <= y
  <2>1. K \in SUBSET Nat
    BY <1>1
  <2>. HIDE DEF K
  <2>. QED BY <1>2, <2>1, Sums!Least
<1>4. m \in K /\ \A y \in K : m <= y
  <2>. HIDE DEF K
  <2>. QED BY <1>3 DEF Min
<1>5. class_from_path(hits) = PATH_RULES[m]
  BY DEF class_from_path
<1>6. PATH_RULES[m] \in hits
  BY <1>4
<1>7. m \in 1..18
  <2>. HIDE DEF K, m
  <2>. QED BY <1>1, <1>4
<1>8. ASSUME "unrelated" \in hits PROVE PATH_RULES[m] = "unrelated"
  <2>1. 1 \in K
    BY <1>8, RulesShape
  <2>. HIDE DEF K, m
  <2>2. m = 1
    BY <1>4, <1>7, <2>1
  <2>. QED BY <2>2, RulesShape
<1>. HIDE DEF K, m
<1>. QED BY <1>5, <1>6, <1>8

\* What classify is given of a file.
Given(item) ==
  /\ item.hits \subseteq Range(PATH_RULES) /\ item.adapter # "unrelated"
  /\ List(item.codes) /\ Null \notin Range(item.codes)

Related(item) == "unrelated" \notin item.hits

\* classify: a file is unrelated if and only if its path says so, and the machine it
\* names is the first it mentions.
LEMMA Classified ==
  ASSUME NEW item, Given(item)
  PROVE  /\ AssignToMachine(classify(item)) <=> Related(item)
         /\ Related(item) => classify(item).machine = FirstOf(item.codes)
         /\ ~Related(item) => classify(item).machine = Null
         /\ DOMAIN classify(item) = {"class", "machine", "assembly", "confidence", "state"}
<1>1. Null \notin Range(PATH_RULES) /\ "unrelated" \in Range(PATH_RULES)
  BY ReadingsAssumption, RulesShape DEF ReadingsAssumption, Range
<1>2. class_from_path(item.hits) = "unrelated" <=> ~Related(item)
  <2>1. CASE item.hits = {}
    BY <1>1, <2>1 DEF class_from_path, Related
  <2>2. CASE item.hits # {}
    BY <2>2, FirstRule DEF Given, Related
  <2>. QED BY <2>1, <2>2
<1>3. PICK hit : hit = class_from_path(item.hits)
  OBVIOUS
<1>4. PICK class : class = IF hit # Null THEN hit
                           ELSE IF item.adapter # Null THEN item.adapter ELSE "unknown"
  OBVIOUS
<1>5. class = "unrelated" <=> ~Related(item)
  BY <1>1, <1>2, <1>3, <1>4 DEF Given
<1>6. /\ classify(item).class = class
      /\ classify(item).machine = IF class # "unrelated" THEN FirstOf(item.codes) ELSE Null
      /\ DOMAIN classify(item) = {"class", "machine", "assembly", "confidence", "state"}
  BY <1>3, <1>4 DEF classify
<1>. QED BY <1>5, <1>6 DEF AssignToMachine

\* The machines that the related files name.
Named(n, items) ==
  {items[k].codes[1] : k \in {j \in 1..n : Related(items[j]) /\ items[j].codes # << >>}}

\* apply_package_identity, of what classify makes of the files.
LEMMA SharedMachine ==
  ASSUME NEW n \in Nat, NEW items, \A k \in 1..n : Given(items[k]), NEW k \in 1..n,
         NEW out, out = apply_package_identity([j \in 1..n |-> classify(items[j])])
  PROVE  /\ ~Related(items[k]) => out[k].machine = Null
         /\ Related(items[k]) /\ Cardinality(Named(n, items)) = 1 =>
              out[k].machine = CHOOSE c \in Named(n, items) : TRUE
         /\ Related(items[k]) /\ Cardinality(Named(n, items)) # 1 =>
              out[k].machine = FirstOf(items[k].codes)
<1>. DEFINE ds == [j \in 1..n |-> classify(items[j])]
            codes == {ds[j].machine : j \in {i \in DOMAIN ds : AssignToMachine(ds[i])}} \ {Null}
            shared == CHOOSE c \in codes : TRUE
            new(d) == [d EXCEPT !.machine = shared, !.confidence = IF @ < 88 THEN @ ELSE 88]
<1>1. out = IF Cardinality(codes) # 1 THEN ds
            ELSE [j \in DOMAIN ds |->
                   IF AssignToMachine(ds[j]) /\ ds[j].machine # shared THEN new(ds[j]) ELSE ds[j]]
  BY DEF apply_package_identity
<1>2. \A j \in 1..n : ds[j] = classify(items[j])
  OBVIOUS
<1>3. DOMAIN ds = 1..n
  OBVIOUS
<1>4. \A j \in 1..n :
        /\ AssignToMachine(ds[j]) <=> Related(items[j])
        /\ Related(items[j]) => ds[j].machine = FirstOf(items[j].codes)
        /\ ~Related(items[j]) => ds[j].machine = Null
        /\ DOMAIN ds[j] = {"class", "machine", "assembly", "confidence", "state"}
  <2>. HIDE DEF ds
  <2>. QED BY <1>2, Classified
<1>. HIDE DEF ds
<1>5. \A j \in 1..n : /\ items[j].codes = << >> => FirstOf(items[j].codes) = Null
                      /\ items[j].codes # << >> => /\ FirstOf(items[j].codes) = items[j].codes[1]
                                                   /\ items[j].codes[1] # Null
  <2>1. ASSUME NEW j \in 1..n, items[j].codes # << >> PROVE items[j].codes[1] # Null
    <3>1. PICK s : s = items[j].codes
      OBVIOUS
    <3>2. List(s) /\ Null \notin Range(s) /\ s # << >>
      BY <2>1, <3>1 DEF Given
    <3>3. Len(s) > 0 /\ Len(s) \in Nat /\ DOMAIN s = 1..Len(s)
      BY <3>2, ListTail, ListShape
    <3>4. s[1] \in Range(s)
      BY <3>3 DEF Range
    <3>. QED BY <3>1, <3>2, <3>4
  <2>. QED BY <2>1 DEF FirstOf
<1>6. codes = Named(n, items)
  <2>1. ASSUME NEW c \in codes PROVE c \in Named(n, items)
    BY <1>3, <1>4, <1>5, <2>1 DEF Named
  <2>2. ASSUME NEW c \in Named(n, items) PROVE c \in codes
    <3>1. PICK j \in 1..n : Related(items[j]) /\ items[j].codes # << >> /\ c = items[j].codes[1]
      BY DEF Named
    <3>2. AssignToMachine(ds[j]) /\ ds[j].machine = c /\ c # Null
      BY <1>4, <1>5, <3>1
    <3>. QED BY <1>3, <3>2
  <2>. HIDE DEF codes
  <2>. QED BY <2>1, <2>2
<1>7. \A d : DOMAIN d = {"class", "machine", "assembly", "confidence", "state"} =>
               new(d).machine = shared
  OBVIOUS
<1>8. CASE Cardinality(codes) # 1
  <2>1. out = ds
    <3>. HIDE DEF codes, new
    <3>. QED BY <1>1, <1>8
  <2>. HIDE DEF codes
  <2>. QED BY <1>4, <1>6, <1>8, <2>1
<1>9. CASE Cardinality(codes) = 1
  <2>. HIDE DEF codes, new, shared
  <2>1. out[k] = IF AssignToMachine(ds[k]) /\ ds[k].machine # shared THEN new(ds[k]) ELSE ds[k]
    BY <1>1, <1>3, <1>9
  <2>2. Related(items[k]) => out[k].machine = shared
    BY <1>4, <1>7, <2>1
  <2>3. ~Related(items[k]) => out[k].machine = Null
    BY <1>4, <2>1
  <2>4. shared = CHOOSE c \in Named(n, items) : TRUE
    BY <1>6 DEF shared
  <2>. QED BY <1>6, <1>9, <2>2, <2>3, <2>4
<1>. QED BY <1>8, <1>9

\* The machine that MachinesShared gives a path.
MachineAt(seen, paths, p) ==
  LET related == {q \in Range(paths) : "unrelated" \notin seen[q].hits}
      named == {q \in related : seen[q].codes # << >>}
      codes == {seen[q].codes[1] : q \in named}
  IN  IF p \notin related THEN Null
      ELSE IF Cardinality(codes) = 1 THEN CHOOSE c \in codes : TRUE
      ELSE IF p \in named THEN seen[p].codes[1] ELSE Null

\* The paths of an archive and its members, in the order in which they are decided.
PathsOf(paths, ms) ==
  /\ DOMAIN paths = 1..(Len(ms) + 1) /\ paths[1] = Root
  /\ \A k \in 1..Len(ms) : paths[k + 1] = ms[k].path

\* What classification is given of a path is what it reads there.
LEMMA InputsShape ==
  ASSUME NEW seen \in Readings, NEW ms \in Unpackable, ms \in MemberList,
         NEW paths, PathsOf(paths, ms), NEW j \in 1..(Len(ms) + 1)
  PROVE  LET item == Inputs(seen, ms)[j]
         IN  /\ Given(item) /\ item.codes = seen[paths[j]].codes
             /\ Related(item) <=> "unrelated" \notin seen[paths[j]].hits
<1>. DEFINE root == [seen[Root] EXCEPT !.hits = @ \cup {"package_container"},
                                       !.adapter = "package_container"]
            rest == [k \in DOMAIN ms |->
                      IF ms[k].is = "nested" THEN [seen[ms[k].path] EXCEPT !.adapter = Null]
                      ELSE seen[ms[k].path]]
            n == Len(ms)
<1>1. n \in Nat /\ DOMAIN ms = 1..n
  BY DEF MemberList
<1>2. Inputs(seen, ms) = <<root>> \o rest
  BY DEF Inputs
<1>3. /\ Null \notin Range(PATH_RULES) /\ "unrelated" \in Range(PATH_RULES)
      /\ "package_container" \in Range(PATH_RULES)
  <2>1. PATH_RULES[18] = "package_container" /\ 18 \in DOMAIN PATH_RULES /\ 1 \in DOMAIN PATH_RULES
    BY DEF PATH_RULES
  <2>2. \A k \in DOMAIN PATH_RULES : PATH_RULES[k] \in Range(PATH_RULES)
    BY DEF Range
  <2>. QED BY <2>1, <2>2, RulesShape, ReadingsAssumption DEF ReadingsAssumption
<1>4. \A p \in Paths :
        /\ seen[p] = [hits |-> seen[p].hits, adapter |-> seen[p].adapter,
                      codes |-> seen[p].codes, zones |-> seen[p].zones]
        /\ Given(seen[p])
  BY ReadingsAssumption DEF ReadingsAssumption, Given, List
<1>5. \A p \in DOMAIN seen : p \in Paths
  BY DEF Paths
<1>6. Root \in Paths
  BY <1>5, PackagesAssumption DEF PackagesAssumption, Root
<1>7. \A k \in 1..n : ms[k].path \in Paths
  BY <1>1, <1>5, ReadingsAssumption DEF ReadingsAssumption
<1>8. /\ Given(root) /\ root.codes = seen[Root].codes
      /\ Related(root) <=> "unrelated" \notin seen[Root].hits
  <2>1. PICK x : x = seen[Root]
    OBVIOUS
  <2>2. /\ x = [hits |-> x.hits, adapter |-> x.adapter, codes |-> x.codes, zones |-> x.zones]
        /\ Given(x)
    BY <1>4, <1>6, <2>1
  <2>3. PICK r : r = [x EXCEPT !.hits = @ \cup {"package_container"}, !.adapter = "package_container"]
    OBVIOUS
  <2>4. /\ r.hits = x.hits \cup {"package_container"} /\ r.adapter = "package_container"
        /\ r.codes = x.codes
    BY <2>2, <2>3
  <2>5. Given(r) /\ (Related(r) <=> "unrelated" \notin x.hits)
    BY <1>3, <2>2, <2>4 DEF Given, Related
  <2>. QED BY <2>1, <2>3, <2>4, <2>5
<1>9. ASSUME NEW k \in 1..n
      PROVE  /\ Given(rest[k]) /\ rest[k].codes = seen[ms[k].path].codes
             /\ Related(rest[k]) <=> "unrelated" \notin seen[ms[k].path].hits
  <2>1. PICK x : x = seen[ms[k].path]
    OBVIOUS
  <2>2. /\ x = [hits |-> x.hits, adapter |-> x.adapter, codes |-> x.codes, zones |-> x.zones]
        /\ Given(x)
    BY <1>4, <1>7, <2>1
  <2>3. PICK r : r = IF ms[k].is = "nested" THEN [x EXCEPT !.adapter = Null] ELSE x
    OBVIOUS
  <2>4. /\ r.hits = x.hits /\ r.codes = x.codes /\ (r.adapter = x.adapter \/ r.adapter = Null)
    BY <2>2, <2>3
  <2>5. Given(r) /\ (Related(r) <=> "unrelated" \notin x.hits)
    BY <1>3, <2>2, <2>4 DEF Given, Related
  <2>6. rest[k] = r
    BY <1>1, <2>1, <2>3
  <2>. HIDE DEF rest
  <2>. QED BY <2>1, <2>4, <2>5, <2>6
<1>10. List(rest) /\ Len(rest) = n
  <2>1. rest = [k \in 1..n |-> rest[k]]
    BY <1>1
  <2>. HIDE DEF rest, n
  <2>. QED BY <1>1, <2>1, ListOf
<1>11. List(<<root>>) /\ Len(<<root>>) = 1 /\ <<root>>[1] = root
  <2>. HIDE DEF root
  <2>1. <<root>> \in Seq(Range(<<root>>))
    BY DEF Range
  <2>. QED BY <2>1 DEF List
<1>. HIDE DEF root, rest
<1>12. /\ Inputs(seen, ms)[1] = root
       /\ \A k \in 1..n : Inputs(seen, ms)[1 + k] = rest[k]
  <2>1. /\ \A k \in 1..Len(<<root>>) : (<<root>> \o rest)[k] = <<root>>[k]
        /\ \A k \in 1..Len(rest) : (<<root>> \o rest)[Len(<<root>>) + k] = rest[k]
    BY <1>10, <1>11, ListConcat
  <2>. QED BY <1>2, <1>10, <1>11, <2>1
<1>13. CASE j = 1
  BY <1>8, <1>12, <1>13 DEF PathsOf
<1>14. CASE j # 1
  <2>1. PICK k \in 1..n : j = k + 1 /\ j = 1 + k
    <3>1. j - 1 \in 1..n /\ j = (j - 1) + 1 /\ j = 1 + (j - 1)
      BY <1>1, <1>14
    <3>. QED BY <3>1
  <2>2. Inputs(seen, ms)[j] = rest[k] /\ paths[j] = ms[k].path
    BY <1>12, <2>1 DEF PathsOf
  <2>. QED BY <1>9, <2>2
<1>. QED BY <1>13, <1>14

\* The machine of every decision is the one that MachinesShared gives its path.
LEMMA DecidedMachine ==
  ASSUME NEW seen \in Readings, NEW ms \in Unpackable, ms \in MemberList,
         NEW paths, PathsOf(paths, ms), NEW k \in 1..(Len(ms) + 1)
  PROVE  Decided[seen][ms][k].machine = MachineAt(seen, paths, paths[k])
<1>1. PICK n : n = Len(ms) + 1 /\ n \in Nat
  BY DEF MemberList
<1>2. PICK items : items = Inputs(seen, ms)
  OBVIOUS
<1>3. \A j \in 1..n :
        /\ Given(items[j]) /\ items[j].codes = seen[paths[j]].codes
        /\ Related(items[j]) <=> "unrelated" \notin seen[paths[j]].hits
  BY <1>1, <1>2, InputsShape
<1>4. PICK out : out = Decided[seen][ms]
  OBVIOUS
<1>5. out = apply_package_identity([j \in 1..n |-> classify(items[j])])
  BY <1>1, <1>2, <1>4 DEF Decided
<1>. DEFINE related == {q \in Range(paths) : "unrelated" \notin seen[q].hits}
            named == {q \in related : seen[q].codes # << >>}
            codes == {seen[q].codes[1] : q \in named}
<1>6. /\ DOMAIN paths = 1..n /\ \A j \in 1..n : paths[j] \in Range(paths)
      /\ \A q \in Range(paths) : \E j \in 1..n : q = paths[j]
  BY <1>1 DEF PathsOf, Range
<1>7. \A j \in 1..n : paths[j] \in related <=> Related(items[j])
  BY <1>3, <1>6
<1>8. \A j \in 1..n : paths[j] \in named <=> (Related(items[j]) /\ items[j].codes # << >>)
  BY <1>3, <1>7
<1>9. codes = Named(n, items)
  <2>1. ASSUME NEW c \in codes PROVE c \in Named(n, items)
    <3>1. PICK q \in named : c = seen[q].codes[1]
      OBVIOUS
    <3>2. PICK j \in 1..n : q = paths[j]
      BY <1>6, <3>1
    <3>. HIDE DEF named
    <3>3. Related(items[j]) /\ items[j].codes # << >> /\ c = items[j].codes[1]
      BY <1>3, <1>8, <3>1, <3>2
    <3>. QED BY <3>3 DEF Named
  <2>2. ASSUME NEW c \in Named(n, items) PROVE c \in codes
    <3>1. PICK j \in 1..n : Related(items[j]) /\ items[j].codes # << >> /\ c = items[j].codes[1]
      BY DEF Named
    <3>. HIDE DEF named
    <3>2. paths[j] \in named /\ c = seen[paths[j]].codes[1]
      BY <1>3, <1>8, <3>1
    <3>. QED BY <3>2
  <2>. HIDE DEF codes
  <2>. QED BY <2>1, <2>2
<1>10. k \in 1..n
  BY <1>1
<1>11. /\ ~Related(items[k]) => out[k].machine = Null
       /\ Related(items[k]) /\ Cardinality(Named(n, items)) = 1 =>
            out[k].machine = CHOOSE c \in Named(n, items) : TRUE
       /\ Related(items[k]) /\ Cardinality(Named(n, items)) # 1 =>
            out[k].machine = FirstOf(items[k].codes)
  BY <1>1, <1>3, <1>5, <1>10, SharedMachine
<1>12. MachineAt(seen, paths, paths[k]) =
         IF paths[k] \notin related THEN Null
         ELSE IF Cardinality(codes) = 1 THEN CHOOSE c \in codes : TRUE
         ELSE IF paths[k] \in named THEN seen[paths[k]].codes[1] ELSE Null
  BY DEF MachineAt
<1>13. /\ paths[k] \in related <=> Related(items[k])
       /\ paths[k] \in named <=> (Related(items[k]) /\ items[k].codes # << >>)
       /\ seen[paths[k]].codes = items[k].codes
  BY <1>3, <1>7, <1>8, <1>10
<1>14. FirstOf(items[k].codes) = IF items[k].codes = << >> THEN Null ELSE items[k].codes[1]
  BY DEF FirstOf
<1>. HIDE DEF related, named, codes
<1>15. CASE ~Related(items[k])
  BY <1>4, <1>11, <1>12, <1>13, <1>15
<1>16. CASE Related(items[k]) /\ Cardinality(codes) = 1
  BY <1>4, <1>9, <1>11, <1>12, <1>13, <1>16
<1>17. CASE Related(items[k]) /\ Cardinality(codes) # 1
  <2>1. out[k].machine = FirstOf(items[k].codes)
    BY <1>9, <1>11, <1>17
  <2>. QED BY <1>4, <1>12, <1>13, <1>14, <1>17, <2>1
<1>. QED BY <1>15, <1>16, <1>17

\* What a change writes of a decision.
LEMMA ChangeMachine ==
  ASSUME NEW p, NEW d, NEW now, Change(p, d, now) # Null
  PROVE  Change(p, d, now).row.machine = d.machine /\ Change(p, d, now).row.path = p
<1>. DEFINE k == current_for_path(rows, p)
            a == Assigned(d)
            row == [path |-> p, class |-> a.class, machine |-> a.machine, assembly |-> a.assembly,
                    state |-> d.state, method |-> Classifier, at |-> now]
<1>1. Change(p, d, now).row = row
  <2>. HIDE DEF row
  <2>1. \E s : Change(p, d, now) = [supersede |-> s, row |-> row]
    BY DEF Change, row
  <2>. QED BY <2>1
<1>2. row.machine = d.machine /\ row.path = p
  BY DEF Assigned
<1>. HIDE DEF row
<1>. QED BY <1>1, <1>2

MachinesStand ==
  attempt.phase = "writing" =>
    \A i \in DOMAIN attempt.todo : attempt.todo[i] # Null =>
      attempt.todo[i].row.machine = MachineAt(attempt.seen, MemberPaths, attempt.todo[i].row.path)

\* classify_and_assign_package plans the machines of its decisions.
LEMMA MachinesPlanned ==
  ASSUME IInv, classify_and_assign_package
  PROVE  MachinesStand'
<1>1. /\ attempt.phase = "unpacked"
      /\ intake' = [intake EXCEPT !.archive = << >>, !.total = 0]
  BY DEF classify_and_assign_package
<1>2. IntakeStands /\ AttemptStands /\ MembersKnown /\ intake.phase = "unpacked"
  BY <1>1 DEF IInv, IntakeStands, AssignmentsStand, AttemptStands
<1>3. PICK ms : ms = intake.members /\ ms \in MemberList /\ ms \in Unpackable
  BY <1>2 DEF MembersKnown
<1>4. PICK paths : paths = MemberPaths
  OBVIOUS
<1>5. MemberPaths' = paths
  <2>1. intake'.members = intake.members
    BY <1>1, <1>2 DEF IntakeStands, UploadStands
  <2>. QED BY <1>4, <2>1 DEF MemberPaths
<1>6. PathsOf(paths, ms)
  BY <1>2, <1>3, <1>4, MemberPathsAre DEF PathsOf
<1>. DEFINE todo(ds) == [k \in DOMAIN ds |-> Change(MemberPaths[k], ds[k], attempt.at)]
<1>7. PICK seen \in Readings :
        \E other : attempt' = [attempt EXCEPT !.phase = "writing", !.seen = seen, !.name = other,
                                              !.todo = todo(Decided[seen][intake.members])]
  <2>. HIDE DEF todo
  <2>. QED BY DEF classify_and_assign_package, todo
<1>8. PICK ds : ds = Decided[seen][ms]
  OBVIOUS
<1>9. DOMAIN ds = 1..(Len(ms) + 1)
  BY <1>3, <1>8, DecisionsShape
<1>10. PICK ts : ts = todo(ds)
  OBVIOUS
<1>11. /\ DOMAIN ts = 1..(Len(ms) + 1)
       /\ \A k \in DOMAIN ts : ts[k] = Change(MemberPaths[k], ds[k], attempt.at)
  BY <1>9, <1>10
<1>. HIDE DEF todo
<1>12. attempt'.todo = ts /\ attempt'.seen = seen
  BY <1>2, <1>3, <1>7, <1>8, <1>10 DEF AttemptStands
<1>13. ASSUME NEW k \in DOMAIN ts, ts[k] # Null
       PROVE  ts[k].row.machine = MachineAt(seen, paths, ts[k].row.path)
  <2>1. ts[k].row.machine = ds[k].machine /\ ts[k].row.path = paths[k]
    BY <1>4, <1>11, <1>13, ChangeMachine
  <2>2. ds[k].machine = MachineAt(seen, paths, paths[k])
    BY <1>3, <1>6, <1>8, <1>11, DecidedMachine
  <2>. QED BY <2>1, <2>2
<1>14. \A k \in DOMAIN ts : ts[k] # Null =>
         ts[k].row.machine = MachineAt(attempt'.seen, MemberPaths', ts[k].row.path)
  BY <1>5, <1>12, <1>13
<1>. QED BY <1>12, <1>14 DEF MachinesStand

\* AttemptWrite leaves the machines of what is still to be written.
LEMMA MachinesLeft ==
  ASSUME IInv, MachinesStand, AttemptWrite
  PROVE  MachinesStand'
<1>1. /\ attempt.phase = "writing" /\ attempt.todo # << >> /\ UNCHANGED intake
  BY DEF AttemptWrite
<1>2. PICK t, seen, paths : t = attempt.todo /\ seen = attempt.seen /\ paths = MemberPaths
  OBVIOUS
<1>3. AttemptStands /\ List(t)
  BY <1>1, <1>2 DEF IInv, AssignmentsStand, WritesStand
<1>4. PICK u : u = Tail(t)
  OBVIOUS
<1>5. attempt'.todo = u /\ attempt'.seen = seen
  BY <1>2, <1>3, <1>4 DEF AttemptWrite, AttemptStands
<1>6. MemberPaths' = paths
  BY <1>1, <1>2 DEF MemberPaths
<1>7. \A i \in DOMAIN t : t[i] # Null => t[i].row.machine = MachineAt(seen, paths, t[i].row.path)
  BY <1>1, <1>2 DEF MachinesStand
<1>8. /\ Len(t) \in Nat /\ DOMAIN t = 1..Len(t) /\ DOMAIN u = 1..Len(u) /\ Len(u) = Len(t) - 1
      /\ \A k \in 1..(Len(t) - 1) : u[k] = t[k+1]
  BY <1>1, <1>2, <1>3, <1>4, ListTail, ListShape
<1>9. \A k \in DOMAIN u : k + 1 \in DOMAIN t /\ u[k] = t[k+1]
  BY <1>8
<1>10. \A i \in DOMAIN u : u[i] # Null => u[i].row.machine = MachineAt(seen, paths, u[i].row.path)
  BY <1>7, <1>9
<1>. QED BY <1>5, <1>6, <1>10 DEF MachinesStand

\* No other step plans anything or changes what is planned.
LEMMA MachinesStep ==
  ASSUME IInv, MachinesStand, [Next]_vars
  PROVE  MachinesStand'
<1>1. CASE UNCHANGED <<attempt, intake>>
  BY <1>1 DEF MachinesStand, MemberPaths
<1>2. CASE attempt'.phase # "writing"
  BY <1>2 DEF MachinesStand
<1>3. CASE classify_and_assign_package
  BY <1>3, MachinesPlanned
<1>4. CASE AttemptWrite
  BY <1>4, MachinesLeft
<1>5. AttemptStands
  BY DEF IInv, AssignmentsStand
<1>6. CASE read_upload_bounded
  <2>1. attempt.phase # "writing" /\ attempt' = attempt
    BY <1>5, <1>6 DEF read_upload_bounded, AttemptStands
  <2>. QED BY <1>2, <2>1
<1>7. CASE AttemptBegin \/ AttemptLock \/ AttemptCommit \/ AttemptRollback
  <2>1. CASE AttemptBegin
    BY <1>2, <2>1 DEF AttemptBegin, NoAttempt
  <2>2. CASE AttemptLock
    BY <1>2, <1>5, <2>2 DEF AttemptLock, AttemptStands
  <2>3. CASE AttemptCommit \/ AttemptRollback
    <3>1. attempt' = NoAttempt
      BY <2>3 DEF AttemptCommit, AttemptRollback
    <3>. QED BY <1>2, <3>1 DEF NoAttempt
  <2>. QED BY <1>7, <2>1, <2>2, <2>3
<1>8. CASE ingest_zip
  <2>1. attempt' = NoAttempt \/ attempt' = [attempt EXCEPT !.phase = "unpacked"]
    <3>1. CASE intake.phase = "unpacked"
      BY <1>8, <3>1 DEF ingest_zip
    <3>2. CASE intake.phase = "stored"
      <4>1. attempt' = IF intake'.phase = "unpacked"
                       THEN [attempt EXCEPT !.phase = "unpacked"] ELSE NoAttempt
        BY <1>8, <3>2 DEF ingest_zip
      <4>. QED BY <4>1
    <3>. QED BY <1>8, <3>1, <3>2 DEF ingest_zip
  <2>2. attempt'.phase # "writing"
    BY <1>5, <2>1 DEF NoAttempt, AttemptStands
  <2>. QED BY <1>2, <2>2
<1>9. ASSUME NEW r \in Reviewers, OverrideRead(r) \/ Finish(r) \/ OverrideRollback(r)
      PROVE  UNCHANGED <<attempt, intake>>
  BY <1>9 DEF OverrideRead, Finish, OverrideMark, OverrideInsert, OverrideCommit, OverrideRollback
<1>. QED BY <1>1, <1>3, <1>4, <1>6, <1>7, <1>8, <1>9 DEF Next, Attempt, vars

\* classification.py: whatever the readings, the related files of a package are of one
\* machine if they name one between them, and an unrelated file is of none.
THEOREM MachinesAreShared == Spec => []MachinesShared
<1>1. Init => MachinesStand
  BY DEF Init, NoAttempt, MachinesStand
<1>2. IInv /\ MachinesStand /\ [Next]_vars => MachinesStand'
  BY MachinesStep
<1>3. MachinesStand => MachinesShared
  BY DEF MachinesStand, MachinesShared, MachineAt
<1>. QED BY <1>1, <1>2, <1>3, Invariant, PTL DEF Spec
=============================================================================
