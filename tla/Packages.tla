------------------------------ MODULE Packages ------------------------------
(****************************************************************************)
(* One archive from its upload to the assignments of its members:           *)
(* app/services/uploads.py (the bounded read), package_intake.py (the       *)
(* attempt's unpacking) and package_assignment.py (what the attempt and the *)
(* people who correct it write).                                            *)
(*                                                                          *)
(* The attempt holds FOR UPDATE on the document from its first statement to *)
(* its end. A correction reads the assignment without a lock, marks it      *)
(* superseded (a row lock), and inserts its replacement, whose foreign key  *)
(* to the document waits for the attempt. A transaction sees what had been  *)
(* committed when it read; a row is created_at the start of its             *)
(* transaction, not at its commit.                                          *)
(****************************************************************************)
EXTENDS ArchiveIntake

CONSTANTS
  MAX_BYTES,      \* max_upload_bytes
  CHUNK,          \* _READ_CHUNK_SIZE
  Bodies,         \* sizes of the bodies that are sent
  Archives,       \* zip directories
  Readings,       \* what classification may see of each path; a later release
                  \* may see something else in the same member
  Corrections,    \* arguments of override_assignment
  Reviewers,      \* transactions that call override_assignment
  MaxClock,       \* bound: transactions
  Keep            \* an argument of override_assignment that is not given

ASSUME PackagesAssumption ==
  /\ MAX_BYTES \in Nat /\ CHUNK \in Nat \ {0} /\ Bodies \subseteq Nat /\ MaxClock \in Nat
  /\ Keep # Null
  /\ \A a \in Archives : a \in Seq(Entries)
  /\ \A seen, other \in Readings : << >> \in DOMAIN seen /\ DOMAIN seen = DOMAIN other

VARIABLES
  intake,         \* the upload, then its archive
  rows,           \* package_assignments, committed, in the order of commit
  clock,          \* transactions begun
  attempt,        \* the worker's transaction
  review,         \* reviewer -> its transaction
  name,           \* of the package, committed
  forked          \* history: paths where a correction superseded nothing

vars == <<intake, rows, clock, attempt, review, name, forked>>

Unnamed == "Uploaded package"
Root == << >>                                   \* relative_path ""
Classifier == "deterministic_metadata"
Override == "human_override"

Paths == UNION {DOMAIN seen : seen \in Readings}


NoAttempt == [phase |-> "none", at |-> 0, seen |-> << >>, todo |-> << >>,
              adds |-> << >>, marked |-> {}, name |-> Unnamed]
NoReview == [phase |-> "none", row |-> 0, copy |-> Null, update |-> FALSE, marked |-> {}]

Init ==
  /\ \E size \in Bodies :
       intake = [phase |-> "reading", size |-> size, total |-> 0,
                 archive |-> << >>, members |-> << >>]
  /\ rows = << >> /\ clock = 0 /\ name = Unnamed /\ forked = {}
  /\ attempt = NoAttempt
  /\ review = [r \in Reviewers |-> NoReview]

----------------------------------------------------------------------------
(* The upload. *)

\* What the next read asks for: at most one byte past the remaining budget.
Wanted(total) == Min({CHUNK, MAX_BYTES - total + 1})

\* read_upload_bounded: a read returns some of what it asks for, and nothing
\* only at the end of the body. validate_upload refuses what is empty.
read_upload_bounded ==
  /\ intake.phase = "reading"
  /\ LET most == Min({intake.size - intake.total, Wanted(intake.total)})
     IN  \E n \in IF most = 0 THEN {0} ELSE 1..most :
           intake' =
             IF n = 0 THEN [intake EXCEPT !.phase = IF intake.total = 0 THEN "empty" ELSE "stored"]
             ELSE IF intake.total + n > MAX_BYTES THEN [intake EXCEPT !.phase = "too_large"]
             ELSE [intake EXCEPT !.total = @ + n]
  /\ UNCHANGED <<rows, clock, attempt, review, name, forked>>

----------------------------------------------------------------------------
(* The assignments. *)

Current(table, p) ==
  {k \in DOMAIN table : table[k].path = p /\ table[k].state # "superseded"}

\* Mutant: the oldest.
current_for_path_Oldest(table, p) ==
  IF Current(table, p) = {} THEN 0
  ELSE CHOOSE k \in Current(table, p) : \A j \in Current(table, p) : table[j].at >= table[k].at

\* _current_for_path, and what current_assignments lists for the path: the one
\* whose transaction began last. 0 when there is none.
current_for_path(table, p) ==
  IF Current(table, p) = {} THEN 0
  ELSE CHOOSE k \in Current(table, p) : \A j \in Current(table, p) : table[j].at <= table[k].at

Superseded(table, S) ==
  [k \in DOMAIN table |-> IF k \in S THEN [table[k] EXCEPT !.state = "superseded"] ELSE table[k]]

\* Row locks: an assignment that a transaction has marked and not committed.
MarkedByReview(k) == \E r \in Reviewers : k \in review[r].marked
MarkedByOthers(r, k) == k \in attempt.marked \/ \E q \in Reviewers \ {r} : k \in review[q].marked

\* The foreign key of an inserted assignment holds the document until the commit.
Inserted == {r \in Reviewers : review[r].phase = "inserted"}
DocumentHeld == attempt.phase \in {"locked", "unpacked", "writing"}

----------------------------------------------------------------------------
(* The worker's attempt. *)

\* The transaction begins with the statement that asks for the document.
AttemptBegin ==
  /\ attempt.phase = "none" /\ clock < MaxClock
  /\ intake.phase \in {"stored", "unpacked"}
  /\ clock' = clock + 1
  /\ attempt' = [NoAttempt EXCEPT !.phase = "waiting", !.at = clock + 1]
  /\ UNCHANGED <<intake, rows, review, name, forked>>

\* Mutant: the document is read without a lock.
AttemptLock_Free ==
  /\ attempt.phase = "waiting"
  /\ attempt' = [attempt EXCEPT !.phase = "locked"]
  /\ UNCHANGED <<intake, rows, clock, review, name, forked>>

\* SELECT ... FOR UPDATE.
AttemptLock ==
  /\ attempt.phase = "waiting" /\ Inserted = {}
  /\ attempt' = [attempt EXCEPT !.phase = "locked"]
  /\ UNCHANGED <<intake, rows, clock, review, name, forked>>

\* What unpacking each archive comes to.
Unpacked == [a \in Archives |-> safe_unpack(a)]

\* safe_unpack and _ingest_zip. Every unpacked member is stored and observed; an
\* adapter that refuses one fails the attempt after the last. The bytes do not
\* change, so an attempt after the first one unpacks what that one did.
ingest_zip ==
  /\ attempt.phase = "locked"
  /\ \/ /\ intake.phase = "stored"
        /\ \E a \in Archives :
             LET out == Unpacked[a]
                 refused == \E k \in DOMAIN out.members : out.members[k].is = "invalid"
             IN  /\ intake' = [phase |-> IF out.outcome = "unpacked" /\ refused THEN "rejected"
                                         ELSE out.outcome,
                               size |-> 0, total |-> out.read, archive |-> a,
                               members |-> out.members]
                 /\ attempt' = IF intake'.phase = "unpacked"
                               THEN [attempt EXCEPT !.phase = "unpacked"] ELSE NoAttempt
     \/ /\ intake.phase = "unpacked"
        /\ attempt' = [attempt EXCEPT !.phase = "unpacked"]
        /\ UNCHANGED intake
  /\ UNCHANGED <<rows, clock, review, name, forked>>

\* What classification is given: the archive itself, whose media type is the last
\* rule, then its members; no adapter looks into a nested archive.
Inputs(seen, members) ==
  <<[seen[Root] EXCEPT !.hits = @ \cup {"package_container"}, !.adapter = "package_container"]>>
  \o [k \in DOMAIN members |->
       IF members[k].is = "nested" THEN [seen[members[k].path] EXCEPT !.adapter = Null]
       ELSE seen[members[k].path]]

Unpackable == {out.members : out \in {o \in Range(Unpacked) : o.outcome = "unpacked"}}

\* Every path that comes up can be read. The rules are those of _PATH_RULES and of
\* the suffixes, _ADAPTER_CLASS names every class but "unrelated", None is neither
\* a class nor a code.
ASSUME ReadingsAssumption ==
  /\ Null \notin Range(PATH_RULES)
  /\ \A seen \in Readings, members \in Unpackable :
       \A k \in DOMAIN members : members[k].path \in DOMAIN seen
  /\ \A seen \in Readings, p \in Paths :
       /\ seen[p] = [hits |-> seen[p].hits, adapter |-> seen[p].adapter,
                     codes |-> seen[p].codes, zones |-> seen[p].zones]
       /\ seen[p].hits \subseteq Range(PATH_RULES) /\ seen[p].adapter # "unrelated"
       /\ seen[p].codes \in Seq(Range(seen[p].codes)) /\ Null \notin Range(seen[p].codes)

\* The decisions for each list of members, as each release reads them.
Decided ==
  [seen \in Readings |-> [members \in Unpackable |->
    apply_package_identity([k \in 1..(Len(members) + 1) |-> classify(Inputs(seen, members)[k])])]]

MemberPaths == <<Root>> \o [k \in DOMAIN intake.members |-> intake.members[k].path]

\* A machine is found by its code, or made; an assembly only under a machine.
Assigned(d) ==
  [class |-> d.class, machine |-> d.machine,
   assembly |-> IF d.machine = Null THEN Null ELSE d.assembly]

Overridden(p) == LET k == current_for_path(rows, p) IN k # 0 /\ rows[k].method = Override

\* Mutant: whatever is in force is replaced.
Change_Always(p, d, now) ==
  [supersede |-> {current_for_path(rows, p)} \ {0},
   row |-> [path |-> p, class |-> d.class, machine |-> d.machine, assembly |-> Assigned(d).assembly,
            state |-> d.state, method |-> Classifier, at |-> now]]

\* What classify_and_assign_package does for one path: nothing where a person's
\* word is in force or the prediction stands, otherwise a new row.
Change(p, d, now) ==
  LET current == current_for_path(rows, p)
      was == IF current = 0 THEN Null ELSE rows[current]
      a == Assigned(d)
  IN  IF /\ current # 0
         /\ \/ Overridden(p)
            \/ was.method = Classifier /\ was.class = a.class /\ was.machine = a.machine
               /\ was.assembly = a.assembly
      THEN Null
      ELSE [supersede |-> IF current # 0 /\ was.method = Classifier THEN {current} ELSE {},
            row |-> [path |-> p, class |-> a.class, machine |-> a.machine, assembly |-> a.assembly,
                     state |-> d.state, method |-> Classifier, at |-> now]]

\* classify_and_assign_package, up to its writes. A package that has no name
\* yet is named after the last machine; the unpacked entries are of no more use.
classify_and_assign_package ==
  /\ attempt.phase = "unpacked"
  /\ \E seen \in Readings :
       LET ds == Decided[seen][intake.members]
           named == {k \in DOMAIN ds : ds[k].machine # Null /\ ~Overridden(MemberPaths[k])}
           changes == [k \in DOMAIN ds |-> Change(MemberPaths[k], ds[k], attempt.at)]
       IN  attempt' = [attempt EXCEPT !.phase = "writing", !.seen = seen,
                                      !.name = IF name = Unnamed /\ named # {}
                                               THEN ds[Max(named)].machine ELSE name,
                                      !.todo = changes]
  /\ intake' = [intake EXCEPT !.archive = << >>, !.total = 0]
  /\ UNCHANGED <<rows, clock, review, name, forked>>

\* One path, if there is something to write for it: the prediction it replaces is
\* marked, which waits for a reviewer who has marked it; its evidence and the new
\* row are inserted.
AttemptWrite ==
  /\ attempt.phase = "writing" /\ attempt.todo # << >>
  /\ LET c == Head(attempt.todo)
     IN  IF c = Null THEN attempt' = [attempt EXCEPT !.todo = Tail(@)]
         ELSE /\ \A k \in c.supersede : ~MarkedByReview(k)
              /\ attempt' = [attempt EXCEPT !.todo = Tail(@), !.adds = Append(@, c.row),
                                            !.marked = @ \cup c.supersede]
  /\ UNCHANGED <<intake, rows, clock, review, name, forked>>

AttemptCommit ==
  /\ attempt.phase = "writing" /\ attempt.todo = << >>
  /\ rows' = Superseded(rows, attempt.marked) \o attempt.adds
  /\ name' = attempt.name
  /\ attempt' = NoAttempt
  /\ UNCHANGED <<intake, clock, review, forked>>

\* A later stage of the attempt fails, or the process goes.
AttemptRollback ==
  /\ attempt.phase \in {"locked", "unpacked", "writing"}
  /\ attempt' = NoAttempt
  /\ UNCHANGED <<intake, rows, clock, review, name, forked>>

----------------------------------------------------------------------------
(* override_assignment. *)

\* get_assignment: any row, whatever its state.
OverrideRead(r) ==
  /\ review[r].phase = "none" /\ clock < MaxClock
  /\ \E k \in DOMAIN rows, c \in Corrections :
       LET was == rows[k]
           given(new, old) == IF new = Keep THEN old ELSE new
       IN  /\ c.machine \notin {Keep, Null} => \E j \in DOMAIN rows : rows[j].machine = c.machine
           /\ review' = [review EXCEPT ![r] =
                [phase |-> "read", row |-> k, update |-> was.state # "superseded", marked |-> {},
                 copy |-> [path |-> was.path, class |-> given(c.class, was.class),
                           machine |-> given(c.machine, was.machine), assembly |-> given(c.assembly, was.assembly),
                           state |-> "accepted", method |-> Override, at |-> clock + 1]]]
  /\ clock' = clock + 1
  /\ UNCHANGED <<intake, rows, attempt, name, forked>>

\* The update, which is sent only if the row was not superseded when it was read.
OverrideMark(r) ==
  /\ review[r].phase = "read"
  /\ review[r].update => ~MarkedByOthers(r, review[r].row)
  /\ review' = [review EXCEPT ![r].phase = "marked",
                              ![r].marked = IF review[r].update THEN {review[r].row} ELSE {}]
  /\ UNCHANGED <<intake, rows, clock, attempt, name, forked>>

\* create_assignment and record_override.
OverrideInsert(r) ==
  /\ review[r].phase = "marked" /\ ~DocumentHeld
  /\ review' = [review EXCEPT ![r].phase = "inserted"]
  /\ UNCHANGED <<intake, rows, clock, attempt, name, forked>>

OverrideCommit(r) ==
  /\ review[r].phase = "inserted"
  /\ rows' = Append(Superseded(rows, review[r].marked), review[r].copy)
  /\ forked' = IF rows[review[r].row].state = "superseded" THEN forked \cup {review[r].copy.path} ELSE forked
  /\ review' = [review EXCEPT ![r] = NoReview]
  /\ UNCHANGED <<intake, clock, attempt, name>>

\* Mutant: the mark had a transaction of its own.
OverrideRollback_Half(r) ==
  /\ review[r].phase \in {"marked", "inserted"}
  /\ rows' = Superseded(rows, review[r].marked)
  /\ review' = [review EXCEPT ![r] = NoReview]
  /\ UNCHANGED <<intake, clock, attempt, name, forked>>

\* A correction that fails before its update has changed nothing and holds nothing.
\* The reviewer may be waiting for the document, and the attempt for the row that the
\* reviewer has marked: PostgreSQL then ends one of the two, which is this or
\* AttemptRollback.
OverrideRollback(r) ==
  /\ review[r].phase \in {"marked", "inserted"}
  /\ review' = [review EXCEPT ![r] = NoReview]
  /\ UNCHANGED <<intake, rows, clock, attempt, name, forked>>

----------------------------------------------------------------------------

Attempt ==
  \/ AttemptLock \/ ingest_zip \/ classify_and_assign_package
  \/ AttemptWrite \/ AttemptCommit

Finish(r) == OverrideMark(r) \/ OverrideInsert(r) \/ OverrideCommit(r)

Next ==
  \/ read_upload_bounded
  \/ AttemptBegin \/ Attempt \/ AttemptRollback
  \/ \E r \in Reviewers : OverrideRead(r) \/ Finish(r) \/ OverrideRollback(r)

Spec == Init /\ [][Next]_vars

----------------------------------------------------------------------------
(* Properties. *)

\* However short the reads are, a body is stored if and only if it is not empty and
\* within max_upload_bytes (exactly the limit passes), all of it has been read by
\* then, and no more than the limit was ever taken in.
UploadBounded ==
  /\ intake.phase \in {"reading", "empty", "too_large", "stored"} => intake.total <= MAX_BYTES
  /\ intake.phase = "too_large" => intake.size > MAX_BYTES
  /\ intake.phase = "empty" => intake.size = 0
  /\ intake.phase = "stored" => intake.size \in 1..MAX_BYTES /\ intake.total = intake.size

AddSize(n, e) == IF IsDirectory(e) THEN n ELSE n + e.size
SizeOf(a) == FoldLeft(AddSize, 0, a)

\* The archives that may be unpacked, stated without an order of checks.
Sizes(a) ==
  /\ Cardinality(Files(a)) <= MAX_MEMBERS
  /\ SizeOf(a) <= MAX_UNCOMPRESSED_TOTAL
  /\ \A k \in Files(a) : a[k].size <= MAX_UNCOMPRESSED_MEMBER /\ ~RatioExceeds(a[k])

Acceptable(a) ==
  /\ Files(a) # {} /\ Sizes(a)
  /\ \A k \in Files(a) : a[k].is \in Readable /\ safe_path(a[k].parts) # Null
  /\ \A j, k \in Files(a) : safe_path(a[j].parts) = safe_path(a[k].parts) => j = k

\* An archive is unpacked if and only if it is acceptable, and not even one that is
\* refused halfway has more than MAX_UNCOMPRESSED_TOTAL bytes decompressed. No
\* member's path has a part that leads elsewhere, so each has a key of its own.
SafeUnpack ==
  intake.archive # << >> =>
    /\ intake.phase = "unpacked" => Acceptable(intake.archive)
    /\ intake.phase = "raised" => \E k \in Files(intake.archive) : intake.archive[k].is = "damaged"
    /\ intake.phase = "rejected" =>
         ~Acceptable(intake.archive) \/ \E k \in Files(intake.archive) : intake.archive[k].is = "invalid"
    /\ intake.total <= MAX_UNCOMPRESSED_TOTAL
    /\ \A k \in DOMAIN intake.members :
         Range(intake.members[k].path) \cap {"", ".", "..", "c:"} = {}

\* The check that a spreadsheet's container passes before it is opened refuses
\* exactly the sizes that safe_unpack refuses.
SizeChecksAgree ==
  intake.archive # << >> =>
    (directory_within_limits(intake.archive) <=> Sizes(intake.archive))

\* uploads.py, zip_unpack.py: at every limit on what comes in, exactly what is
\* within the limit is taken, whatever the pieces it comes in and the order of the
\* checks, and nothing beyond the limit is ever held, not even of what is refused.
IntakeBounded == UploadBounded /\ SafeUnpack /\ SizeChecksAgree

\* package_assignment.py: a path has one assignment in force, unless a correction
\* was made of a row that was no longer in force when the correction committed.
OneCurrent == \A p \in Paths \ forked : Cardinality(Current(rows, p)) <= 1

\* classification.py: the machine a prediction names. A file whose path says that
\* it is unrelated has none, whatever else matches or is written in it. If the
\* related files name one machine between them, all of them are its files; if
\* they name several, each is of the one it names first, or of none.
MachinesShared ==
  LET related == {p \in Range(MemberPaths) : "unrelated" \notin attempt.seen[p].hits}
      named == {p \in related : attempt.seen[p].codes # << >>}
      codes == {attempt.seen[p].codes[1] : p \in named}
      machine(p) == IF p \notin related THEN Null
                    ELSE IF Cardinality(codes) = 1 THEN CHOOSE c \in codes : TRUE
                    ELSE IF p \in named THEN attempt.seen[p].codes[1] ELSE Null
  IN  attempt.phase = "writing" =>
        \A k \in {j \in DOMAIN attempt.todo : attempt.todo[j] # Null} :
          attempt.todo[k].row.machine = machine(attempt.todo[k].row.path)

\* package_assignment.py: an attempt never puts a prediction in force in the place
\* of a person's correction, whatever was corrected while it ran.
PredictionsYield ==
  [][\A p \in Paths :
      LET was == current_for_path(rows, p)
          is == current_for_path(rows', p)
      IN  (was # 0 /\ rows[was].method = Override) => is # 0 /\ rows'[is].method = Override]_vars

\* package_assignment.py: a correction is in force once it has committed, except
\* where a transaction that began after it has committed before it: created_at is
\* the time of the start, and the later start wins.
LaterStartWins ==
  [][\A r \in Reviewers :
      (review[r].phase = "inserted" /\ Len(rows') > Len(rows) /\ review'[r].phase = "none") =>
        LET mine == review[r].copy
            is == current_for_path(rows', mine.path)
        IN  rows'[is] = mine \/ (rows'[is].at > mine.at /\ is <= Len(rows))]_vars

\* package_assignment.py: a path that was ever assigned has an assignment in force. The
\* mark and the row that replaces the marked one are written apart, by two kinds of
\* transactions that wait for each other and of which any may be ended in between.
PathsStayAssigned ==
  \A k \in DOMAIN rows : Current(rows, rows[k].path) # {}
=============================================================================
