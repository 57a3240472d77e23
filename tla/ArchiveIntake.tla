--------------------------- MODULE ArchiveIntake ---------------------------
(****************************************************************************)
(* What happens to an uploaded archive before anything of it is stored in   *)
(* the database, as operators: app/adapters/zip_unpack.py (which archives   *)
(* are unpacked) and app/services/classification.py (which class, machine   *)
(* and assembly each member is given).                                      *)
(*                                                                          *)
(* An entry of a zip directory is a record: parts (its name, split at the   *)
(* slashes), size and packed (the two sizes the directory declares) and is  *)
(* (what reading it comes to). What classification sees of a member is a    *)
(* record: hits (the rules that match its path), adapter (the class its     *)
(* adapter names), codes and zones (the identifiers in its name and text,   *)
(* in the order of appearance).                                             *)
(****************************************************************************)
EXTENDS Naturals, FiniteSets, Sequences, SequencesExt

CONSTANTS
  MAX_MEMBERS, MAX_UNCOMPRESSED_TOTAL, MAX_UNCOMPRESSED_MEMBER,
  MAX_COMPRESSION_RATIO, RATIO_FLOOR,
  MAX_PATH,                   \* in parts of a name
  Null                        \* None

ASSUME ArchiveAssumption ==
  /\ MAX_MEMBERS \in Nat /\ MAX_UNCOMPRESSED_TOTAL \in Nat /\ MAX_UNCOMPRESSED_MEMBER \in Nat
  /\ MAX_COMPRESSION_RATIO \in Nat /\ RATIO_FLOOR \in Nat /\ MAX_PATH \in Nat

----------------------------------------------------------------------------
(* Names. "" stands for an empty part (a slash at an end, or two in a row),  *)
(* "c:" for a part with a colon.                                             *)

\* _is_directory
IsDirectory(e) == Len(e.parts) > 1 /\ Last(e.parts) = ""

\* The directory's entries that are files, by their positions.
Files(a) == {k \in DOMAIN a : ~IsDirectory(a[k])}

\* The parts of a name that lead somewhere.
KeepPart(kept, x) == IF x \in {"", "."} THEN kept ELSE Append(kept, x)
KeptParts(parts) == FoldLeft(KeepPart, << >>, parts)

\* _safe_path: Null when the name is refused.
safe_path(parts) ==
  LET kept == KeptParts(parts)
  IN  IF \/ Len(parts) > 1 /\ Head(parts) = ""
         \/ Range(kept) \cap {"..", "c:"} # {}
         \/ kept = << >>
         \/ Len(kept) > MAX_PATH
      THEN Null ELSE kept

----------------------------------------------------------------------------
(* Unpacking. *)

\* The compression ratio, compared without a division.
RatioExceeds(e) ==
  LET compressed == IF e.packed = 0 THEN 1 ELSE e.packed
  IN  e.size >= RATIO_FLOOR /\ e.size > MAX_COMPRESSION_RATIO * compressed

\* Mutant: the sum is compared before the entry is added to it.
SizeExceeds_Late(e, total) ==
  e.size > MAX_UNCOMPRESSED_MEMBER \/ RatioExceeds(e) \/ total > MAX_UNCOMPRESSED_TOTAL

\* The checks on one entry when the entries before it declare total bytes.
SizeExceeds(e, total) ==
  e.size > MAX_UNCOMPRESSED_MEMBER \/ RatioExceeds(e) \/ total + e.size > MAX_UNCOMPRESSED_TOTAL

\* The loop of assert_zip_directory_within_limits, which passes over directories.
CheckEntry(acc, e) ==
  IF IsDirectory(e) THEN acc
  ELSE [ok |-> acc.ok /\ ~SizeExceeds(e, acc.total), total |-> acc.total + e.size]
CheckEntries(a) == FoldLeft(CheckEntry, [ok |-> TRUE, total |-> 0], a)

\* assert_zip_directory_within_limits
directory_within_limits(a) ==
  Cardinality(Files(a)) <= MAX_MEMBERS /\ CheckEntries(a).ok

\* is: "sound"; "encrypted"; "short" (fewer bytes than declared); "bad" (what
\* zipfile refuses with BadZipFile); "damaged" (what it refuses with another
\* error, a broken deflate stream say); "nested" (a zip in the zip); "invalid"
\* (sound, and refused by its adapter).
Readable == {"sound", "nested", "invalid"}
Unreadable == {"encrypted", "short", "bad", "damaged"}

\* What a directory may list.
Entries == [parts : Seq(STRING), size : Nat, packed : Nat, is : Readable \cup Unreadable]

\* One entry of the loop of safe_unpack. read: the bytes decompressed so far.
UnpackEntry(acc, e) ==
  IF acc.outcome # "unpacked" \/ IsDirectory(e) THEN acc
  ELSE LET path == safe_path(e.parts)
           refuse == [acc EXCEPT !.outcome = "rejected"]
       IN  IF \/ e.is = "encrypted" \/ path = Null \/ path \in acc.seen
              \/ SizeExceeds(e, acc.total)
           THEN refuse
           ELSE CASE e.is = "bad" -> refuse
                  [] e.is = "damaged" -> [acc EXCEPT !.outcome = "raised"]
                  [] e.is = "short" -> [refuse EXCEPT !.read = @ + e.size - 1]
                  [] OTHER -> [acc EXCEPT !.seen = @ \cup {path},
                                          !.total = @ + e.size,
                                          !.read = @ + e.size,
                                          !.members = Append(@, [path |-> path, is |-> e.is])]

NothingUnpacked ==
  [outcome |-> "unpacked", total |-> 0, read |-> 0, seen |-> {}, members |-> << >>]
UnpackEntries(a) == FoldLeft(UnpackEntry, NothingUnpacked, a)

\* safe_unpack
safe_unpack(a) ==
  IF Files(a) = {} \/ Cardinality(Files(a)) > MAX_MEMBERS
  THEN [NothingUnpacked EXCEPT !.outcome = "rejected"]
  ELSE UnpackEntries(a)

----------------------------------------------------------------------------
(* Classification. Confidence is in hundredths. *)

\* _PATH_RULES, then the suffixes of _class_from_path, in order.
PATH_RULES ==
  <<"unrelated", "schematic", "bom", "manual", "io_list", "hardware", "cables", "terminals",
    "alarms", "motor_drive", "revision", "manufacturer_facts", "cross_references",
    "plc_scl", "s5_text", "plc_xml", "photo", "package_container">>

\* _class_from_path
class_from_path(hits) ==
  IF hits = {} THEN Null ELSE PATH_RULES[Min({k \in DOMAIN PATH_RULES : PATH_RULES[k] \in hits})]

FirstOf(s) == IF s = << >> THEN Null ELSE s[1]

\* classify
classify(item) ==
  LET hit == class_from_path(item.hits)
      class == IF hit # Null THEN hit ELSE IF item.adapter # Null THEN item.adapter ELSE "unknown"
      sure == IF hit # Null THEN (IF item.adapter = hit THEN 95 ELSE 92)
              ELSE IF item.adapter # Null THEN 70 ELSE 30
      related == class # "unrelated"
  IN  [class |-> class,
       machine |-> IF related THEN FirstOf(item.codes) ELSE Null,
       assembly |-> IF related THEN FirstOf(item.zones) ELSE Null,
       confidence |-> sure,
       state |-> IF class = "unknown" \/ sure < 60 THEN "needs_review" ELSE "proposed"]

AssignToMachine(d) == d.class # "unrelated"

\* Mutant: every member is given the shared code.
apply_package_identity_All(ds) ==
  LET codes == {ds[k].machine : k \in {j \in DOMAIN ds : AssignToMachine(ds[j])}} \ {Null}
  IN  IF Cardinality(codes) # 1 THEN ds
      ELSE [k \in DOMAIN ds |-> [ds[k] EXCEPT !.machine = CHOOSE c \in codes : TRUE]]

\* apply_package_identity
apply_package_identity(ds) ==
  LET codes == {ds[k].machine : k \in {j \in DOMAIN ds : AssignToMachine(ds[j])}} \ {Null}
      shared == CHOOSE c \in codes : TRUE
  IN  IF Cardinality(codes) # 1 THEN ds
      ELSE [k \in DOMAIN ds |->
             IF AssignToMachine(ds[k]) /\ ds[k].machine # shared
             THEN [ds[k] EXCEPT !.machine = shared, !.confidence = IF @ < 88 THEN @ ELSE 88]
             ELSE ds[k]]
=============================================================================
