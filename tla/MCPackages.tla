----------------------------- MODULE MCPackages -----------------------------
(* Small archives around every limit, and two ways to read their members. *)
EXTENDS Packages

Entry(parts, size, packed, is) == [parts |-> parts, size |-> size, packed |-> packed, is |-> is]

\* The limits: 2 members, 5 bytes in all, 4 in one, a ratio of 1 from 3 bytes on,
\* 2 parts in a name.
Plain ==
  {Entry(<<"a">>, 2, 1, "sound"), Entry(<<"b">>, 3, 3, "sound"), Entry(<<".", "a">>, 3, 3, "sound"),
   Entry(<<"a", "">>, 0, 0, "sound"), Entry(<<"b">>, 4, 4, "nested")}

Odd ==
  {Entry(<<"b">>, 3, 2, "sound"), Entry(<<"a">>, 4, 4, "sound"), Entry(<<"a">>, 5, 5, "sound"),
   Entry(<<"a">>, 2, 0, "sound"), Entry(<<"b">>, 3, 0, "sound"),
   Entry(<<"..", "a">>, 1, 1, "sound"), Entry(<<"", "a">>, 1, 1, "sound"),
   Entry(<<"c:", "a">>, 1, 1, "sound"), Entry(<<"a", "b", "a">>, 1, 1, "sound"),
   Entry(<<".">>, 1, 1, "sound"), Entry(<<"a">>, 1, 1, "encrypted"), Entry(<<"b">>, 2, 2, "short"),
   Entry(<<"b">>, 2, 2, "bad"), Entry(<<"b">>, 2, 2, "damaged"), Entry(<<"b">>, 2, 2, "invalid")}

MCArchives ==
  UNION {[1..n -> Plain \cup Odd] : n \in 0..2} \cup [1..3 -> Plain]

Item(hits, adapter, codes, zones) ==
  [hits |-> hits, adapter |-> adapter, codes |-> codes, zones |-> zones]

Reading(root, a, b) ==
  [p \in {<< >>, <<"a">>, <<"b">>} |-> CASE p = << >> -> root [] p = <<"a">> -> a [] p = <<"b">> -> b]

MCReadings ==
  {Reading(Item({}, Null, << >>, << >>),
           Item({"manual"}, Null, <<"M-1", "M-2">>, <<"zone-a">>),
           Item({}, "plc_xml", << >>, << >>)),
   Reading(Item({}, Null, <<"M-1">>, << >>),
           Item({"manual", "unrelated"}, Null, <<"M-2">>, << >>),
           Item({"photo"}, "photo", <<"M-2">>, <<"zone-a">>))}

MCCorrections ==
  {[class |-> Keep, machine |-> Null, assembly |-> Null], [class |-> "unrelated", machine |-> "M-2", assembly |-> Keep]}
=============================================================================
