---------------------------- MODULE MCRelations ----------------------------
(* d1 and d2 have the same text; d3 is another document about the same matter. *)
EXTENDS Relations

CONSTANTS d1, d2, d3

MCText == (d1 :> "t") @@ (d2 :> "t") @@ (d3 :> "u")

MCSimilarity == ({d1, d2} :> 95) @@ ({d1, d3} :> 97) @@ ({d2, d3} :> 80)

Profile(identifiers, parties, dates) ==
  [identifiers |-> identifiers, parties |-> parties, dates |-> dates]

MCProfiles ==
  (d1 :> {Profile({"case"}, {"acme"}, {"monday"}), Profile({"case"}, {}, {})})
  @@ (d2 :> {Profile({}, {"acme", "bob"}, {})})
  @@ (d3 :> {Profile({"case"}, {"acme", "bob"}, {"monday"})})
=============================================================================
