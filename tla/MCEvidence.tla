----------------------------- MODULE MCEvidence -----------------------------
(* An archive, read with a signal that a revision changes, with two signals  *)
(* that share a comment, and a document that is no archive.                  *)
EXTENDS Evidence

CONSTANTS zip, pdf

Mention(name, role, comment, value, zone) ==
  [name |-> name, role |-> role, comment |-> comment, value |-> value, zone |-> zone]

MCReadings ==
  (zip :> {<<Mention("a", "current", Null, "new", Null), Mention("a", "superseded", Null, "old", Null)>>,
          <<Mention("a", "mention", "c", "new", "zone-a"), Mention("b", "mention", "c", "new", Null)>>})
  @@ (pdf :> {})
=============================================================================
