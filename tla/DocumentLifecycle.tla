------------------------- MODULE DocumentLifecycle -------------------------
(***************************************************************************)
(* What a client of the API may rely on for a document, whatever workers,  *)
(* retries and other requests do: accepted bytes are queued, a queued      *)
(* document settles once as ready or failed, a deleted one never comes     *)
(* back, and no two documents hold the same bytes at a time.  Ingestion    *)
(* implements this specification as long as the answer to a commit is      *)
(* never lost.                                                             *)
(***************************************************************************)
CONSTANTS
  Documents,     (* ids a document may have                                *)
  HashOf         (* the bytes each document holds                          *)

VARIABLE phase   (* what the client sees of each document                  *)

Held(d) == phase[d] \in {"queued", "ready", "failed"}

LifecycleInit == phase = [d \in Documents |-> "absent"]

\* Bytes no document holds are accepted.
Accept(d) ==
  /\ phase[d] = "absent"
  /\ \A e \in Documents : Held(e) => HashOf[e] # HashOf[d]
  /\ phase' = [phase EXCEPT ![d] = "queued"]

\* Processing ends, for better or worse.
Settle(d) ==
  /\ phase[d] = "queued"
  /\ \E outcome \in {"ready", "failed"} : phase' = [phase EXCEPT ![d] = outcome]

\* The owner deletes the document in any phase.
Remove(d) ==
  /\ Held(d)
  /\ phase' = [phase EXCEPT ![d] = "deleted"]

LifecycleNext == \E d \in Documents : Accept(d) \/ Settle(d) \/ Remove(d)

LifecycleSpec == LifecycleInit /\ [][LifecycleNext]_phase
=============================================================================
