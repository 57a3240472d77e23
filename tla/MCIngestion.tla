---------------------------- MODULE MCIngestion ----------------------------
(* Model-checking instances of Ingestion.                                  *)
EXTENDS Ingestion, TLC

CONSTANTS d1, d2, w1, w2, id, h1, h2

\* The default deployment: every replica runs as worker_id "worker".
SharedWorkerId == [w \in Workers |-> id]

\* Workers of one worker_id are interchangeable.
Interchangeable == Permutations(Workers)

\* Two uploads of the same bytes, and two of different ones.
SameBytes == [d \in Documents |-> h1]
DifferentBytes == [d \in Documents |-> IF d = d1 THEN h1 ELSE h2]
=============================================================================
