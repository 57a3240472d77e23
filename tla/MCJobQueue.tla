----------------------------- MODULE MCJobQueue -----------------------------
(* Model-checking instances of JobQueue: every worker has a worker_id of   *)
(* its own, as a deployment with several replicas must configure.          *)
EXTENDS JobQueue, TLC

CONSTANTS w1, w2

\* Each worker's id is the worker itself.
OwnWorkerId == [w \in {w1, w2} |-> w]

\* Documents, keys and callers are interchangeable in the safety run.
Interchangeable == Permutations(Documents) \cup Permutations(JobIds) \cup Permutations(Callers)
=============================================================================
