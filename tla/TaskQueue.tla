----------------------------- MODULE TaskQueue -----------------------------
(***************************************************************************)
(* What the job queue promises to its users, without sessions, locks,      *)
(* transactions or clocks: a task is submitted once for its subject, every *)
(* start uses up a try, a task with tries left may be put back, and a task *)
(* ends exactly once.  JobQueue implements this specification.             *)
(***************************************************************************)
EXTENDS Naturals

CONSTANTS
  Tasks,         (* tasks that may ever be submitted                       *)
  Subjects,      (* what a task is about                                   *)
  MaxTries,      (* how often a task may be started                        *)
  NoSubject      (* the subject of a task that was never submitted         *)

VARIABLES stage, tries, subject

taskVars == <<stage, tries, subject>>

Active(t) == stage[t] \in {"queued", "processing"}

TaskInit ==
  /\ stage = [t \in Tasks |-> "absent"]
  /\ tries = [t \in Tasks |-> 0]
  /\ subject = [t \in Tasks |-> NoSubject]

\* A new task, for a subject that has no active one.
Submit(t, x) ==
  /\ stage[t] = "absent"
  /\ \A u \in Tasks : Active(u) => subject[u] # x
  /\ stage' = [stage EXCEPT ![t] = "queued"]
  /\ subject' = [subject EXCEPT ![t] = x]
  /\ UNCHANGED tries

\* Some queued tasks are started together; each start is one more try.
Start(S) ==
  /\ \A t \in S : stage[t] = "queued" /\ tries[t] < MaxTries
  /\ stage' = [t \in Tasks |-> IF t \in S THEN "processing" ELSE stage[t]]
  /\ tries' = [t \in Tasks |-> IF t \in S THEN tries[t] + 1 ELSE tries[t]]
  /\ UNCHANGED subject

\* A started task ends, or is put back while tries are left.
EndTask(t) ==
  /\ stage[t] = "processing"
  /\ \/ stage' = [stage EXCEPT ![t] = "finished"]
     \/ tries[t] < MaxTries /\ stage' = [stage EXCEPT ![t] = "queued"]
     \/ tries[t] = MaxTries /\ stage' = [stage EXCEPT ![t] = "failed"]
  /\ UNCHANGED <<tries, subject>>

TaskNext ==
  \/ \E t \in Tasks, x \in Subjects : Submit(t, x)
  \/ \E S \in SUBSET Tasks : Start(S)
  \/ \E t \in Tasks : EndTask(t)

TaskSpec == TaskInit /\ [][TaskNext]_taskVars
=============================================================================
