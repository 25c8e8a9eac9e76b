------------------------------ MODULE JobPool ------------------------------
(***************************************************************************)
(* What the task queue and its workers promise to the load balancer, and    *)
(* what the load balancer assumes of them: a job is put into the queue once *)
(* by its submitter, leaves it once, and is worked on by one worker, of     *)
(* which there are Workers.  Nothing is said of the order of jobs or of     *)
(* their outcome, and a job may get lost.  TaskQueue and LoadBalancer both  *)
(* implement this module.                                                   *)
(***************************************************************************)
EXTENDS Naturals, FiniteSets

CONSTANTS
  Job,      \* slots for jobs
  Workers   \* number of workers

VARIABLES
  stage,    \* per slot: where its job is
  posting   \* slots whose submitter is inside push_task_to_queue

vars == <<stage, posting>>

Init ==
  /\ stage = [j \in Job |-> "none"]
  /\ posting = {}

WorkerFree == Cardinality({j \in Job : stage[j] = "running"}) < Workers

\* A submitter calls push_task_to_queue.
Begin(j) ==
  /\ stage[j] = "none"
  /\ j \notin posting
  /\ stage' = [stage EXCEPT ![j] = "pushing"]
  /\ posting' = posting \cup {j}

\* It fails before the job is in the queue.
Drop(j) ==
  /\ stage[j] = "pushing"
  /\ stage' = [stage EXCEPT ![j] = "none"]
  /\ posting' = posting \ {j}

\* The job enters the queue.
Enqueue(j) ==
  /\ stage[j] = "pushing"
  /\ stage' = [stage EXCEPT ![j] = "queued"]
  /\ UNCHANGED posting

\* push_task_to_queue returns or raises after that.
Leave(j) ==
  /\ j \in posting
  /\ stage[j] # "pushing"
  /\ posting' = posting \ {j}
  /\ UNCHANGED stage

\* A free worker takes the job, or loses it as it does.
Take(j) ==
  /\ stage[j] = "queued"
  /\ WorkerFree
  /\ \E s \in {"running", "none"} : stage' = [stage EXCEPT ![j] = s]
  /\ UNCHANGED posting

\* The worker is done with the job.
End(j) ==
  /\ stage[j] = "running"
  /\ stage' = [stage EXCEPT ![j] = "none"]
  /\ UNCHANGED posting

\* The process stops: the queue stays, everything else is gone.
Crash ==
  /\ stage' = [j \in Job |-> IF stage[j] = "queued" THEN "queued" ELSE "none"]
  /\ posting' = {}

Next ==
  \/ \E j \in Job :
       Begin(j) \/ Drop(j) \/ Enqueue(j) \/ Leave(j) \/ Take(j) \/ End(j)
  \/ Crash

Spec == Init /\ [][Next]_vars

=============================================================================
