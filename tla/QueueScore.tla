---------------------------- MODULE QueueScore ------------------------------
(***************************************************************************)
(* calculate_queue_score (task_service.py:14-42): the score that orders the *)
(* task queue, the least first.                                             *)
(*                                                                          *)
(* The code computes with floats, in microseconds.  update_time is a        *)
(* DATETIME, so that scores that differ do so by 10^6 at least; they stay   *)
(* below 10^18, where rounding changes them by 64 at most: the order of the *)
(* floats is that of the integers here.                                     *)
(***************************************************************************)
EXTENDS Integers

CONSTANT PriorityWeight  \* the 1e15 of the code, in units of update time

ASSUME WeightAssumption == PriorityWeight \in Nat \ {0}

NoDate == 0  \* update_time is None, or was not set

\* Fault: the sign is lost, so that the oldest account comes first.
OldestFirst(priority, updateTime) == priority * PriorityWeight + updateTime

\* The less priority is, the more urgent; then, the newer update_time is.  NoDate
\* stands for the default that the code sets, a score of 0.
CalculateQueueScore(priority, updateTime) ==
  priority * PriorityWeight - updateTime

=============================================================================
