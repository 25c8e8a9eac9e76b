---------------------------- MODULE MCTaskQueue ----------------------------
(***************************************************************************)
(* TaskQueue for TLC.                                                       *)
(***************************************************************************)
EXTENDS TaskQueue, TLC

\* Dates count 10^8 seconds, so that PriorityWeight is 10.  Three users:
\* the second is newer than the first, but less urgent; the third has no date.
Priorities == <<1, 2, 2>>

Dates == <<17, 18, NoDate>>

\* The accounts the database comes with (sql/sys_user.sql:27-29).
SqlPriorities == <<1, 5, 2>>

SqlDates == <<NoDate, 17, 17>>

\* Redis never fails, and a second passes only while no worker that is free could
\* take a job (workers poll the queue a hundred times a second) and none is about
\* to start the job it has taken.
PromptNext ==
  \/ \E t \in Task :
       \/ ClientStep(t) \/ Take(t) \/ Start(t) \/ SaveResult(t) \/ SaveFailure(t)
       \/ RunFails(t) /\ UNCHANGED record
  \/ /\ Queue = {} \/ Cardinality(InWork) >= Workers
     /\ \A t \in InWork : job[t] # "taken"
     /\ Tick

PromptSpec == Init /\ [][PromptNext]_vars

=============================================================================
