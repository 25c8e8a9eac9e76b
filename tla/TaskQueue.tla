----------------------------- MODULE TaskQueue -----------------------------
(***************************************************************************)
(* The task queue: push_task_to_queue (task_service.py), worker_loop and    *)
(* the status records process_job writes (worker.py), and the client that   *)
(* polls them in wait_for_task_result (routes/task_routes.py).              *)
(*                                                                          *)
(* Redis executes one command at a time: a step is one command with the     *)
(* code up to the next one.  A command that raises may have been executed:  *)
(* its answer can be lost.  The answer to SET "queued" is a step of its     *)
(* own, since the client's clock starts when it is there, whereas that of   *)
(* the record starts when Redis executes the command.  A slot t stands for  *)
(* a user and one request of his at a time; it is used again when nothing   *)
(* of the last one is left, since task ids are unique (uuid4).              *)
(*                                                                          *)
(* A definition under a comment "Fault: ..." is no part of the model: it is *)
(* a plausible defect of the definition after it, kept to show that the     *)
(* properties notice it.                                                    *)
(***************************************************************************)
EXTENDS Integers, FiniteSets, QueueScore

CONSTANTS
  Task,              \* slots for tasks
  Priority,          \* per slot: priority of its user
  UpdateTime,        \* per slot: update_time of its user, or NoDate
  MaxQueueSize,      \* settings.max_queue_size
  QueueWaitTimeout,  \* settings.queue_wait_timeout, in seconds
  Workers,           \* number of workers
  MaxClients         \* bound on requests in progress at a time

ASSUME TaskAssumption == IsFiniteSet(Task)

ASSUME UserAssumption == Priority \in [Task -> Nat] /\ UpdateTime \in [Task -> Nat]

ASSUME SizeAssumption ==
  /\ MaxQueueSize \in Nat \ {0}
  /\ QueueWaitTimeout \in Nat \ {0}
  /\ Workers \in Nat \ {0}
  /\ MaxClients \in Nat

VARIABLES
  client,  \* per slot: where its request is
  waited,  \* per slot: seconds since start_time of wait_for_task_result
  age,     \* per slot: seconds since SET "queued" was executed; read by no action
  job,     \* per slot: where its job is
  record   \* per slot: task:<task_id> in Redis

vars == <<client, waited, age, job, record>>

\* Between ZCARD and ZADD; between ZADD and SET "queued"; before the answer to SET;
\* or in wait_for_task_result.
ClientState == {"idle", "adding", "setting", "set", "waiting"}

\* In queue:priority; popped; past SET "processing"; in the except branch of
\* process_job.
JobState == {"none", "queued", "taken", "running", "failing"}

NoRecord == [status |-> "none"]

Record == {NoRecord} \cup
  [status : {"queued", "processing", "completed", "failed"},
   ttl : 1 .. QueueWaitTimeout]

TypeOK ==
  /\ client \in [Task -> ClientState]
  /\ waited \in [Task -> 0 .. QueueWaitTimeout]
  /\ age \in [Task -> 0 .. QueueWaitTimeout]
  /\ job \in [Task -> JobState]
  /\ record \in [Task -> Record]

Init ==
  /\ client = [t \in Task |-> "idle"]
  /\ waited = [t \in Task |-> 0]
  /\ age = [t \in Task |-> 0]
  /\ job = [t \in Task |-> "none"]
  /\ record = [t \in Task |-> NoRecord]

Queue == {t \in Task : job[t] = "queued"}

\* The score with which a task is added to the queue.
Score == [t \in Task |-> CalculateQueueScore(Priority[t], UpdateTime[t])]

Final(r) == r.status \in {"completed", "failed"}

\* Fault: off by one, so that a record lives less long than its client waits.
SavedForLess(status) == [status |-> status, ttl |-> QueueWaitTimeout - 1]

\* What SET with ex=queue_wait_timeout writes.
Saved(status) == [status |-> status, ttl |-> QueueWaitTimeout]

-----------------------------------------------------------------------------
(* push_task_to_queue.                                                     *)

\* Fault: off by one.
QueueFullAboveLimit == Cardinality(Queue) > MaxQueueSize

\* What ZCARD tells: the caller is turned away.
QueueFull == Cardinality(Queue) >= MaxQueueSize

\* The request goes on to another stage.
Goes(t, stage) ==
  /\ client' = [client EXCEPT ![t] = stage]
  /\ UNCHANGED <<waited, age>>

\* The request is over, and its clock with it.
Ends(t) ==
  /\ client' = [client EXCEPT ![t] = "idle"]
  /\ waited' = [waited EXCEPT ![t] = 0]
  /\ age' = [age EXCEPT ![t] = 0]

\* A request gets past the size check.
Admit(t) ==
  /\ client[t] = "idle"
  /\ job[t] = "none"
  /\ record[t] = NoRecord
  /\ Cardinality({u \in Task : client[u] # "idle"}) < MaxClients
  /\ ~QueueFull
  /\ Goes(t, "adding")
  /\ UNCHANGED <<job, record>>

\* ZADD is executed.
Add(t) ==
  /\ client[t] = "adding"
  /\ Goes(t, "setting")
  /\ job' = [job EXCEPT ![t] = "queued"]
  /\ UNCHANGED record

\* ZADD fails; the request ends with an error.
AddFails(t) ==
  /\ client[t] = "adding"
  /\ Ends(t)
  /\ UNCHANGED <<job, record>>

\* SET "queued" is executed, wherever the job is by now: the life of the record
\* begins.
SetQueued(t) ==
  /\ client[t] = "setting"
  /\ Goes(t, "set")
  /\ record' = [record EXCEPT ![t] = Saved("queued")]
  /\ UNCHANGED job

\* Its answer is there, and the wait of wait_for_task_result begins.
BeginWait(t) ==
  /\ client[t] = "set"
  /\ Goes(t, "waiting")
  /\ UNCHANGED <<job, record>>

\* SET "queued" raises, executed or not, or ZADD did after it was executed; the
\* request ends with an error and its job stays.
SetQueuedFails(t) ==
  /\ client[t] \in {"setting", "set"}
  /\ Ends(t)
  /\ UNCHANGED <<job, record>>

-----------------------------------------------------------------------------
(* wait_for_task_result.                                                   *)

\* Fault: neither the time nor a missing record ends the loop.
FinalRecordOnly(t) == Final(record[t])

\* What ends the loop: the time is over (503), the record is gone (503), or it is
\* final (the result, or 500).
LoopEnds(t) ==
  \/ waited[t] >= QueueWaitTimeout
  \/ record[t] = NoRecord
  \/ Final(record[t])

\* An iteration of the loop that ends it; the others change nothing.
Poll(t) ==
  /\ client[t] = "waiting"
  /\ LoopEnds(t)
  /\ Ends(t)
  /\ UNCHANGED <<job, record>>

\* GET raises.
PollFails(t) ==
  /\ client[t] = "waiting"
  /\ Ends(t)
  /\ UNCHANGED <<job, record>>

-----------------------------------------------------------------------------
(* worker_loop and process_job.                                            *)

InWork == {t \in Task : job[t] \in {"taken", "running", "failing"}}

\* Fault: a task whose record has expired is passed over and stays in the queue.
MostUrgentWithRecord(t) ==
  /\ t \in Queue /\ record[t] # NoRecord
  /\ \A u \in Queue : record[u] # NoRecord => Score[t] <= Score[u]

\* What ZPOPMIN may return.  Equal scores are ordered by the text of the member,
\* that is by task id, which is random.
MostUrgent(t) == t \in Queue /\ \A u \in Queue : Score[t] <= Score[u]

\* Fault: a worker takes the next job before it is done with the last one.
TakeAtOnce(t) ==
  /\ MostUrgent(t)
  /\ job' = [job EXCEPT ![t] = "taken"]
  /\ UNCHANGED <<client, waited, age, record>>

\* ZPOPMIN by a worker that is free.
Take(t) ==
  /\ MostUrgent(t)
  /\ Cardinality(InWork) < Workers
  /\ job' = [job EXCEPT ![t] = "taken"]
  /\ UNCHANGED <<client, waited, age, record>>

\* SET "processing"; process_job does not look at what was there.
Start(t) ==
  /\ job[t] = "taken"
  /\ job' = [job EXCEPT ![t] = "running"]
  /\ record' = [record EXCEPT ![t] = Saved("processing")]
  /\ UNCHANGED <<client, waited, age>>

\* The answer to ZPOPMIN is lost, or SET "processing" raises: worker_loop goes on
\* with the next job.
JobLost(t) ==
  /\ job[t] = "taken"
  /\ job' = [job EXCEPT ![t] = "none"]
  /\ \E r \in {record[t], Saved("processing")} :
       record' = [record EXCEPT ![t] = r]
  /\ UNCHANGED <<client, waited, age>>

\* The server has answered: SET "completed".
SaveResult(t) ==
  /\ job[t] = "running"
  /\ job' = [job EXCEPT ![t] = "none"]
  /\ record' = [record EXCEPT ![t] = Saved("completed")]
  /\ UNCHANGED <<client, waited, age>>

\* Fault: the job is started again instead.
RunFailsAndRetries(t) ==
  /\ job[t] = "running"
  /\ job' = [job EXCEPT ![t] = "taken"]
  /\ \E r \in {record[t], Saved("completed")} :
       record' = [record EXCEPT ![t] = r]
  /\ UNCHANGED <<client, waited, age>>

\* The call of the server raises, or SET "completed" does.
RunFails(t) ==
  /\ job[t] = "running"
  /\ job' = [job EXCEPT ![t] = "failing"]
  /\ \E r \in {record[t], Saved("completed")} :
       record' = [record EXCEPT ![t] = r]
  /\ UNCHANGED <<client, waited, age>>

\* SET "failed" succeeds.
SaveFailure(t) ==
  /\ job[t] = "failing"
  /\ job' = [job EXCEPT ![t] = "none"]
  /\ record' = [record EXCEPT ![t] = Saved("failed")]
  /\ UNCHANGED <<client, waited, age>>

\* SET "failed" raises.
SaveFailureFails(t) ==
  /\ job[t] = "failing"
  /\ job' = [job EXCEPT ![t] = "none"]
  /\ \E r \in {record[t], Saved("failed")} : record' = [record EXCEPT ![t] = r]
  /\ UNCHANGED <<client, waited, age>>

-----------------------------------------------------------------------------
(* Time and restarts.                                                      *)

\* Fault: the record does not go away.
OlderForEver(r) == IF r = NoRecord THEN r ELSE [r EXCEPT !.ttl = @ - 1]

\* A record after a second.
Older(r) ==
  IF r = NoRecord \/ r.ttl = 1 THEN NoRecord ELSE [r EXCEPT !.ttl = @ - 1]

\* A clock after a second, as far as anything asks for it.
Later(seconds) == IF seconds < QueueWaitTimeout THEN seconds + 1 ELSE seconds

Tick ==
  /\ waited' = [t \in Task |-> IF client[t] = "waiting" THEN Later(waited[t])
                                                       ELSE waited[t]]
  /\ age' = [t \in Task |-> IF client[t] \in {"set", "waiting"} THEN Later(age[t])
                                                               ELSE age[t]]
  /\ record' = [t \in Task |-> Older(record[t])]
  /\ UNCHANGED <<client, job>>

\* The process stops and starts again; Redis keeps the queue and the records.  A
\* worker that shutdown cancels writes no record: CancelledError passes by the
\* except branch of process_job.
Restart ==
  /\ client' = [t \in Task |-> "idle"]
  /\ waited' = [t \in Task |-> 0]
  /\ age' = [t \in Task |-> 0]
  /\ job' = [t \in Task |-> IF job[t] = "queued" THEN "queued" ELSE "none"]
  /\ UNCHANGED record

ClientStep(t) == Admit(t) \/ Add(t) \/ SetQueued(t) \/ BeginWait(t) \/ Poll(t)

WorkerStep(t) == Start(t) \/ SaveResult(t) \/ RunFails(t) \/ SaveFailure(t)

\* Steps in which Redis fails.
RedisFails(t) ==
  \/ AddFails(t)
  \/ SetQueuedFails(t)
  \/ PollFails(t)
  \/ JobLost(t)
  \/ SaveFailureFails(t)

Next ==
  \/ \E t \in Task : ClientStep(t) \/ Take(t) \/ WorkerStep(t) \/ RedisFails(t)
  \/ Tick
  \/ Restart

Spec == Init /\ [][Next]_vars

\* Seconds pass; the event loop resumes a client that polls; a worker polls the
\* queue and gets on with its job, one way or another, since its calls time out.
Fairness ==
  /\ WF_vars(Tick)
  /\ WF_vars(\E t \in Task : Take(t))
  /\ \A t \in Task :
       /\ WF_vars(Poll(t))
       /\ WF_vars(WorkerStep(t) \/ JobLost(t) \/ SaveFailureFails(t))

LiveSpec == Spec /\ Fairness

-----------------------------------------------------------------------------
(* Properties.                                                             *)

\* ZCARD and ZADD are two commands, so that requests that have passed the check
\* together all add their tasks.  The queue exceeds its limit, the "maximum length
\* of the queue" (config.py:27), by less than the number of requests in
\* progress, though tasks of requests that are over remain in it.
QueueBounded == Cardinality(Queue) <= MaxQueueSize - 1 + MaxClients

\* The life of a record starts when SET "queued" is executed, its client's clock
\* when the answer is there, and nothing bounds the time between
\* (task_service.py:92-96, task_routes.py:257).  A missing record (task_routes.py:274)
\* can therefore end a wait before queue_wait_timeout is over, but only when it is
\* over for the record's clock, whatever the worker writes and fails to write
\* meanwhile.
RecordOutlivesWait ==
  \A t \in Task : (client[t] = "waiting" /\ record[t] = NoRecord)
                    => age[t] >= QueueWaitTimeout

\* While the client waits, a final status does not become "queued" or
\* "processing" again, in whatever order submitter and worker write and fail.
FinalStatusKept ==
  [][\A t \in Task : (client[t] = "waiting" /\ Final(record[t]))
       => (record'[t] = NoRecord \/ Final(record'[t]))]_vars

\* A waiting client is answered, although its job may be lost, stuck or still in
\* the queue.
ClientAnswered == \A t \in Task : []<>(client[t] # "waiting")

\* The only task with the least score is taken from the queue, however many
\* others are submitted.
FirstInLineServed ==
  \A t \in Task : (\A u \in Task \ {t} : Score[t] < Score[u])
                    => []<>(job[t] # "queued")

\* ZPOPMIN returns t.
Taken(t) == job[t] = "queued" /\ job'[t] = "taken"

\* push_task_to_queue's rules (task_service.py:18-20, 49-51), as far as the scores
\* keep them: whoever is taken from the queue, nobody stays behind who has the same
\* priority and a newer date, or any date when the one taken has none, and nobody
\* more urgent, if both have dates.
ServedInOrder ==
  [][\A t, u \in Task : Taken(t) /\ u \in Queue =>
       /\ Priority[t] = Priority[u] => UpdateTime[t] >= UpdateTime[u]
       /\ UpdateTime[t] # NoDate /\ UpdateTime[u] # NoDate
            => Priority[t] <= Priority[u]]_vars

Stage(t) ==
  CASE client[t] = "adding" -> "pushing"
    [] job[t] = "queued" -> "queued"
    [] t \in InWork -> "running"
    [] OTHER -> "none"

Pool == INSTANCE JobPool WITH
  Job <- Task,
  stage <- [t \in Task |-> Stage(t)],
  posting <- {t \in Task : client[t] \in {"adding", "setting", "set"}}

\* The queue does what the load balancer assumes of it: each job enters once,
\* leaves once and has one worker.
ImplementsJobPool == Pool!Spec

-----------------------------------------------------------------------------
(* What comments and a test say and the code does not do.                  *)

\* "Multiplied by 1e15 so that priority is the most important factor"
\* (task_service.py:30), whatever the dates: nobody more urgent stays behind.
PriorityFirst ==
  [][\A t, u \in Task : Taken(t) /\ u \in Queue => Priority[t] <= Priority[u]]_vars

\* "Worker checks the status of the task to tell whether it has timed out"
\* (tests/test_queue_capacity.py:110-111): a task whose record is gone is not
\* processed.
ExpiredTaskNotProcessed ==
  [][\A t \in Task :
       (client[t] = "idle" /\ job[t] = "taken" /\ record[t] = NoRecord)
         => job'[t] # "running"]_vars

\* The response is stored for the client to get (worker.py:240): it stays until it
\* expires.
ResponseStaysStored ==
  [][\A t \in Task : (record[t].status = "completed" /\ record[t].ttl > 1)
       => record'[t].status = "completed"]_vars

=============================================================================
