-------------------------- MODULE TaskQueueProofs --------------------------
(***************************************************************************)
(* Theorems about TaskQueue, for every set of slots, every limit of the     *)
(* queue, every timeout and every number of workers and clients.            *)
(***************************************************************************)
EXTENDS TaskQueue, FiniteSetTheorems, TLAPS

Adding == {t \in Task : client[t] = "adding"}

\* A client that has passed the size check has a place in the bound of the queue.
QueueRoom ==
  Cardinality(Queue) + Cardinality(Adding) <= MaxQueueSize - 1 + MaxClients

\* What is left of the life of a record and the time since SET "queued" add up, from
\* the moment the command is executed until the request is over.
RecordLife ==
  \A t \in Task : client[t] \in {"set", "waiting"} =>
    \/ record[t] = NoRecord /\ age[t] >= QueueWaitTimeout
    \/ record[t] # NoRecord /\ record[t].ttl + age[t] >= QueueWaitTimeout

\* A job that is still to be run has no final record.
NotYetFinal ==
  \A t \in Task : job[t] \in {"queued", "taken", "running"} => ~Final(record[t])

\* Before ZADD there is neither job nor record.
NothingBeforeAdd ==
  \A t \in Task : client[t] = "adding" => (job[t] = "none" /\ record[t] = NoRecord)

IInv ==
  /\ TypeOK
  /\ QueueRoom
  /\ RecordLife
  /\ NotYetFinal
  /\ NothingBeforeAdd

-----------------------------------------------------------------------------
(* Records.                                                                *)

\* What a SET writes lives for the whole timeout.
LEMMA SavedProperties ==
  ASSUME NEW s \in {"queued", "processing", "completed", "failed"}
  PROVE  /\ Saved(s) \in Record
         /\ Saved(s) # NoRecord
         /\ Saved(s).ttl = QueueWaitTimeout
         /\ Saved(s).status = s
  <1>1. Saved(s).status = s /\ Saved(s).ttl = QueueWaitTimeout
    BY DEF Saved
  <1>2. NoRecord.status = "none"
    BY DEF NoRecord
  <1>3. QueueWaitTimeout \in 1 .. QueueWaitTimeout
    BY SizeAssumption
  <1>4. Saved(s) \in Record
    BY <1>3 DEF Saved, Record
  <1> QED
    BY <1>1, <1>2, <1>4

\* A second takes a record away or a second off its life; its status stays.
LEMMA OlderProperties ==
  ASSUME NEW r \in Record
  PROVE  /\ Older(r) \in Record
         /\ Older(r) # NoRecord =>
              /\ r # NoRecord
              /\ Older(r).status = r.status
              /\ Older(r).ttl = r.ttl - 1
         /\ (Older(r) = NoRecord /\ r # NoRecord) => r.ttl = 1
  <1>1. CASE r = NoRecord
    BY <1>1 DEF Older
  <1>2. CASE r # NoRecord
    <2>1. /\ r \in [status : {"queued", "processing", "completed", "failed"},
                    ttl : 1 .. QueueWaitTimeout]
          /\ r.ttl \in 1 .. QueueWaitTimeout
      BY <1>2 DEF Record
    <2>2. CASE r.ttl = 1
      BY <1>2, <2>2 DEF Older, Record
    <2>3. CASE r.ttl # 1
      <3>1. Older(r) = [r EXCEPT !.ttl = r.ttl - 1]
        BY <1>2, <2>3 DEF Older
      <3>2. r.ttl - 1 \in 1 .. QueueWaitTimeout
        BY <2>1, <2>3, SizeAssumption
      <3>3. /\ Older(r) \in [status : {"queued", "processing", "completed", "failed"},
                              ttl : 1 .. QueueWaitTimeout]
            /\ Older(r).status = r.status
            /\ Older(r).ttl = r.ttl - 1
        BY <2>1, <3>1, <3>2
      <3>4. Older(r) # NoRecord
        BY <2>1, <3>3 DEF NoRecord
      <3> QED
        BY <1>2, <3>3, <3>4 DEF Record
    <2> QED
      BY <2>2, <2>3
  <1> QED
    BY <1>1, <1>2

\* Only Saved("completed") and Saved("failed") among what is written are final.
LEMMA FinalProperties ==
  /\ ~Final(NoRecord)
  /\ ~Final(Saved("queued")) /\ ~Final(Saved("processing"))
  /\ Final(Saved("completed")) /\ Final(Saved("failed"))
  BY DEF Final, NoRecord, Saved

-----------------------------------------------------------------------------
(* The size of the queue.                                                  *)

LEMMA QueueFinite ==
  /\ IsFiniteSet(Queue) /\ Cardinality(Queue) \in Nat
  /\ IsFiniteSet(Adding) /\ Cardinality(Adding) \in Nat
  BY TaskAssumption, FS_Subset, FS_CardinalityType DEF Queue, Adding

\* A step that puts nothing into the queue and lets nobody pass the size check.
LEMMA RoomKept ==
  ASSUME QueueRoom, Queue' \subseteq Queue, Adding' \subseteq Adding
  PROVE  QueueRoom'
  <1>1. /\ Cardinality(Queue') \in Nat /\ Cardinality(Queue') <= Cardinality(Queue)
        /\ Cardinality(Adding') \in Nat
        /\ Cardinality(Adding') <= Cardinality(Adding)
    BY QueueFinite, FS_Subset, FS_CardinalityType
  <1> QED
    BY <1>1, QueueFinite, SizeAssumption DEF QueueRoom

\* The size check leaves room for all clients that pass it together.
LEMMA RoomForAdmitted ==
  ASSUME NEW t \in Task, TypeOK, Admit(t)
  PROVE  QueueRoom'
  <1> DEFINE Active == {u \in Task : client[u] # "idle"}
  <1>1. IsFiniteSet(Active) /\ Cardinality(Active) \in Nat
    BY TaskAssumption, FS_Subset, FS_CardinalityType
  <1>2. t \notin Active /\ Cardinality(Active) < MaxClients
    BY DEF Admit
  <1>3. /\ IsFiniteSet(Active \cup {t})
        /\ Cardinality(Active \cup {t}) = Cardinality(Active) + 1
    BY <1>1, <1>2, FS_AddElement
  <1>4. Adding' \subseteq Active \cup {t}
    BY DEF Admit, Goes, Adding, TypeOK
  <1>5. /\ Cardinality(Adding') \in Nat
        /\ Cardinality(Adding') <= Cardinality(Active) + 1
    BY <1>3, <1>4, FS_Subset, FS_CardinalityType
  <1>6. Queue' = Queue
    BY DEF Admit, Goes, Queue
  <1>7. Cardinality(Queue) <= MaxQueueSize - 1
    BY QueueFinite, SizeAssumption DEF Admit, QueueFull
  <1> QED
    BY <1>1, <1>2, <1>5, <1>6, <1>7, QueueFinite, SizeAssumption DEF QueueRoom

\* ZADD turns a client that has passed the check into a task in the queue.
LEMMA RoomUsed ==
  ASSUME NEW t \in Task, TypeOK, QueueRoom, Add(t)
  PROVE  QueueRoom'
  <1>1. t \in Adding
    BY DEF Add, Adding
  <1>2. Adding' = Adding \ {t}
    BY DEF Add, Goes, Adding, TypeOK
  <1>3. Queue' = Queue \cup {t}
    BY DEF Add, Goes, Queue, TypeOK
  <1>4. Cardinality(Adding') = Cardinality(Adding) - 1
    BY <1>1, <1>2, QueueFinite, FS_RemoveElement
  <1>5. /\ Cardinality(Queue') \in Nat
        /\ Cardinality(Queue') <= Cardinality(Queue) + 1
    <2>1. IsFiniteSet(Queue \cup {t})
      BY QueueFinite, FS_AddElement
    <2>2. Cardinality(Queue \cup {t}) \in Nat
      BY <2>1, FS_CardinalityType
    <2>3. Cardinality(Queue \cup {t}) \in {Cardinality(Queue), Cardinality(Queue) + 1}
      BY QueueFinite, FS_AddElement
    <2> QED
      BY <1>3, <2>2, <2>3, QueueFinite
  <1> QED
    BY <1>4, <1>5, QueueFinite, SizeAssumption DEF QueueRoom

-----------------------------------------------------------------------------
(* The inductive invariant.                                                *)

LEMMA InitIInv == Init => IInv
  <1> SUFFICES ASSUME Init PROVE IInv
    OBVIOUS
  <1>1. TypeOK
    BY SizeAssumption DEF Init, TypeOK, ClientState, JobState, Record
  <1>2. Queue = {} /\ Adding = {}
    BY DEF Init, Queue, Adding
  <1>3. QueueRoom
    BY <1>2, FS_EmptySet, SizeAssumption DEF QueueRoom
  <1>4. RecordLife /\ NotYetFinal /\ NothingBeforeAdd
    BY DEF Init, RecordLife, NotYetFinal, NothingBeforeAdd
  <1> QED
    BY <1>1, <1>3, <1>4 DEF IInv

\* A step of push_task_to_queue or of wait_for_task_result.
LEMMA ClientKeeps ==
  ASSUME IInv, NEW t \in Task,
         ClientStep(t) \/ AddFails(t) \/ SetQueuedFails(t) \/ PollFails(t)
  PROVE  IInv'
  <1> USE DEF IInv
  <1>1. CASE Admit(t)
    <2>1. TypeOK' /\ RecordLife' /\ NotYetFinal' /\ NothingBeforeAdd'
      BY <1>1 DEF Admit, Goes, TypeOK, ClientState, RecordLife, NotYetFinal,
                  NothingBeforeAdd
    <2> QED
      BY <1>1, <2>1, RoomForAdmitted
  <1>2. CASE Add(t)
    <2>1. TypeOK' /\ RecordLife' /\ NotYetFinal' /\ NothingBeforeAdd'
      BY <1>2, FinalProperties
         DEF Add, Goes, TypeOK, ClientState, JobState, RecordLife, NotYetFinal,
             NothingBeforeAdd
    <2> QED
      BY <1>2, <2>1, RoomUsed
  <1>3. CASE AddFails(t)
    <2>1. TypeOK' /\ RecordLife' /\ NotYetFinal' /\ NothingBeforeAdd'
      BY <1>3, SizeAssumption DEF AddFails, Ends, TypeOK, ClientState, RecordLife, NotYetFinal,
                  NothingBeforeAdd
    <2>2. Queue' \subseteq Queue /\ Adding' \subseteq Adding
      BY <1>3 DEF AddFails, Ends, TypeOK, Queue, Adding
    <2> QED
      BY <2>1, <2>2, RoomKept
  <1>4. CASE SetQueued(t)
    <2>1. TypeOK'
      BY <1>4, SavedProperties, SizeAssumption DEF SetQueued, Goes, TypeOK, ClientState
    <2>2. RecordLife' /\ NotYetFinal' /\ NothingBeforeAdd'
      BY <1>4, SavedProperties, FinalProperties, SizeAssumption
         DEF SetQueued, Goes, TypeOK, RecordLife, NotYetFinal, NothingBeforeAdd
    <2>3. Queue' \subseteq Queue /\ Adding' \subseteq Adding
      BY <1>4 DEF SetQueued, Goes, TypeOK, Queue, Adding
    <2> QED
      BY <2>1, <2>2, <2>3, RoomKept
  <1>5. CASE SetQueuedFails(t)
    <2>1. TypeOK'
      BY <1>5, SizeAssumption DEF SetQueuedFails, Ends, TypeOK, ClientState
    <2>2. RecordLife' /\ NotYetFinal' /\ NothingBeforeAdd'
      BY <1>5 DEF SetQueuedFails, Ends, TypeOK, RecordLife, NotYetFinal, NothingBeforeAdd
    <2>3. Queue' \subseteq Queue /\ Adding' \subseteq Adding
      BY <1>5 DEF SetQueuedFails, Ends, TypeOK, Queue, Adding
    <2> QED
      BY <2>1, <2>2, <2>3, RoomKept
  <1>6. CASE Poll(t) \/ PollFails(t)
    <2>1. TypeOK' /\ RecordLife' /\ NotYetFinal' /\ NothingBeforeAdd'
      BY <1>6, SizeAssumption DEF Poll, PollFails, Ends, TypeOK, ClientState, RecordLife, NotYetFinal,
                  NothingBeforeAdd
    <2>2. Queue' \subseteq Queue /\ Adding' \subseteq Adding
      BY <1>6 DEF Poll, PollFails, Ends, TypeOK, Queue, Adding
    <2> QED
      BY <2>1, <2>2, RoomKept
  <1>7. CASE BeginWait(t)
    <2>1. TypeOK' /\ RecordLife' /\ NotYetFinal' /\ NothingBeforeAdd'
      BY <1>7 DEF BeginWait, Goes, TypeOK, ClientState, RecordLife, NotYetFinal,
                  NothingBeforeAdd
    <2>2. Queue' \subseteq Queue /\ Adding' \subseteq Adding
      BY <1>7 DEF BeginWait, Goes, TypeOK, Queue, Adding
    <2> QED
      BY <2>1, <2>2, RoomKept
  <1> QED
    BY <1>1, <1>2, <1>3, <1>4, <1>5, <1>6, <1>7 DEF ClientStep

\* A step of a worker: the job moves on, and its record is written anew or left.
LEMMA WorkerKeeps ==
  ASSUME IInv, NEW t \in Task,
         Take(t) \/ WorkerStep(t) \/ JobLost(t) \/ SaveFailureFails(t)
  PROVE  IInv'
  <1> USE DEF IInv
  <1>1. PICK s \in {"processing", "completed", "failed"}, w \in BOOLEAN,
             j \in JobState :
          /\ job[t] # "none" /\ j # "queued"
          /\ job' = [job EXCEPT ![t] = j]
          /\ record' = [record EXCEPT ![t] = IF w THEN Saved(s) ELSE record[t]]
          /\ UNCHANGED <<client, waited, age>>
          /\ w /\ s # "processing" => j \notin {"taken", "running"}
          /\ ~w /\ j \in {"taken", "running"} => job[t] \in {"queued", "taken"}
    <2>1. CASE Take(t)
      BY <2>1 DEF Take, MostUrgent, Queue, JobState, TypeOK
    <2>2. CASE Start(t)
      BY <2>2 DEF Start, JobState
    <2>3. CASE JobLost(t)
      BY <2>3 DEF JobLost, JobState
    <2>4. CASE SaveResult(t)
      BY <2>4 DEF SaveResult, JobState
    <2>5. CASE RunFails(t)
      BY <2>5 DEF RunFails, JobState
    <2>6. CASE SaveFailure(t)
      BY <2>6 DEF SaveFailure, JobState
    <2>7. CASE SaveFailureFails(t)
      BY <2>7 DEF SaveFailureFails, JobState
    <2> QED
      BY <2>1, <2>2, <2>3, <2>4, <2>5, <2>6, <2>7 DEF WorkerStep
  <1>2. TypeOK'
    BY <1>1, SavedProperties DEF TypeOK
  <1>3. RecordLife'
    BY <1>1, SavedProperties, SizeAssumption DEF TypeOK, RecordLife
  <1>4. NotYetFinal'
    BY <1>1, FinalProperties DEF TypeOK, NotYetFinal
  <1>5. NothingBeforeAdd'
    BY <1>1 DEF TypeOK, NothingBeforeAdd
  <1>6. Queue' \subseteq Queue /\ Adding' \subseteq Adding
    BY <1>1 DEF TypeOK, Queue, Adding
  <1> QED
    BY <1>2, <1>3, <1>4, <1>5, <1>6, RoomKept

\* A second passes.
LEMMA TickKeeps ==
  ASSUME IInv, Tick
  PROVE  IInv'
  <1> USE DEF IInv
  <1>1. TypeOK'
    <2>1. \A n \in 0 .. QueueWaitTimeout : Later(n) \in 0 .. QueueWaitTimeout
      BY SizeAssumption DEF Later
    <2> QED
      BY <2>1, OlderProperties DEF Tick, TypeOK
  <1>2. RecordLife'
    <2> SUFFICES ASSUME NEW t \in Task, client'[t] \in {"set", "waiting"}
                 PROVE  \/ record'[t] = NoRecord /\ age'[t] >= QueueWaitTimeout
                        \/ /\ record'[t] # NoRecord
                           /\ record'[t].ttl + age'[t] >= QueueWaitTimeout
      BY DEF RecordLife
    <2>1. /\ client[t] \in {"set", "waiting"} /\ record[t] \in Record
          /\ record'[t] = Older(record[t])
          /\ age[t] \in 0 .. QueueWaitTimeout
          /\ age'[t] = IF age[t] < QueueWaitTimeout THEN age[t] + 1 ELSE age[t]
      BY DEF Tick, TypeOK, Later
    <2>2. record[t] # NoRecord => record[t].ttl \in 1 .. QueueWaitTimeout
      BY <2>1 DEF Record
    <2>3. \/ record[t] = NoRecord /\ age[t] >= QueueWaitTimeout
          \/ record[t] # NoRecord /\ record[t].ttl + age[t] >= QueueWaitTimeout
      BY <2>1 DEF RecordLife
    <2> QED
      BY <2>1, <2>2, <2>3, OlderProperties, SizeAssumption
  <1>3. NotYetFinal'
    BY OlderProperties, FinalProperties DEF Tick, TypeOK, NotYetFinal, Final
  <1>4. NothingBeforeAdd'
    BY DEF Tick, TypeOK, NothingBeforeAdd, Older
  <1>5. Queue' \subseteq Queue /\ Adding' \subseteq Adding
    BY DEF Tick, Queue, Adding
  <1> QED
    BY <1>1, <1>2, <1>3, <1>4, <1>5, RoomKept

\* The process starts again.
LEMMA RestartKeeps ==
  ASSUME IInv, Restart
  PROVE  IInv'
  <1> USE DEF IInv
  <1>1. TypeOK' /\ RecordLife' /\ NotYetFinal' /\ NothingBeforeAdd'
    BY SizeAssumption DEF Restart, TypeOK, ClientState, JobState, RecordLife, NotYetFinal,
           NothingBeforeAdd
  <1>2. Queue' \subseteq Queue /\ Adding' \subseteq Adding
    BY DEF Restart, TypeOK, Queue, Adding
  <1> QED
    BY <1>1, <1>2, RoomKept

LEMMA NextIInv == IInv /\ [Next]_vars => IInv'
  <1> SUFFICES ASSUME IInv, [Next]_vars PROVE IInv'
    OBVIOUS
  <1>1. CASE UNCHANGED vars
    <2>1. Queue' = Queue /\ Adding' = Adding
      BY <1>1 DEF vars, Queue, Adding
    <2> QED
      BY <1>1, <2>1 DEF vars, IInv, TypeOK, QueueRoom, RecordLife, NotYetFinal,
                        NothingBeforeAdd
  <1>2. CASE Next
    BY <1>2, ClientKeeps, WorkerKeeps, TickKeeps, RestartKeeps
       DEF Next, RedisFails
  <1> QED
    BY <1>1, <1>2

\* The invariants of the queue, its records and its clients hold together: none of
\* them is inductive alone.
THEOREM Invariance == Spec => []IInv
  BY InitIInv, NextIInv, PTL DEF Spec

\* Type correctness.
THEOREM TypeCorrect == Spec => []TypeOK
  <1>1. IInv => TypeOK
    BY DEF IInv
  <1> QED
    BY <1>1, Invariance, PTL

\* The queue exceeds its limit by less than the number of requests in progress
\* (task_service.py:59-60 and 86 are two commands).
THEOREM QueueStaysBounded == Spec => []QueueBounded
  <1>1. IInv => QueueBounded
    BY QueueFinite, SizeAssumption DEF IInv, QueueRoom, QueueBounded
  <1> QED
    BY <1>1, Invariance, PTL

\* No record expires before queue_wait_timeout has passed since SET "queued" was
\* executed, however late the client's own clock starts: a wait that a missing record
\* ends is too short by at most the time the answer to SET took.
THEOREM NoEarlyExpiry == Spec => []RecordOutlivesWait
  <1>1. IInv => RecordOutlivesWait
    BY DEF IInv, RecordLife, RecordOutlivesWait
  <1> QED
    BY <1>1, Invariance, PTL

\* A final status stays final while the client waits.
THEOREM FinalStays == Spec => FinalStatusKept
  <1> DEFINE Keeps ==
        \A t \in Task : (client[t] = "waiting" /\ Final(record[t]))
          => (record'[t] = NoRecord \/ Final(record'[t]))
  <1>1. IInv /\ [Next]_vars => [Keeps]_vars
    <2> SUFFICES ASSUME IInv, Next, NEW t \in Task,
                        client[t] = "waiting", Final(record[t])
                 PROVE  record'[t] = NoRecord \/ Final(record'[t])
      OBVIOUS
    <2>1. CASE Tick
      <3>1. record'[t] = Older(record[t]) /\ record[t] \in Record
        BY <2>1 DEF Tick, IInv, TypeOK
      <3> QED
        BY <3>1, OlderProperties DEF Final
    <2>2. CASE Restart
      BY <2>2 DEF Restart
    <2>3. ASSUME NEW u \in Task,
                 ClientStep(u) \/ Take(u) \/ WorkerStep(u) \/ RedisFails(u)
          PROVE  record'[t] = NoRecord \/ Final(record'[t])
      <3>1. job[t] \notin {"queued", "taken", "running"}
        BY DEF IInv, NotYetFinal
      <3> QED
        BY <2>3, <3>1, FinalProperties
           DEF IInv, TypeOK, ClientStep, WorkerStep, RedisFails, Admit, Add,
               SetQueued, BeginWait, Goes, Ends, Poll, Take, Start, SaveResult, RunFails, SaveFailure,
               AddFails, SetQueuedFails, PollFails, JobLost, SaveFailureFails
    <2> QED
      BY <2>1, <2>2, <2>3 DEF Next
  <1>2. Spec => [][Keeps]_vars
    BY <1>1, Invariance, PTL DEF Spec
  <1> QED
    BY <1>2 DEF FinalStatusKept

-----------------------------------------------------------------------------
(* The order of the queue.                                                 *)

\* No two dates are as far apart as a level of priority is wide: less than 10^9
\* seconds, 31 years.
DatesClose ==
  \A t, u \in Task : (UpdateTime[t] # NoDate /\ UpdateTime[u] # NoDate)
                       => UpdateTime[t] - UpdateTime[u] < PriorityWeight

\* A level of priority is as wide as PriorityWeight.
LEMMA WeightOfLevels ==
  ASSUME NEW p \in Nat, NEW q \in Nat, q < p
  PROVE  q * PriorityWeight + PriorityWeight <= p * PriorityWeight
  <1>1. PriorityWeight \in Nat
    BY WeightAssumption
  <1>2. PICK n \in Nat : p = q + 1 + n
    <2>1. p - q - 1 \in Nat /\ p = q + 1 + (p - q - 1)
      OBVIOUS
    <2> QED
      BY <2>1
  <1>3. p * PriorityWeight
          = q * PriorityWeight + PriorityWeight + n * PriorityWeight
    BY <1>1, <1>2
  <1>4. q * PriorityWeight \in Nat /\ n * PriorityWeight \in Nat
    BY <1>1
  <1> QED
    BY <1>1, <1>3, <1>4

\* What a score that is not greater says about the two users.
LEMMA ScoreOrder ==
  ASSUME NEW t \in Task, NEW u \in Task, Score[t] <= Score[u], DatesClose
  PROVE  /\ Priority[t] = Priority[u] => UpdateTime[t] >= UpdateTime[u]
         /\ UpdateTime[t] # NoDate /\ UpdateTime[u] # NoDate
              => Priority[t] <= Priority[u]
  <1> DEFINE W(x) == Priority[x] * PriorityWeight
  <1>1. \A x \in Task : Priority[x] \in Nat /\ UpdateTime[x] \in Nat
    BY UserAssumption
  <1>2. PriorityWeight \in Nat
    BY WeightAssumption
  <1>3. W(t) \in Nat /\ W(u) \in Nat
    BY <1>1, <1>2
  <1>4. W(t) - UpdateTime[t] <= W(u) - UpdateTime[u]
    BY DEF Score, CalculateQueueScore
  <1>5. Priority[t] = Priority[u] => W(t) = W(u)
    OBVIOUS
  <1>6. Priority[u] < Priority[t] => W(u) + PriorityWeight <= W(t)
    BY <1>1, WeightOfLevels
  <1>7. (UpdateTime[t] # NoDate /\ UpdateTime[u] # NoDate)
          => UpdateTime[t] - UpdateTime[u] < PriorityWeight
    BY DEF DatesClose
  <1> HIDE DEF W
  <1> QED
    BY <1>1, <1>2, <1>3, <1>4, <1>5, <1>6, <1>7

\* Users whose dates are close are served by priority, and the newest first within
\* one; those without a date come last within theirs.
THEOREM UsersServedInOrder == DatesClose => (Spec => ServedInOrder)
  <1> SUFFICES ASSUME DatesClose PROVE Spec => ServedInOrder
    OBVIOUS
  <1> DEFINE InOrder ==
        \A t, u \in Task : Taken(t) /\ u \in Queue =>
          /\ Priority[t] = Priority[u] => UpdateTime[t] >= UpdateTime[u]
          /\ UpdateTime[t] # NoDate /\ UpdateTime[u] # NoDate
               => Priority[t] <= Priority[u]
  <1>1. IInv /\ [Next]_vars => [InOrder]_vars
    <2> SUFFICES ASSUME IInv, Next, NEW t \in Task, NEW u \in Task,
                        Taken(t), u \in Queue
                 PROVE  Score[t] <= Score[u]
      BY ScoreOrder
    <2>1. job \in [Task -> JobState] /\ job[t] = "queued" /\ job'[t] = "taken"
      BY DEF IInv, TypeOK, Taken
    <2>2. ~Tick /\ ~Restart
      BY <2>1 DEF Tick, Restart
    <2>3. ASSUME NEW x \in Task, ClientStep(x) \/ WorkerStep(x) \/ RedisFails(x)
          PROVE  FALSE
      <3>1. CASE ClientStep(x)
        BY <2>1, <3>1 DEF ClientStep, Admit, Add, SetQueued, BeginWait, Poll
      <3>2. CASE WorkerStep(x)
        BY <2>1, <3>2 DEF WorkerStep, Start, SaveResult, RunFails, SaveFailure
      <3>3. CASE RedisFails(x)
        BY <2>1, <3>3 DEF RedisFails, AddFails, SetQueuedFails, PollFails, JobLost,
                          SaveFailureFails
      <3> QED
        BY <2>3, <3>1, <3>2, <3>3
    <2>4. PICK x \in Task : Take(x)
      BY <2>2, <2>3 DEF Next
    <2>5. x = t
      BY <2>1, <2>4 DEF Take
    <2> QED
      BY <2>4, <2>5 DEF Take, MostUrgent
  <1>2. Spec => [][InOrder]_vars
    BY <1>1, Invariance, PTL DEF Spec
  <1> QED
    BY <1>2 DEF ServedInOrder

-----------------------------------------------------------------------------
(* TaskQueue implements JobPool.                                           *)

PoolStage == [t \in Task |-> Stage(t)]

PoolPosting == {t \in Task : client[t] \in {"adding", "setting", "set"}}

\* A step that touches one slot changes the stage of that slot only.
LEMMA OneSlot ==
  ASSUME NEW t \in Task,
         \A u \in Task \ {t} : client'[u] = client[u] /\ job'[u] = job[u]
  PROVE  /\ PoolStage' = [PoolStage EXCEPT ![t] = Stage(t)']
         /\ PoolPosting' = IF client'[t] \in {"adding", "setting", "set"}
                             THEN PoolPosting \cup {t}
                             ELSE PoolPosting \ {t}
  <1>1. \A u \in Task \ {t} : Stage(u)' = Stage(u)
    BY DEF Stage, InWork
  <1>2. PoolStage' = [PoolStage EXCEPT ![t] = Stage(t)']
    BY <1>1 DEF PoolStage
  <1>3. PoolPosting' = IF client'[t] \in {"adding", "setting", "set"}
                         THEN PoolPosting \cup {t}
                         ELSE PoolPosting \ {t}
    BY DEF PoolPosting
  <1> QED
    BY <1>2, <1>3

\* The slots whose job is with a worker are those that JobPool calls running.
LEMMA RunningInWork ==
  ASSUME IInv
  PROVE  {t \in Task : PoolStage[t] = "running"} = InWork
  BY DEF IInv, NothingBeforeAdd, PoolStage, Stage, InWork

\* The module instantiated has a Cardinality of its own.
LEMMA PoolCardinality == \A S : Pool!Cardinality(S) = Cardinality(S)
  BY DEF Cardinality, Pool!Cardinality

LEMMA InitPool == Init => Pool!Init
  BY DEF Init, Pool!Init, Stage, InWork

LEMMA ClientStepPool ==
  ASSUME IInv, NEW t \in Task,
         ClientStep(t) \/ AddFails(t) \/ SetQueuedFails(t) \/ PollFails(t)
  PROVE  \/ Pool!Begin(t) \/ Pool!Drop(t) \/ Pool!Enqueue(t) \/ Pool!Leave(t)
         \/ UNCHANGED Pool!vars
  <1> USE DEF IInv, TypeOK
  <1>1. \A u \in Task \ {t} : client'[u] = client[u] /\ job'[u] = job[u]
    BY DEF ClientStep, Admit, Add, AddFails, SetQueued, SetQueuedFails, BeginWait,
           Poll, PollFails, Goes, Ends
  <1>2. CASE Admit(t)
    <2>1. Stage(t) = "none" /\ Stage(t)' = "pushing"
      BY <1>2 DEF Admit, Goes, Stage, InWork
    <2>2. t \notin PoolPosting /\ client'[t] = "adding"
      BY <1>2 DEF Admit, Goes, PoolPosting
    <2> QED
      BY <1>1, <2>1, <2>2, OneSlot DEF Pool!Begin, PoolStage, PoolPosting
  <1>3. CASE Add(t)
    <2>1. Stage(t) = "pushing" /\ Stage(t)' = "queued"
      <3>1. /\ client[t] = "adding" /\ job[t] = "none"
            /\ client'[t] = "setting" /\ job'[t] = "queued"
        BY <1>3 DEF Add, Goes, NothingBeforeAdd
      <3> QED
        BY <3>1 DEF Stage, InWork
    <2>2. t \in PoolPosting /\ client'[t] = "setting"
      BY <1>3 DEF Add, Goes, PoolPosting
    <2> QED
      BY <1>1, <2>1, <2>2, OneSlot DEF Pool!Enqueue, PoolStage, PoolPosting
  <1>4. CASE AddFails(t)
    <2>1. Stage(t) = "pushing" /\ Stage(t)' = "none"
      BY <1>4 DEF AddFails, Ends, Stage, InWork, NothingBeforeAdd
    <2>2. client'[t] = "idle"
      BY <1>4 DEF AddFails, Ends
    <2> QED
      BY <1>1, <2>1, <2>2, OneSlot DEF Pool!Drop, PoolStage, PoolPosting
  <1>5. CASE BeginWait(t) \/ SetQueuedFails(t)
    <2>1. Stage(t) # "pushing" /\ Stage(t)' = Stage(t)
      BY <1>5 DEF BeginWait, SetQueuedFails, Goes, Ends, Stage, InWork, JobState
    <2>2. t \in PoolPosting /\ client'[t] \notin {"adding", "setting", "set"}
      BY <1>5 DEF BeginWait, SetQueuedFails, Goes, Ends, PoolPosting
    <2>3. PoolStage' = PoolStage /\ PoolPosting' = PoolPosting \ {t}
      BY <1>1, <2>1, <2>2, OneSlot DEF PoolStage
    <2> QED
      BY <2>1, <2>2, <2>3 DEF Pool!Leave, PoolStage, PoolPosting
  <1>6. CASE Poll(t) \/ PollFails(t)
    <2>1. Stage(t)' = Stage(t)
      BY <1>6 DEF Poll, PollFails, Ends, Stage, InWork
    <2>2. t \notin PoolPosting /\ client'[t] = "idle"
      BY <1>6 DEF Poll, PollFails, Ends, PoolPosting
    <2>3. PoolStage' = PoolStage
      BY <1>1, <2>1, OneSlot DEF PoolStage
    <2>4. PoolPosting' = PoolPosting
      <3>1. PoolPosting' = PoolPosting \ {t}
        BY <1>1, <2>2, OneSlot
      <3> QED
        BY <2>2, <3>1
    <2> QED
      BY <2>3, <2>4 DEF Pool!vars, PoolStage, PoolPosting
  <1>7. CASE SetQueued(t)
    <2>1. Stage(t)' = Stage(t)
      BY <1>7 DEF SetQueued, Goes, Stage, InWork
    <2>2. t \in PoolPosting /\ client'[t] = "set"
      BY <1>7 DEF SetQueued, Goes, PoolPosting
    <2>3. PoolStage' = PoolStage
      BY <1>1, <2>1, OneSlot DEF PoolStage
    <2>4. PoolPosting' = PoolPosting
      <3>1. PoolPosting' = PoolPosting \cup {t}
        BY <1>1, <2>2, OneSlot
      <3> QED
        BY <2>2, <3>1
    <2> QED
      BY <2>3, <2>4 DEF Pool!vars, PoolStage, PoolPosting
  <1> QED
    BY <1>2, <1>3, <1>4, <1>5, <1>6, <1>7 DEF ClientStep

LEMMA WorkerStepPool ==
  ASSUME IInv, NEW t \in Task,
         Take(t) \/ WorkerStep(t) \/ JobLost(t) \/ SaveFailureFails(t)
  PROVE  Pool!Take(t) \/ Pool!End(t) \/ UNCHANGED Pool!vars
  <1> USE DEF IInv, TypeOK
  <1>1. \A u \in Task \ {t} : client'[u] = client[u] /\ job'[u] = job[u]
    BY DEF WorkerStep, Take, Start, JobLost, SaveResult, RunFails, SaveFailure,
           SaveFailureFails
  <1>2. client' = client /\ PoolPosting' = PoolPosting
    BY DEF WorkerStep, Take, Start, JobLost, SaveResult, RunFails, SaveFailure,
           SaveFailureFails, PoolPosting
  <1>3. job[t] # "none" /\ client[t] # "adding"
    BY DEF WorkerStep, Take, Start, JobLost, SaveResult, RunFails, SaveFailure,
           SaveFailureFails, MostUrgent, Queue, NothingBeforeAdd
  <1>4. CASE Take(t)
    <2>1. Stage(t) = "queued" /\ Stage(t)' = "running"
      BY <1>2, <1>3, <1>4 DEF Take, MostUrgent, Queue, Stage, InWork
    <2>2. Pool!WorkerFree
      BY <1>4, RunningInWork, PoolCardinality DEF Take, Pool!WorkerFree, PoolStage
    <2> QED
      BY <1>1, <1>2, <2>1, <2>2, OneSlot DEF Pool!Take, PoolStage, PoolPosting
  <1>5. CASE Start(t) \/ RunFails(t)
    <2>1. Stage(t)' = Stage(t)
      BY <1>2, <1>3, <1>5 DEF Start, RunFails, Stage, InWork
    <2>2. PoolStage' = PoolStage
      BY <1>1, <2>1, OneSlot DEF PoolStage
    <2> QED
      BY <1>2, <2>2 DEF Pool!vars, PoolStage, PoolPosting
  <1>6. CASE JobLost(t) \/ SaveResult(t) \/ SaveFailure(t) \/ SaveFailureFails(t)
    <2>1. Stage(t) = "running" /\ Stage(t)' = "none"
      BY <1>2, <1>3, <1>6 DEF JobLost, SaveResult, SaveFailure, SaveFailureFails,
                              Stage, InWork
    <2> QED
      BY <1>1, <1>2, <2>1, OneSlot DEF Pool!End, PoolStage, PoolPosting
  <1> QED
    BY <1>4, <1>5, <1>6 DEF WorkerStep

LEMMA NextPool == IInv /\ [Next]_vars => [Pool!Next]_(Pool!vars)
  <1> SUFFICES ASSUME IInv, [Next]_vars PROVE Pool!Next \/ UNCHANGED Pool!vars
    OBVIOUS
  <1>1. CASE UNCHANGED vars
    BY <1>1 DEF vars, Pool!vars, Stage, InWork
  <1>2. CASE Tick
    BY <1>2 DEF Tick, Pool!vars, Stage, InWork
  <1>3. CASE Restart
    <2>1. \A t \in Task :
            Stage(t)' = IF Stage(t) = "queued" THEN "queued" ELSE "none"
      BY <1>3 DEF Restart, Stage, InWork, IInv, TypeOK, NothingBeforeAdd
    <2>2. PoolPosting' = {}
      BY <1>3 DEF Restart, PoolPosting
    <2>3. Pool!Crash
      BY <2>1, <2>2 DEF Pool!Crash, PoolPosting
    <2> QED
      BY <2>3 DEF Pool!Next
  <1>4. ASSUME NEW t \in Task,
               ClientStep(t) \/ Take(t) \/ WorkerStep(t) \/ RedisFails(t)
        PROVE  Pool!Next \/ UNCHANGED Pool!vars
    BY <1>4, ClientStepPool, WorkerStepPool DEF RedisFails, Pool!Next
  <1> QED
    BY <1>1, <1>2, <1>3, <1>4 DEF Next

\* The queue is what the load balancer takes it for: every behaviour of TaskQueue
\* is one of JobPool.
THEOREM QueueImplementsJobPool == Spec => ImplementsJobPool
  BY InitPool, NextPool, Invariance, PTL DEF Spec, ImplementsJobPool, Pool!Spec

=============================================================================
