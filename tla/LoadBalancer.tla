---------------------------- MODULE LoadBalancer ---------------------------
(***************************************************************************)
(* The load balancer of app/load_balancer.py, with the two pieces of code   *)
(* that drive it: the key-packet path of quick_submit                       *)
(* (routes/task_routes.py) and process_job (worker.py).                     *)
(*                                                                          *)
(* Everything runs on one asyncio event loop, so a step is the code between *)
(* two suspension points.  The async functions of load_balancer.py suspend  *)
(* only at asyncio.sleep; an await of one of them does not yield.           *)
(*                                                                          *)
(* Time is counted in seconds by Tick.  Instead of time stamps the model    *)
(* keeps what the code computes from them: for a busy server the time left  *)
(* until busy_until, for an entry of _processing_keys its age.  An age      *)
(* saturates one second above the timeout, where it can no longer be told   *)
(* apart by any comparison of the code.                                     *)
(*                                                                          *)
(* A definition under a comment "Fault: ..." is no part of the model: it is *)
(* a plausible defect of the definition after it, kept to show that the     *)
(* properties notice it.                                                    *)
(*                                                                          *)
(* The task queue is reduced here to "queued jobs, taken in any order": its *)
(* order, its limit and the status records are those of TaskQueue, and      *)
(* JobPool says what both have in common (LoadBalancerJobs).                *)
(***************************************************************************)
EXTENDS OrderedDict, FiniteSets

CONSTANTS
  Hash,               \* hash codes (temporary drone ids) of key packets
  Req,                \* slots for requests in flight; a slot is reused
  NumServers,         \* len(_servers)
  MaxKeyCacheSize,    \* MAX_KEY_CACHE_SIZE
  MaxBusyQueueSize,   \* MAX_BUSY_QUEUE_SIZE
  ServerBusyTimeout,  \* SERVER_BUSY_TIMEOUT, in seconds
  KeyBusyTimeout,     \* KEY_BUSY_TIMEOUT, in seconds
  MaxWaitAttempts     \* max_wait_attempts of quick_submit

ASSUME CapacityAssumption ==
  /\ MaxKeyCacheSize \in Nat \ {0}
  /\ MaxBusyQueueSize \in Nat \ {0}

ASSUME TimeoutAssumption ==
  /\ ServerBusyTimeout \in Nat
  /\ KeyBusyTimeout \in Nat

ASSUME CountAssumption ==
  /\ NumServers \in Nat
  /\ MaxWaitAttempts \in Nat

VARIABLES
  busyLeft,      \* per server: seconds until busy_until, -1 when it is idle
  lastDispatch,  \* _last_dispatch_server_idx
  keyCache,      \* _key_cache, least recently used first
  processing,    \* _processing_keys, oldest first
  req,           \* per slot: where its request, and the job it made, stand
  stored         \* per server: the hashes whose key that server has generated

vars == <<busyLeft, lastDispatch, keyCache, processing, req, stored>>

Servers == 0 .. NumServers - 1

-----------------------------------------------------------------------------
(* Values of the variables.                                                *)

\* DroneKeyInfo: the server that has the key, and whether a serial number
\* came with it.
KeyInfo == [server : Servers, sn : BOOLEAN]

\* An entry of _processing_keys: (server_idx, time since its time stamp).
BusyInfo == [server : Servers, age : 0 .. KeyBusyTimeout + 1]

\* The "msg" of a decryption server's response, and whether it carries an sn.
Answer == [msg : {"keygen_succ", "keygen_busy", "key_exist", "other"},
           sn : BOOLEAN]

Idle == [pc |-> "idle"]

\* In the asyncio.sleep(1) of handle_key_packet ("nap") or in the one of
\* quick_submit's loop ("retry").  attempt counts the sleeps of the latter that
\* are over, due says that this second is over.
Sleeping ==
  [pc : {"nap"}, hash : Hash, attempt : 0 .. MaxWaitAttempts, due : BOOLEAN]
  \cup
  [pc : {"retry"}, hash : Hash, attempt : 0 .. MaxWaitAttempts - 1, due : BOOLEAN]

\* A dispatched request: in push_task_to_queue ("pushing"), its job in the
\* queue, or its job in process_job.  posting says that the submitter is
\* still inside push_task_to_queue.
Placed == [pc : {"pushing", "queued", "running"}, hash : Hash,
           server : Servers, posting : BOOLEAN]

Answered == [pc : {"answered"}, hash : Hash, server : Servers,
             posting : BOOLEAN, answer : Answer]

\* The job is over and the submitter has yet to leave push_task_to_queue.
Posting == [pc : {"posting"}, hash : Hash]

RequestState == {Idle} \cup Sleeping \cup Placed \cup Answered \cup Posting

TypeOK ==
  /\ busyLeft \in [Servers -> -1 .. ServerBusyTimeout]
  /\ lastDispatch \in Servers \cup {-1}
  /\ keyCache \in Items(Hash, KeyInfo)
  /\ processing \in Items(Hash, BusyInfo)
  /\ req \in [Req -> RequestState]
  /\ stored \in [Servers -> SUBSET Hash]

Init ==
  /\ busyLeft = [s \in Servers |-> -1]
  /\ lastDispatch = -1
  /\ keyCache = <<>>
  /\ processing = <<>>
  /\ req = [r \in Req |-> Idle]
  /\ stored = [s \in Servers |-> {}]

-----------------------------------------------------------------------------
(* Servers.                                                                *)

IsBusy(s) == busyLeft[s] >= 0

\* Fault: the search starts at the first server every time.
OffsetFromFirst(s) == s

\* How many servers get_idle_server looks at before s.
Offset(s) == (s - (lastDispatch + 1)) % NumServers

\* Fault: the busy flag is not looked at.
AnyNextServer(s) == s \in Servers /\ \A t \in Servers : Offset(s) <= Offset(t)

\* get_idle_server returns s: the first idle server after the last one used.
NextIdleServer(s) ==
  /\ s \in Servers
  /\ ~IsBusy(s)
  /\ \A t \in Servers : ~IsBusy(t) => Offset(s) <= Offset(t)

AllServersBusy == \A s \in Servers : IsBusy(s)

-----------------------------------------------------------------------------
(* The key cache and the table of keys being processed.                    *)

Expired(info) == info.age > KeyBusyTimeout

\* Fault: the timeout is not looked at.
InProcessingForEver(p, h) == h \in Keys(p)

\* is_in_processing: an entry past its timeout does not count.
InProcessing(p, h) == h \in Keys(p) /\ ~Expired(Get(p, h))

\* The purge of add_to_processing: every entry goes by its own age.
DropExpired(p) == Only(p, {i \in DOMAIN p : ~Expired(p[i].val)})

\* Fault: a second dispatch refreshes the entry of the first in place.
RefreshProcessing(p, h, s) ==
  LET live == DropExpired(p)
  IN  Assign(IF h \in Keys(live) THEN live
                                 ELSE EvictWhileFull(live, MaxBusyQueueSize),
             h, [server |-> s, age |-> 0])

\* add_to_processing: a hash that is there already keeps its entry.
AddToProcessing(p, h, s) ==
  LET live == DropExpired(p)
  IN  IF h \in Keys(live)
        THEN live
        ELSE Assign(EvictWhileFull(live, MaxBusyQueueSize),
                    h, [server |-> s, age |-> 0])

\* Fault: the capacity test is off by one.
AddKeyBeyondCapacity(c, h, s, sn) ==
  Assign(EvictWhileFull(c, MaxKeyCacheSize + 1), h, [server |-> s, sn |-> sn])

\* Fault: an answer without a serial number keeps the one that is cached.
AddKeyKeepingSn(c, h, s, sn) ==
  Assign(EvictWhileFull(c, MaxKeyCacheSize), h,
         [server |-> s, sn |-> sn \/ (h \in Keys(c) /\ Get(c, h).sn)])

\* add_key_to_cache, on the cache.
AddKeyToCache(c, h, s, sn) ==
  Assign(EvictWhileFull(c, MaxKeyCacheSize), h, [server |-> s, sn |-> sn])

-----------------------------------------------------------------------------
(* handle_key_packet, called by request r for hash h; attempt counts the    *)
(* sleeps of quick_submit's loop so far.                                    *)

\* Cache hit: the entry becomes the most recently used one, and the hash is no
\* longer being processed.  The request is answered with key_exist.
KeyExists(r, h) ==
  /\ h \in Keys(keyCache)
  /\ keyCache' = MoveToEnd(keyCache, h)
  /\ processing' = Discard(processing, h)
  /\ req' = [req EXCEPT ![r] = Idle]
  /\ UNCHANGED <<busyLeft, lastDispatch, stored>>

\* Another request's job has the hash: answered with key_gen_busy.
KeyGenBusy(r, h) ==
  /\ h \notin Keys(keyCache)
  /\ InProcessing(processing, h)
  /\ req' = [req EXCEPT ![r] = Idle]
  /\ UNCHANGED <<busyLeft, lastDispatch, keyCache, processing, stored>>

\* Dispatch to the next idle server.  What add_to_processing returns is not
\* looked at.
Dispatch(r, h) ==
  \E s \in Servers :
    /\ NextIdleServer(s)
    /\ lastDispatch' = s
    /\ processing' = AddToProcessing(processing, h, s)
    /\ req' = [req EXCEPT ![r] = [pc |-> "pushing", hash |-> h,
                                  server |-> s, posting |-> TRUE]]
    /\ UNCHANGED <<busyLeft, keyCache, stored>>

\* Fault: _processing_keys is not looked at.
DispatchUncached(r, h) == h \notin Keys(keyCache) /\ Dispatch(r, h)

\* The hash is new and some server is idle.
DispatchNewKey(r, h) ==
  /\ h \notin Keys(keyCache)
  /\ ~InProcessing(processing, h)
  /\ Dispatch(r, h)

\* The hash is new and every server is busy: sleep a second.  By then
\* is_in_processing has deleted an entry of h that is past its timeout.
NapForServer(r, h, attempt) ==
  /\ h \notin Keys(keyCache)
  /\ ~InProcessing(processing, h)
  /\ AllServersBusy
  /\ processing' = Discard(processing, h)
  /\ req' = [req EXCEPT ![r] = [pc |-> "nap", hash |-> h,
                                attempt |-> attempt, due |-> FALSE]]
  /\ UNCHANGED <<busyLeft, lastDispatch, keyCache, stored>>

HandleKeyPacket(r, h, attempt) ==
  \/ KeyExists(r, h)
  \/ KeyGenBusy(r, h)
  \/ DispatchNewKey(r, h)
  \/ NapForServer(r, h, attempt)

\* A key packet arrives at quick_submit.
KeyPacket(r, h) ==
  /\ req[r].pc = "idle"
  /\ HandleKeyPacket(r, h, 0)

\* handle_key_packet wakes up and finds the key in the cache.
NapKeyExists(r, h) ==
  /\ h \in Keys(keyCache)
  /\ keyCache' = MoveToEnd(keyCache, h)
  /\ req' = [req EXCEPT ![r] = Idle]
  /\ UNCHANGED <<busyLeft, lastDispatch, processing, stored>>

\* Fault: the cache is not looked at again.
NapDispatchBlindly(r, h) == Dispatch(r, h)

\* It wakes up and finds an idle server; _processing_keys is not looked at
\* again.
NapDispatch(r, h) ==
  /\ h \notin Keys(keyCache)
  /\ Dispatch(r, h)

\* Fault: one iteration too many.
AttemptLeftInclusive(attempt) == attempt <= MaxWaitAttempts

\* quick_submit's "for attempt in range(max_wait_attempts)" goes on.
AttemptLeft(attempt) == attempt < MaxWaitAttempts

\* It wakes up, all servers are still busy, and it returns all_servers_busy:
\* quick_submit sleeps and tries again, or gives up with HTTP 503.
NapInVain(r, h) ==
  /\ h \notin Keys(keyCache)
  /\ AllServersBusy
  /\ req' = [req EXCEPT ![r] =
               IF AttemptLeft(@.attempt)
                 THEN [pc |-> "retry", hash |-> h,
                       attempt |-> @.attempt, due |-> FALSE]
                 ELSE Idle]
  /\ UNCHANGED <<busyLeft, lastDispatch, keyCache, processing, stored>>

\* Fault: the sleep goes on until a server is idle.
NapUntilIdle(r) ==
  /\ req[r].pc = "nap"
  /\ req[r].due
  /\ NapKeyExists(r, req[r].hash) \/ NapDispatch(r, req[r].hash)

NapOver(r) ==
  /\ req[r].pc = "nap"
  /\ req[r].due
  /\ \/ NapKeyExists(r, req[r].hash)
     \/ NapDispatch(r, req[r].hash)
     \/ NapInVain(r, req[r].hash)

\* quick_submit's loop has slept its second and calls handle_key_packet again.
RetryOver(r) ==
  /\ req[r].pc = "retry"
  /\ req[r].due
  /\ HandleKeyPacket(r, req[r].hash, req[r].attempt + 1)

\* Fault: a hit only looks the entry up.
DataPacketInPlace(h) == h \in Keys(keyCache) /\ UNCHANGED vars

\* handle_data_packet: a hit makes the entry the most recently used one; a miss
\* (no_key) changes nothing.
DataPacket(h) ==
  /\ h \in Keys(keyCache)
  /\ keyCache' = MoveToEnd(keyCache, h)
  /\ UNCHANGED <<busyLeft, lastDispatch, processing, req, stored>>

-----------------------------------------------------------------------------
(* push_task_to_queue, called by a dispatched request.                      *)

\* ZADD: the job is in the queue.
Enqueue(r) ==
  /\ req[r].pc = "pushing"
  /\ req' = [req EXCEPT ![r].pc = "queued"]
  /\ UNCHANGED <<busyLeft, lastDispatch, keyCache, processing, stored>>

\* The queue is full, or Redis fails before the job is in it: quick_submit
\* rolls back and answers with an error.
EnqueueFails(r) ==
  /\ req[r].pc = "pushing"
  /\ processing' = Discard(processing, req[r].hash)
  /\ req' = [req EXCEPT ![r] = Idle]
  /\ UNCHANGED <<busyLeft, lastDispatch, keyCache, stored>>

InFlight(r) == req[r].pc \in {"queued", "running", "answered"}

\* The submitter leaves push_task_to_queue after ZADD, wherever its job is by
\* then.
EndPosting(r) ==
  \/ /\ req[r].pc = "posting"
     /\ req' = [req EXCEPT ![r] = Idle]
  \/ /\ InFlight(r)
     /\ req[r].posting
     /\ req' = [req EXCEPT ![r].posting = FALSE]

\* SET "queued" succeeds.
Posted(r) ==
  /\ EndPosting(r)
  /\ UNCHANGED <<busyLeft, lastDispatch, keyCache, processing, stored>>

\* SET "queued" (or the answer to ZADD) fails: quick_submit rolls back although
\* the job is in the queue.
PostFails(r) ==
  /\ EndPosting(r)
  /\ processing' = Discard(processing, req[r].hash)
  /\ UNCHANGED <<busyLeft, lastDispatch, keyCache, stored>>

-----------------------------------------------------------------------------
(* worker_loop and process_job.                                            *)

\* The slot of a job that is over.
Over(job) ==
  IF job.posting THEN [pc |-> "posting", hash |-> job.hash] ELSE Idle

\* One worker per server, but at least two.
WorkerFree ==
  Cardinality({r \in Req : req[r].pc \in {"running", "answered"}})
    < Max({NumServers, 2})

\* ZPOPMIN, and process_job as far as the call of the decryption server.
Take(r) ==
  /\ req[r].pc = "queued"
  /\ WorkerFree
  /\ req' = [req EXCEPT ![r].pc = "running"]
  /\ UNCHANGED <<busyLeft, lastDispatch, keyCache, processing, stored>>

\* SET "processing" raises before process_job's try: the job has left the queue
\* and nothing is cleaned up.
JobLost(r) ==
  /\ req[r].pc = "queued"
  /\ WorkerFree
  /\ req' = [req EXCEPT ![r] = Over(req[r])]
  /\ UNCHANGED <<busyLeft, lastDispatch, keyCache, processing, stored>>

\* What decryption server s may answer for h (external): a key is generated
\* once, after that the server says that it has it.
MayAnswer(s, h, a) ==
  \/ a.msg = "keygen_succ" /\ h \notin stored[s]
  \/ a.msg = "keygen_busy" /\ h \notin stored[s] /\ ~a.sn
  \/ a.msg = "key_exist" /\ h \in stored[s]
  \/ a.msg = "other" /\ ~a.sn

\* The decryption server answers decrypt_with_retry.
ServerAnswer(r, a) ==
  /\ req[r].pc = "running"
  /\ MayAnswer(req[r].server, req[r].hash, a)
  /\ stored' = IF a.msg = "keygen_succ"
                 THEN [stored EXCEPT ![req[r].server] = @ \cup {req[r].hash}]
                 ELSE stored
  /\ req' = [req EXCEPT ![r] =
               [pc |-> "answered", hash |-> @.hash, server |-> @.server,
                posting |-> @.posting, answer |-> a]]
  /\ UNCHANGED <<busyLeft, lastDispatch, keyCache, processing>>

\* is_keygen_success: keygen_busy counts, key_exist only with a serial number.
Success(a) ==
  \/ a.msg \in {"keygen_succ", "keygen_busy"}
  \/ a.msg = "key_exist" /\ a.sn

\* The rest of process_job: the branch for the answer, then on_keygen_result.
FinishJob(r) ==
  /\ req[r].pc = "answered"
  /\ LET job == req[r]
         a == job.answer
     IN  /\ busyLeft' = IF a.msg = "keygen_busy"
                          THEN [busyLeft EXCEPT ![job.server] = ServerBusyTimeout]
                          ELSE busyLeft
         /\ keyCache' = IF Success(a)
                          THEN AddKeyToCache(keyCache, job.hash, job.server, a.sn)
                          ELSE keyCache
         /\ processing' = Discard(processing, job.hash)
         /\ req' = [req EXCEPT ![r] = Over(job)]
  /\ UNCHANGED <<lastDispatch, stored>>

\* Fault: the job goes back to the queue.
JobRetried(r) ==
  /\ req[r].pc \in {"running", "answered"}
  /\ req' = [req EXCEPT ![r] = [pc |-> "queued", hash |-> @.hash,
                                server |-> @.server, posting |-> @.posting]]
  /\ UNCHANGED <<busyLeft, lastDispatch, keyCache, processing, stored>>

\* The call of the server raises, or SET "completed" does: the key is not
\* cached, whatever the server answered.
JobFails(r) ==
  /\ req[r].pc \in {"running", "answered"}
  /\ processing' = Discard(processing, req[r].hash)
  /\ req' = [req EXCEPT ![r] = Over(req[r])]
  /\ UNCHANGED <<busyLeft, lastDispatch, keyCache, stored>>

-----------------------------------------------------------------------------
(* Time and restarts.                                                      *)

\* One second passes.
Tick ==
  /\ busyLeft' = [s \in Servers |-> IF IsBusy(s) THEN busyLeft[s] - 1 ELSE -1]
  /\ processing' =
       [i \in DOMAIN processing |->
         IF Expired(processing[i].val)
           THEN processing[i]
           ELSE [processing[i] EXCEPT !.val.age = @ + 1]]
  /\ req' = [r \in Req |-> IF req[r].pc \in {"nap", "retry"}
                             THEN [req[r] EXCEPT !.due = TRUE]
                             ELSE req[r]]
  /\ UNCHANGED <<lastDispatch, keyCache, stored>>

\* The process stops and starts again.  Its memory is lost (init_servers, empty
\* tables); the queue in Redis and the decryption servers keep theirs.  An orderly
\* shutdown, which cancels the workers wherever they are suspended, leaves no more
\* than a crash does: what process_job's finally cleans up is memory.
Restart ==
  /\ busyLeft' = [s \in Servers |-> -1]
  /\ lastDispatch' = -1
  /\ keyCache' = <<>>
  /\ processing' = <<>>
  /\ req' = [r \in Req |-> IF req[r].pc = "queued"
                             THEN [req[r] EXCEPT !.posting = FALSE]
                             ELSE Idle]
  /\ UNCHANGED stored

Submit(r) == \E h \in Hash : KeyPacket(r, h)

PushStep(r) == Enqueue(r) \/ EnqueueFails(r) \/ Posted(r) \/ PostFails(r)

WorkerStep(r) ==
  \/ Take(r)
  \/ JobLost(r)
  \/ \E a \in Answer : ServerAnswer(r, a)
  \/ FinishJob(r)
  \/ JobFails(r)

Next ==
  \/ \E r \in Req :
       Submit(r) \/ NapOver(r) \/ RetryOver(r) \/ PushStep(r) \/ WorkerStep(r)
  \/ \E h \in Hash : DataPacket(h)
  \/ Tick
  \/ Restart

Spec == Init /\ [][Next]_vars

\* Seconds pass, and the event loop resumes a task whose sleep is over.
Fairness ==
  /\ WF_vars(Tick)
  /\ \A r \in Req : WF_vars(NapOver(r)) /\ WF_vars(RetryOver(r))

LiveSpec == Spec /\ Fairness

-----------------------------------------------------------------------------
(* Properties.                                                             *)

\* The two tables hold each hash once and stay within their capacities, however
\* additions, refreshes, purges and evictions follow each other.
TablesWellFormed ==
  /\ IsDict(keyCache) /\ Len(keyCache) <= MaxKeyCacheSize
  /\ IsDict(processing) /\ Len(processing) <= MaxBusyQueueSize

\* A hash whose key is cached is not being processed: add_key_to_cache and
\* on_keygen_result take it out of _processing_keys, and a request that slept
\* looks at the cache again before it puts it back (load_balancer.py:495).
CacheProcessingDisjoint == Keys(keyCache) \cap Keys(processing) = {}

\* Insertion order is age order, since an entry is never refreshed in place.  So
\* popitem(last=False) evicts the entry that was put there first.
ProcessingInTimeOrder ==
  \A i, j \in DOMAIN processing :
    i < j => processing[i].val.age >= processing[j].val.age

Waiting(r) == req[r].pc \in {"nap", "retry"}

\* _key_cache holds keys that have been decrypted (load_balancer.py:128), except
\* that a keygen_busy answer caches its hash as well, without a serial number.
\* A serial number in the cache, or on its way there in an answered job, belongs
\* to a key that this very server has generated: no interleaving of jobs for
\* one hash, evictions and failures pairs a hash that has a serial number with
\* a server that never answered for it.
SnIsReal ==
  /\ \A i \in DOMAIN keyCache :
       keyCache[i].val.sn => keyCache[i].key \in stored[keyCache[i].val.server]
  /\ \A r \in Req :
       (req[r].pc = "answered" /\ req[r].answer.sn)
         => req[r].hash \in stored[req[r].server]

Blocked(h) == InProcessing(processing, h)

\* Whatever becomes of its job (lost, failed, forgotten in a restart), a hash
\* does not stay in _processing_keys for ever, turning every later request for
\* it away with key_gen_busy (worker.py:333-334).
NoHashBlockedForever == \A h \in Hash : Blocked(h) ~> ~Blocked(h)

\* A busy server becomes idle again by timeout alone (load_balancer.py:568),
\* though the jobs that were sent to it before may renew the timeout.
BusyServerRecovers == \A s \in Servers : IsBusy(s) ~> ~IsBusy(s)

\* A request that waits for an idle server stops waiting: dispatched, answered
\* or turned away, even if it finds all servers busy each time it looks.
WaitEnds == \A r \in Req : Waiting(r) ~> ~Waiting(r)

-----------------------------------------------------------------------------
(* What a comment of the code says and the code does not do.               *)

\* Slot r is dispatched in this step.
Dispatched(r) ==
  req[r].pc \in {"idle", "nap", "retry"} /\ req'[r].pc = "pushing"

\* _processing_keys prevents duplicate processing (load_balancer.py:132,346): a
\* hash that is being processed is not dispatched.
NoDispatchWhileProcessing ==
  [][\A r \in Req : Dispatched(r) => ~InProcessing(processing, req'[r].hash)]_vars

=============================================================================
