# A verification project for LoadBalance

LoadBalance is a FastAPI service that stands between clients and a few
*decryption servers*. A client sends a packet of 176 bytes. A **key packet**
makes one decryption server generate the key of a drone; a **data packet** can
then be decrypted by that server, and by no other. The service remembers which
server has which key, keeps key packets of one drone from being processed
twice, spreads key packets over the servers, and queues them by the priority of
the user.

Everything runs in one process on one asyncio event loop. There is no thread:
code runs alone from one suspension point to the next, and what can go wrong
goes wrong between two of them.

The line numbers below are those of `src/app/`.

## 1. Inventory

### Components

| Component | Source | State | Operations | Model |
|---|---|---|---|---|
| Load balancer | `load_balancer.py` | `_servers` (busy status, busy_until), `_last_dispatch_server_idx`, `_key_cache` (LRU), `_processing_keys` (with time stamps) | `get_idle_server`, `set_server_busy`, `add_key_to_cache`, `get_key_info`, `add_to_processing`, `remove_from_processing`, `is_in_processing`, `handle_key_packet`, `handle_data_packet`, `on_keygen_result` | `LoadBalancer`, `OrderedDict`, `DispatchHistory` |
| Admission: login, token cache, quota and charging | `routes/task_routes.py:73-197, 304-461` | `_token_cache`, `user_token:<t>` in Redis, the row of `sys_user` | `login`, `generate_user_token`, `validate_token`, the checks of `quick_submit`, `_charge_user` | `Admission`, `QuotaLedger` |
| Packet parser | `packet_parser.py` | none | demask, permutation, classification, drone id | `PacketParser`, `PacketAdmission` |
| Key-packet path of `quick_submit` | `routes/task_routes.py:463-522, 591-648` | one coroutine per request | the loop of 36 attempts, push with rollback, wait | `LoadBalancer` (`KeyPacket`, `RetryOver`, `EnqueueFails`, `PostFails`), `TaskQueue` |
| Data-packet path | `routes/task_routes.py:524-583` | none of its own | routing by the key cache, direct call | `LoadBalancer` (`DataPacket`), `ServerToken` |
| Worker | `worker.py:128-345` | one coroutine per server, at least two | `worker_loop`, `process_job` | `LoadBalancer` (`Take` ... `JobFails`), `TaskQueue`, `ServerToken` |
| Server tokens | `worker.py:19-125, 348-393`, `load_balancer.py:79-121` | `token`, `token_fetch_time` per server | `get_valid_token_for_server`, `server_request_with_token_retry`, `decrypt_with_retry` | `ServerToken` |
| Rate limiter | `rate_limiter.py` | `tokens`, `last_refill`, an `asyncio.Lock` | `acquire` | `RateLimiter`, `RateWindow` |
| Task queue and status records | `task_service.py:45-96`, `worker.py:141-168`, `task_routes.py:241-299` | Redis: `queue:priority`, `task:<id>` with a TTL | `push_task_to_queue`, `ZPOPMIN`, SET of a status, `wait_for_task_result` | `TaskQueue`, `JobPool` |
| Queue score | `task_service.py:14-42` | none | `calculate_queue_score` | `QueueScore`, `TaskQueue` |
| Application life cycle, semaphore | `factory.py`, `runtime.py` | worker tasks, clients | start-up, shutdown | `Restart` in each module; the semaphore is not modelled |
| Daily clean-up | `worker.py:396-460` | two tables of log rows | DELETE by age | not modelled |
| User queries, legacy key cache, configuration, schemas | `routes/user_routes.py`, `key_cache.py`, ... | | | not modelled |

### How they interact

    login        --SETEX--> Redis user_token:<t>
    quick_submit --validate_token--> token cache, Redis    (GET)
                 --get_user, _charge_user--> sys_user      (SELECT, UPDATE, COMMIT)
                 --parse_packet--> kind and drone id       (call)
                 --handle_key_packet--> load balancer      (call; may sleep 1 s)
                 --push_task_to_queue-> Redis queue        (ZCARD, ZADD, SET)
                 <--wait_for_task_result-- task:<id>       (poll every 50 ms)
                 --decrypt_with_retry--> decryption server (data packets)
    worker_loop  --ZPOPMIN--> Redis queue
                 --process_job--> rate limiter, semaphore, decryption server
                 --set_server_busy, on_keygen_result--> load balancer

The load balancer's tables are shared by every request and every worker. Its
functions are declared `async` and suspend only in `handle_key_packet`'s
`asyncio.sleep(1)` (line 492), so each of the others is atomic.

### What is hard, and what makes each component correct

* **Load balancer.** The tables are changed by requests that arrive, requests
  that wake up, submitters that roll back, and jobs that end, in any order; by
  timeouts; by evictions at capacity; and they vanish in a restart while the
  queue does not. Correct means: each table holds a hash once and keeps its
  capacity; a cached hash is not being processed; what is said of a server's
  keys is true; insertion order is age order, which eviction relies on; the cache
  gives up the key whose last use is longest ago, whoever used it;
  a hash is protected against double processing as long as its entry lives; no
  hash and no server is blocked for ever; the round robin is fair.
* **quick_submit.** Two sleeps nest (the loop's and `handle_key_packet`'s).
  Correct means: waiting ends, and within a bound.
* **Worker.** A job can fail before, in, or after the call of the server, or
  vanish before the `try` of `process_job`. Correct means: whatever happens, the
  hash is given free.
* **Rate limiter.** A caller sleeps while it holds the lock, and nobody may call
  for a long time. Correct means: the calls let through are bounded by the rate, in
  the long run and in every window of time.
* **Task queue.** The size check and the insertion are two commands; the status
  record expires while the job waits; `SET queued` comes after the job is in the
  queue. Correct means: a bounded queue, one final status, a client that gets an
  answer, order by priority.
* **Queue score.** One number stands for two criteria. Correct means: served
  by priority, and by date within one.
* **Admission.** Status, quota and charge are read and written in five commands,
  between which administrators edit the account and other requests charge it;
  each command may fail after it has been executed; a token lives in Redis and
  in a cache that is filled by late answers. Correct means: a charge for each
  request let in, and no other that is not reported as a failure; charges within
  the quota; only accounts that were active; tokens that expire.
* **Packet parser.** Two tables of 176 numbers typed in by hand. Correct means: no
  byte is lost, and a drone's key packets and data packets agree on its id.
* **Server tokens.** Any number of coroutines log in, store and invalidate one
  token, while the server revokes tokens. Correct means: a retry is made with a
  new token, calls end, and logins cease.

`PROJECT.json` lists each hazard at its line with the properties that cover it, or the
reason why none does.

## 2. The modules

| Module | What it is |
|---|---|
| `OrderedDict` | Python's `collections.OrderedDict` as the code uses it: a sequence of keys and values. External to the repository. |
| `LoadBalancer` | The load balancer with the key-packet path of `quick_submit` and `process_job`. |
| `DispatchHistory` | `LoadBalancer` with history variables, for properties of whole histories. |
| `KeyRecency` | `LoadBalancer` with a record of when each key was last used. |
| `RateLimiter` | `TokenBucketRateLimiter`. |
| `RateWindow` | `RateLimiter` with an observer who starts to count at any moment. |
| `JobPool` | Abstract: the life of a job, and of the submitter that makes it, between the load balancer and the task queue. |
| `TaskQueue` | The queue and the status records in Redis, with the submitter, the worker and the polling client. |
| `LoadBalancerJobs` | `LoadBalancer` mapped to `JobPool`. |
| `QueueScore` | `calculate_queue_score`. |
| `ServerToken` | The token with which a decryption server is called. |
| `QuotaLedger` | Abstract: the charges of an account, each made in one step. |
| `Admission` | Login, authentication, quota and charging of one account. |
| `PacketParser` | `packet_parser.py` as operators. |
| `PacketAdmission` | `Admission` of packets that `PacketParser` parses. |
| `MCLoadBalancer`, `MCDispatchHistory`, `MCTaskQueue`, `MCRateLimiter` | Symmetry sets, priorities and the bound on time, for TLC. |
| `MCAdmission` | `PacketAdmission` with four strings, two of them recorded packets. |
| `OrderedDictTheorems` | Lemmas about the operators of `OrderedDict`. |
| `LoadBalancerProofs`, `DispatchHistoryProofs`, `TaskQueueProofs`, `RateLimiterProofs`, `AdmissionProofs`, `ServerTokenProofs`, `PacketAdmissionProofs` | The theorems. |

### LoadBalancer

A step is the code between two suspension points. `req[r]` says where the
request in slot `r`, and the job it makes, stand; a slot is used again when both
are over, so that `Req` bounds the requests in flight and not the requests of a
run.

| `req[r].pc` | Where the code is |
|---|---|
| `idle` | no request |
| `nap` | in `handle_key_packet`'s sleep, load_balancer.py:492 |
| `retry` | in `quick_submit`'s sleep, task_routes.py:492 |
| `pushing` | dispatched, before ZADD has been executed |
| `queued` | the job is in `queue:priority` |
| `running` | popped; `process_job` waits for the decryption server |
| `answered` | the server has answered, `process_job` has not gone on |
| `posting` | the job is over, the submitter is still between ZADD and the end of `push_task_to_queue` |

`posting` is also a flag of the later stages: a worker may pop, run and finish a
job before the `SET "queued"` of its submitter returns, and that SET may fail,
upon which the submitter rolls back.

| Action | Code |
|---|---|
| `KeyPacket`, `HandleKeyPacket` and its cases | `handle_key_packet` up to its return or its sleep, called by `quick_submit` |
| `NapOver` and its cases | `handle_key_packet` from its sleep to its return, with what `quick_submit` then does |
| `RetryOver` | an iteration of `quick_submit`'s loop after its sleep |
| `DataPacket` | `handle_data_packet` |
| `Enqueue`, `EnqueueFails`, `Posted`, `PostFails` | `push_task_to_queue` and the rollback |
| `Take`, `JobLost` | `worker_loop`, and `process_job` before its `try` |
| `ServerAnswer`, `FinishJob`, `JobFails` | `process_job` from the server's answer to `on_keygen_result` |
| `Tick` | a second passes |
| `Restart` | the process ends (in any way) and starts again |

Abstractions:

* *Time.* `Tick` is a second. Instead of `busy_until` the model keeps the time
  left, instead of an entry's time stamp its age: these differences are all the
  code computes from the time stamps. `time.time() > busy_until` is false at
  equality, so a server is busy from `ServerBusyTimeout` down to 0 seconds left.
  An age is counted up to one second above the timeout; no comparison of the
  code tells greater ages apart, except with each other, where the order of the
  sequence keeps what is lost. A busy flag the code resets lazily is the
  value -1.
* *Expired entries.* `is_in_processing` deletes an entry past its timeout when it
  meets one. In the model that deletion is part of the step that meets it:
  visible in `NapForServer`, and otherwise followed in the same step by the purge
  of `add_to_processing`.
* *Serial numbers.* A string becomes "there is one" or "there is none", which is
  all the code branches on.
* *The queue* gives its jobs in any order, and can be full at any time.
* *The decryption servers* are external. Each has a set `stored` of keys it has
  generated; `keygen_succ` adds to it, `key_exist` is answered for what is in
  it. They survive a restart.
* *Token refresh, database statistics, status records* happen inside `running`
  and `answered`; all they can do to the load balancer is raise, which is
  `JobFails` or `JobLost`.

Definitions under a comment `Fault:` are not part of the model. Each is a
plausible defect of the definition that follows it; substituting it makes the
property listed with it in `PROJECT.json` ("mutants") fail.

### DispatchHistory

Adds four variables no action reads: `skipped` (dispatches that passed over an
idle server), `slept` (sleeps of a request), `napped` (jobs dispatched right
after a sleep of `handle_key_packet`, which does not look at `_processing_keys`
again) and `exposed` (hashes with a live job that `_processing_keys` has ceased
to protect).

### KeyRecency

Adds one variable no action reads: `older`, the pairs of hashes of which the second
was used after the first was last used. It is kept by who uses a key, and not by what
happens to `_key_cache`: `Asked` is conjoined to each step in which a key packet, a
sleeper that wakes up, or a data packet asks for a hash, and counts as a use if the
hash is cached; `Added` is conjoined to the end of a job. A step that forgot
`move_to_end` would therefore be recorded as a use all the same, and the next
eviction would show it. That a key which is there already is added again counts as a
use only if the key is next to go and makes room for itself: so much the code grants
(see the disagreements).

### TaskQueue

A step is one Redis command with the code up to the next one; Redis executes one
command at a time. A command that raises may have been executed, so each failing
command has both outcomes. A slot `t` is one user with one request at a time;
`Score[t]` is what `calculate_queue_score` gives him for his `Priority[t]` and
`UpdateTime[t]`. `QueueScore` computes on integers; the module says why the floats
of the code order the scores in the same way.

| Variable | Code |
|---|---|
| `client[t]` | the request: `adding` after ZCARD, `setting` after ZADD, `set` after SET "queued" has been executed and before its answer is there, `waiting` in `wait_for_task_result` |
| `waited[t]` | seconds since `start_time` of `wait_for_task_result` |
| `age[t]` | seconds since SET "queued" was executed; read by no action |
| `job[t]` | the job: `queued` in `queue:priority`; `taken` after ZPOPMIN; `running` after SET "processing"; `failing` in the `except` branch |
| `record[t]` | `task:<id>`: its status and the seconds it has left |

| Action | Code |
|---|---|
| `Admit`, `Add`, `SetQueued` | `push_task_to_queue`: ZCARD, ZADD, SET "queued" |
| `BeginWait` | the answer to SET "queued" is there: `wait_for_task_result` takes its `start_time` |
| `AddFails`, `SetQueuedFails` | the same, raising: `quick_submit` ends with an error |
| `Poll`, `PollFails` | the iteration of `wait_for_task_result` that ends it |
| `Take`, `JobLost`, `Start` | `worker_loop`, and `process_job` before its `try` |
| `SaveResult`, `RunFails`, `SaveFailure`, `SaveFailureFails` | `process_job` from the server's answer on |
| `Tick`, `Restart` | as in `LoadBalancer`; Redis survives |

Abstractions: the contents of tasks and records; iterations of the client's loop
that only sleep; equal scores, which Redis orders by the text of the member, are
taken in any order, since the text begins with a random task id. Where the delay of
an answer can change what happens, the answer is a step of its own: between the
execution of SET "queued", which starts the life of the record, and `BeginWait`, which
starts the client's clock, any number of seconds may pass. Both clocks stop counting
at `QueueWaitTimeout`. Task ids are never reused; a slot is, once its client, its job
and its record are gone.

### How the two compose: JobPool

`LoadBalancer` and `TaskQueue` describe the same jobs, one with the tables and
without scores and records, the other the reverse. `JobPool` is the interface:
a submitter begins to push, drops out or has its job enqueued, leaves
`push_task_to_queue`; a job is taken when a worker is free, and ends; a crash
keeps what is queued. `TaskQueue` implements it (`Pool` in `TaskQueue`), so the
queue offers what `JobPool` says; `LoadBalancer` implements it
(`LoadBalancerJobs`), so the load balancer assumes no other behaviour of its
jobs than that: in both, a job enters the queue once, leaves it once, and has
one worker.

### Admission and PacketParser

A step is what the database or Redis does for one command, with the code up to
the next command. `req[r]` says which command comes next.

| `req[r].pc` | Where the code is |
|---|---|
| `token`, `answer` | `validate_token` before GET; with the answer on its way |
| `user`, `password` | before the read of the account, after a token or with a password |
| `quota` | before the second `get_user`, task_routes.py:442 |
| `charge`, `commit`, `select` | in `_charge_user` before UPDATE, COMMIT, SELECT |
| `admitted` | past line 461; the load balancer is next |

| Action | Code |
|---|---|
| `Login`, `StoreToken`, `StoreFails` | `login`, with SETEX in `generate_user_token` |
| `BeginWithToken`, `GetToken`, `TokenAnswer` | `validate_token` |
| `BeginWithPassword`, `ReadUser` | the check of the account, and `parse_packet` |
| `ReadQuota` | lines 440-452 |
| `Update`, `Commit`, `SelectUsed`, `ChargeFails`, `CommitAnswerLost`, `SelectFails` | `_charge_user` |
| `ReadFails` | a command before the charge raises: 500 |
| `Edit` | the administration program edits the row |
| `Tick`, `Restart` | time passes in Redis and in the cache; the process ends and starts |

Accounts do not interact, so there is one. The row is locked from UPDATE to COMMIT
or rollback, and UPDATE reads the newest row, as InnoDB does. Only the answer to
GET has a delay of its own (`ReplyDelay`), because only there can the
passing of time change what the answer means. Assumed: tokens are distinct (the
id in them is random), `remaining_requests` is not NULL, and administrators edit
the status and `total_requests` only. `age`, `paid`, `wasted` and `active` are
read by no action.

`QuotaLedger` is what the commands are to come to: a request of an active account is
let in freely if there is no limit, or owes a charge; a charge is one step, within
the limit of that moment; it lets its request in or is counted as lost; an edit never
changes what has been used; a crash loses the charges of the requests in progress.
`Standing` in `Admission` maps the stages of a request to those of the ledger:
before the account has been read a request is `out`; then its stage says whether it
has seen a limit; before UPDATE and before COMMIT it is `due`, so that COMMIT, not
UPDATE, is the charge. A failure takes it `out`, with its charge lost if there is one;
`Restart` is the ledger's crash. The
mapping shows a detail that is easily missed: an account deleted after it was read is
let in, or has to be charged in vain, by the limit it had then
(task_routes.py:442-452).

`PacketParser` is a function from strings to kind and drone. A string is a
sequence of digits and separators; a digit is the k-th when k digits stand up to
its place, which says what the filter of `hex_string_to_bytes` does without
recursion. Exclusive or is computed bit by bit. `PacketAdmission` lets requests
carry strings: `Text[p]` is any sequence of characters, and the inputs called
useful in `Admission` are those for which `Parse` returns a key or a data packet.
`MCAdmission` has four strings: a key packet and a data packet recorded from one
drone (tests/drone_one_100data.txt), the latter with separators, one of an unknown
kind and one that is too short. `Remask` is not in the code: it is what undoes
`demask_for_176_byte`.

### ServerToken

A slot is a coroutine that calls the server: a worker, or a request with a data
packet, which passes neither the queue nor the limiter. `call[c].pc` is `login`
(GET `/api/login` is on its way), `issued` (the server has answered it),
`calling`, then `served` or `refused`. The server gives out a fresh token for a
login, and may revoke tokens at any time. `since[c]`, read by no action, holds
the tokens issued since the call was last refused.

| Action | Code |
|---|---|
| `Begin`, `LoginAnswered` | `decrypt_with_retry`, `get_valid_token_for_server` up to the request |
| `CallRefused`, `Retry` | a 401 or an answer that speaks of an invalid token: `invalidate_token` and the next attempt, or the end |
| `CallServed`, `CallFails` | the call returns; the login or the request raises |
| `Issue`, `Serve`, `Revoke` | the server |
| `Hour`, `Restart` | the clock of `need_refresh_token`; a new process |

### RateLimiter

The unit of time is `1 / (rate * Token)` seconds, so that all quantities of
`acquire` are integers. `acquire` holds the lock while it sleeps: one state
variable, `wakeAt`, tells whether somebody sleeps inside. Calls arrive whenever
the lock is free. `granted` and `slept` count and are read by no action.

`RateWindow` adds an observer who writes down, in `mark`, when it is and what has
been granted, as often as he likes. What has been granted since is what a window of
time that begins at any moment has let through.

## 3. What the runs check

| Run | Bounds | Shows |
|---|---|---|
| `tables` | 1 server, 3 hashes, 2 requests, both tables 2, timeouts 1 s | `TablesWellFormed`, `ProcessingInTimeOrder`, `LeastRecentlyUsedGoes` of `KeyRecency`, `ImplementsJobPool` of `LoadBalancerJobs` |
| `progress` | 1 server, 2 hashes, 2 requests, both tables 1, 1 attempt, servers busy 1 s, keys 0 s | `TypeOK`, `SleepsBounded`, `ProtectedKeyHasOneJob`, `NoHashBlockedForever`, `BusyServerRecovers`, `WaitEnds` |
| `fair` | 2 servers, 2 hashes, 2 requests, both tables 1, no attempt after the first, timeouts 0 s | `CacheProcessingDisjoint`, `SnIsReal`, `NoServerPassedOver` |
| `queue` | 3 tasks, limit 1, timeout 2 s, 1 worker, 2 requests in progress | `TypeOK`, `QueueBounded`, `RecordOutlivesWait`, `FinalStatusKept`, `ServedInOrder`, `ImplementsJobPool` of `TaskQueue`, `ClientAnswered`, `FirstInLineServed` |
| `rate` | rate 2, 3 units to a token, 24 instants | `TypeOK`, `AtMostTwiceTheRate`, `WindowedRate` |
| `admission` | 2 requests, 1 token, 4 packets, limits of 1, 2 and none, times 1, 2 and a delay of 1 | `TypeOK`, `ChargesAccountedFor`, `AdmittedWhileActive`, `QuotaKept`, `TokenExpires`, `ImplementsLedger`, `NothingLost`, `KeyAndDataAgree` |
| `token` | 2 callers, 4 tokens, 1 retry, refresh after 1 hour | `TypeOK`, `RetryUsesNewToken`, `CallComesToAnEnd`, `LoginsDieDown` |
| `duplicate` | 1 server, 2 hashes, 2 requests | *violates* `NoDispatchWhileProcessing` |
| `expired` | 3 tasks, timeout 1 s | *violates* `ExpiredTaskNotProcessed` |
| `stored` | 3 tasks, timeout 2 s | *violates* `ResponseStaysStored` |
| `priority` | the 3 accounts of `sql/sys_user.sql` | *violates* `PriorityFirst` |
| `rateclaim` | as `rate` | *violates* `AtMostTheRate` |

**Why the bounds are enough.** A timeout of one second has the three cases the
code distinguishes: fresh, at the timeout, past it; one of 0 seconds has two, at
the timeout and past it, with less to explore. In `queue` a timeout of two seconds
lets a record be younger or older than its client's wait, and be renewed when half of
its life is over. A capacity smaller than the
number of hashes makes every table overflow; a capacity of two, in `tables`,
shows the order of two entries, of which a hit swaps one with the other before the
third hash evicts. Two requests for one hash are the smallest race,
and another hash fills a table of one entry while the race is on. Entries whose
job is over or lost stay in `processing` and need no slot, so two slots fill a
table of any size. Two servers tell "a server" from "the server that has the
key". The small bounds of `fair` and `progress` are paid for by the theorems of
section 4, which hold the safety properties of both runs for all numbers: the
runs show that they are not empty (each fails for the defect listed with it) and
check the liveness properties, which the prover cannot. Hashes and slots are
interchangeable in the safety runs, which therefore use symmetry; the runs with
liveness properties do not. None of the runs but `rate` and `rateclaim`, which
`MaxTime` ends, bounds the length of a behaviour: their state spaces are finite
and explored whole. The rate run lasts the emptying of the bucket and ten more
tokens, several times the period of sleep and double credit.

The number of workers does not bind in `tables`, with its two requests; it does
in `queue`, and the theorems of section 4 hold for every number.

In the runs of `TaskQueue` one task is urgent and two have equal priority, one of
them without a date; two requests in progress pass a size check together, and
a third task is in the queue, forgotten by its client, while they do.
`MaxClients` bounds the requests in progress and is a parameter of
`QueueBounded`; nothing else is bounded, and tasks are submitted for ever. The
violation runs use `PromptSpec`, the behaviours in which Redis never fails and
free workers take jobs at once: the disagreements need neither failures nor a
stalled worker.

In `admission` a limit of 1 makes two requests compete for one charge, and one
of 2 lets both in; the number of charges is bounded, since each request that
charges has passed the check of a limit before. One token is given out again when nothing
knows it any more. The times differ, so that one cannot stand for another. In
`token` each of two callers holds at most one token beside the one stored, so
that with four names a login never waits for one.

**Fairness.** `LiveSpec` assumes that seconds pass (`WF(Tick)`) and that the
event loop resumes a sleeper whose second is over (`WF(NapOver)`,
`WF(RetryOver)`): asyncio runs every timer that is due. It assumes nothing of
Redis, of the decryption servers or of the workers: a job may stay in any stage
for ever, and the liveness properties hold all the same.

`TaskQueue`'s `LiveSpec` assumes that seconds pass, that a client that polls is
resumed, that a worker that is free takes a job when there is one
(`worker_loop` never ends before shutdown), and that a worker gets on with its
job in one way or another: its calls of Redis and of the server return or raise.
It does not assume that any of them succeeds. `ClientAnswered` needs the clock
alone; `FirstInLineServed` needs the workers.

`LiveHistorySpec` is `LiveSpec` of `LoadBalancer` with the history variables.
`ServerToken`'s `LiveSpec` assumes of each call in progress that it gets on or
fails: a login and a request have a time limit of 30 seconds each (worker.py:40,
91). It does not assume that the server answers.

### Disagreements with the code's own comments

Five have a run that shows them.

1. *Double processing* (`duplicate`). Two requests for one hash find all servers
   busy and sleep in `handle_key_packet`. Both wake up, find an idle server and
   are dispatched: after the sleep the code looks at the cache but not at
   `_processing_keys`, and ignores that `add_to_processing` returned False
   (load_balancer.py:512), which its comment (346) calls an atomic check.
   `ProtectedKeyHasOneJob` shows that this is the only way round a live entry.
2. *Tasks nobody waits for* (`expired`). A test (tests/test_queue_capacity.py:110)
   says the worker checks the status of a task to tell whether it has timed out.
   `process_job` overwrites the status unseen (worker.py:189) and processes the
   task.
3. *A response that is lost* (`stored`). `SET "queued"` comes after the job is in
   the queue (task_service.py:92). When a worker has finished the job by then, it
   overwrites the response stored for the client (worker.py:240), who polls until
   the timeout. `FinalStatusKept` shows that it takes the late SET: once the
   client waits, a final status stays final.
4. *The rate* (`rateclaim`). After a sleep `acquire` sets `tokens` to 0 but
   leaves `last_refill` at the start of the sleep, so that the next call is
   credited with the same time again. `AtMostTwiceTheRate` is the bound that
   holds.
5. *Priority* (`priority`). A user whose `update_time` is missing gets 0 where
   others get about -1.77e15, more than the 1e15 of a level of priority, "the most
   important factor" (task_service.py:30). Of the accounts the database comes with,
   `ceshi` (priority 1) is overtaken by `ceshi1` (priority 2). `ServedInOrder` is
   the order that holds.

The others are what properties that hold say in a weaker form than a comment, or than
one would expect:

* `_key_cache` is said to be LRU (load_balancer.py:129, 290). Only `get_key_info`
  counts as a use: a key that is added again keeps its place, and in a full cache
  another key, or the key itself, is dropped for it although there is room
  (255-270). With use understood so, `LeastRecentlyUsedGoes` holds: whatever is
  dropped was used before all that stays.
* A `keygen_busy` answer puts its hash into `_key_cache` (load_balancer.py:587),
  said to hold keys that have been decrypted (128); `SnIsReal` is about the
  entries with a serial number.
* The 36 attempts of `quick_submit`'s loop, said to wait 36 seconds at most
  (task_routes.py:465), can sleep twice each; `SleepsBounded` has `1 + 2 * 36`.
* The record of a task and its client have the same time, `queue_wait_timeout`, but
  the record's starts first, when SET "queued" is executed, and the client's when the
  answer is there (task_service.py:92-96, task_routes.py:257). A client whose answer was
  late is turned away by the missing record (274) before its own time is over.
  `RecordOutlivesWait` says that this is the only way a record can be gone too soon.
* ZCARD and ZADD are two commands, so that `max_queue_size`, "the maximum length
  of the queue" (config.py:27), is overrun by requests that pass the check
  together; `QueueBounded` has `MaxQueueSize - 1 + MaxClients`.
* A BUSY server is said to be one that processes a key packet
  (load_balancer.py:30); the code marks a server busy only after a `keygen_busy`
  answer.
* `handle_data_packet` is said to answer `key_gen_busy` for a hash that is being
  processed (load_balancer.py:534); it answers `nokey`.
* A failed `_charge_user` is said to mean that the quota is used up
  (task_routes.py:457); it may also mean that the charge was made and its answer
  lost, which `ChargesAccountedFor` counts as `wasted`. A request that is let in
  is charged whatever comes of it, against worker.py:306, "other cases are not
  charged".
* `remaining_requests` counts the requests used, not those that remain
  (models.py:23). An account whose `total_requests` is NULL has no limit
  (task_routes.py:446), while the queries show it as `n/0`.
* A token is said to last 24 hours (task_routes.py:311, 370); it lasts 48, and up to
  30 minutes more in the cache: `TokenExpires` has the sum.
* Among equal priorities the account *updated* last comes first, not the one
  created last (task_service.py:51).
* b_max_concurrency and b_rate_limit are said to bound the requests sent to the
  servers (config.py:24-25); data packets pass by both.

## 4. What is proved

For every number of servers, hashes and requests, every capacity above 0 and
every timeout (`CapacityAssumption`, `TimeoutAssumption`, `CountAssumption`):

* `TypeCorrect`, `TablesStayWellFormed`, `CachedNotProcessing`,
  `SerialNumbersReal` and `OldestComesFirst` (`LoadBalancerProofs`):
  `Spec => []TypeOK`, `[]TablesWellFormed`, `[]CacheProcessingDisjoint`, `[]SnIsReal`
  and `[]ProcessingInTimeOrder`; and `CacheIsLru` (also there):
  `RecencySpec => LeastRecentlyUsedGoes`, of `KeyRecency`.
* `RoundRobinIsFair`, `RequestsSleepBoundedly` and `ProtectionHolds`
  (`DispatchHistoryProofs`): `HistorySpec => []NoServerPassedOver`,
  `[]SleepsBounded` and `[]ProtectedKeyHasOneJob`.
* `LoadBalancerImplementsJobPool` (also there): every step of the
  load balancer is a step of `JobPool` or a stutter.
* `TypeCorrect`, `QueueStaysBounded`, `NoEarlyExpiry`, `FinalStays` and
  `QueueImplementsJobPool` (`TaskQueueProofs`), for every finite set of tasks,
  every priority and date, limit, timeout, number of workers and of requests in
  progress (`TaskAssumption`, `UserAssumption`, `SizeAssumption`,
  `WeightAssumption`); and `UsersServedInOrder`, which also needs that no two
  dates are further apart than the weight of a priority, 31 years (`DatesClose`).
* `TypeCorrect`, `EveryChargeAccountedFor`, `OnlyActiveAdmitted`, `QuotaIsKept`,
  `TokensExpire` and `AdmissionImplementsLedger` (`AdmissionProofs`), for every finite set of requests, every set
  of tokens and packets, every choice of limits and times (`NameAssumption`,
  `TotalAssumption`, `TimeAssumption`).
* `TypeCorrect` and `RetriesUseNewTokens` (`ServerTokenProofs`), for any number of
  callers, tokens, retries and hours (`TokenAssumption`, `NumberAssumption`).
* `TypeCorrect`, `RateBound` and `WindowBound` (`RateLimiterProofs`), for every rate
  and every fineness of the clock; the first two of `RateLimiter`, the last of
  `RateWindow`.
* `DemaskRecoverable`, `SeparatorsIgnored`, `ParserReadsWhatWasSent` and
  `NothingIsLost` (`PacketAdmissionProofs`): every 176 bytes can be had back from what
  `demask_for_176_byte` makes of them; strings with the same digits in the same order
  are parsed alike; what is masked, interleaved and written for the parser, with
  separators anywhere, is classified by its own bytes; and `Spec => []NothingLost` for every set of strings, of any
  length (`TextAssumption`, `UsefulAssumption`, and those of `Admission`).

**Argument for the load balancer.** The conjunction `IInv` of the four
properties is inductive. They need each other: that a dispatch keeps the table
of keys being processed within its capacity needs its type; that adding a key
keeps the tables disjoint needs that `on_keygen_result` has removed the hash
*and* that each table holds it once; `SnIsReal` covers answers on their way as
well as the cache, because a serial number reaches the cache from an answer a
step later. `Invariance` has one step per action. What a table operation does
is proved once in `OrderedDictTheorems` (what `Assign`, `MoveToEnd`, `Discard`, `Only`
and `EvictWhileFull` do to keys, order, values and length) and cited by name. `Only`,
the purge, keeps the items at a set of positions: the positions are numbered by how
many of them are not later (`UpTo`), each number has its position because a set of
naturals has a least element (`WFMin`, where induction is out of reach), and the
numbering keeps the order.

`OldestComesFirst` is proved on top of `IInv`, operation by operation: an entry
that is added is the youngest, eviction leaves a suffix, purge and removal leave
the order of the rest, and a second ages all entries alike up to the cap.

`CacheIsLru` needs an invariant of its own, `CacheInUseOrder`: a key that stands before
another in `_key_cache` was used before it, and `older` never has a pair both ways. A
hit moves the key to the end and makes it the last one used (`UsedKeyLast`). For a key
that is added there are two cases (`AddInUseOrder`). If it is not there once room has
been made, it goes last, and is recorded as used: it is new, or it was the first key of
a full cache, which by the invariant is the one next to go. If it is still there it
keeps its place and is not recorded: a full cache has dropped another key, used before
it, so that it was not next to go. What is dropped stands before all that stays, and
was therefore used before it. `RecencyMoves` has one step per action; that every step of
`RecencySpec` is one of `Spec` brings in the invariants of the tables.

**Argument for the histories.** `HInv` adds to `IInv` what the counters have to
do with the state. `SkipsFit`: before a server that was passed over `n`
times at most `NumServers - 1 - n` others have their turn; a dispatch brings every
idle server it passes over nearer by one turn at least. `SleepsFit`: the sleeps of
a request are what its stage and attempt say. `JobsFit`: a hash that is not
exposed and has a job is being processed, so that a dispatch that looks at
`_processing_keys` finds it there and makes no second job. `ExposedLive`: only
hashes with a job are exposed.

**Argument for the task queue.** Four strengthenings make the properties
inductive. `QueueRoom`: queued tasks and requests between ZCARD and ZADD
together stay within `MaxQueueSize - 1 + MaxClients`; the queue alone is bounded
but not inductively so, because a request that has passed the check adds its
task whatever the queue has become. `RecordLife`: from SET "queued" until the wait ends, the record has at least the rest
left of the time that began with that SET, whatever the worker has written since. `NotYetFinal`: a job whose
result is still to be stored has no final record; with `NothingBeforeAdd` (no job and no record before ZADD) this gives
`FinalStays`. The refinement maps each action to the one of `JobPool` that
changes the same stage, or to a stutter.

**Argument for the order of service.** `ScoreOrder` is arithmetic: dates less
than `PriorityWeight` apart cannot make up for a level of priority. `Take` takes
a task with the least score.

**Argument for admission.** `LockFits`: exactly the request between UPDATE and
COMMIT holds the lock, and if its UPDATE has found the row the row still
satisfies the WHERE clause, since nobody else can change it; this is what
`QuotaKept` needs at COMMIT, two steps after the check. `ChargesAccountedFor` is
inductive with it. `ActiveFits`: every request past the check of the account was
in progress while it was active. `TokensFit`: the age of a token and the time it
has left in Redis, in an answer, or in the cache add up to at most the sum of
those times.

**Argument for the ledger.** A lemma for each kind of step says where the requests
stand after it (`LedgerMove`, `LedgerStill`). What takes five commands is one charge
because of `LockFits`: from UPDATE to COMMIT nobody else changes the row, so the
WHERE clause that UPDATE has checked is still true at COMMIT, which can then be a step
of the ledger within the limit of that moment. Commands before the account has been
read, and UPDATE itself, are stutters. For a restart, the requests that have committed
and go on to SELECT are those the ledger counts as charged (`LedgerCardinality`).

**Argument for the server's token.** `RetryUsesNewToken` is inductive with the
type: a refused call forgets the stored token and logs in, and a token that is
issued for it is in its `since`.

**Argument for the composition.** `OneSlot` reduces a step that touches one slot to
what it does to the slot's stage and submitter. There is one lemma for each kind
of step: a request that arrives or wakes up, a push, a worker's step, a
restart, a second that passes.

**Argument for the rate limiter.** `AtMostTwiceTheRate` is not inductive. `Credit`
strengthens it to an accounting of tokens granted, tokens in the bucket and time
slept, and `SleepsFit` says that the sleeps that are over and the one that is
under way fit into the time until the last refill or the wake-up; twice the time
is then the inflow once, and the time slept once more. For `WindowBound`,
`WindowCredit` opens a second account at `mark`: `Available` is the bucket as the
next refill leaves it, with the token of a caller who sleeps, and `Pending` the time
he still sleeps. What has been granted since the mark and what is available come to
at most a bucket, one token, the inflow and the time of sleeps since, and the sleeps
fit into the window but for what is pending. There is one lemma for each action.

**Argument for the parser.** `InverseTables`: each of the 176 places has exactly one
source, which the prover finds from the table entry by entry. `XorUndone`: masking
twice gives a byte back, bit by bit. For the strings, the digits have the ranks
`1 .. n`, each once (`RankByPlace`, `PlaceOfRank`; again a least element and not
induction). `SameRank`: a map of the digits of one string to those of another that
keeps their order keeps their ranks, so that both strings have the same digits,
which are all that `Parse` looks at. For the way back the tables are inverse in both
directions (`RemaskUndone`), a string without separators is its own digits, and a byte
is what its two digits say.

**Only model-checked.**

* The liveness properties: the prover knows neither fairness nor ENABLED.
* `KeyAndDataAgree`: it is about two recorded packets, and TLC computes it. What holds
  for all packets is `ParserReadsWhatWasSent`: packets made for one drone, one with the
  first byte of a key packet and one with that of a data packet, yield that drone. That
  the recorded packets have been made so is a fact about the recording.

## 5. What is not modelled

* *The concurrency semaphore.* Only workers enter it, and there are
  `max(servers, 2)` of them against 200 permits by default: it does not block.
* *Orderly shutdown* as such. It cancels the workers wherever they wait. A
  cancelled worker writes nothing more to Redis, because `CancelledError` passes by
  the `except Exception` of `process_job`, and what it still does in memory dies with
  the process. To everything that survives, this is the crash that `Restart`
  models at every point.
* *Statistics*: the updates of `server_stats`, `lastRequestTime` and the log rows in
  `process_job` and in the data-packet path. Their failures are swallowed, and
  nothing in the application reads them back. The daily clean-up deletes such
  rows by age.
* *The user query routes* change nothing.
* *The legacy key cache*: `key_cache.py` is imported by `worker.py`, and what is
  imported is not called.
* Configuration, database set-up, models and schemas have no behaviour; the
  values that matter are constants of the modules.
* The scripts under `tests/` that need a running service are used only as
  statements of what is expected, and as a source of packets.
* What is the same for every module: the wording of answers and logs, the
  contents of JSON.
