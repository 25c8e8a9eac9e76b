-------------------------- MODULE DispatchHistory --------------------------
(***************************************************************************)
(* LoadBalancer with a memory: variables that record what happened and that *)
(* no action of the code reads.  They state properties of whole histories:  *)
(* how often a server was passed over, how long a request slept, and which  *)
(* hashes kept the protection of _processing_keys.                          *)
(***************************************************************************)
EXTENDS LoadBalancer

VARIABLES
  skipped,   \* per server: dispatches to others since it was last used or busy
  slept,     \* per slot: sleeps of its request so far
  napped,    \* slots whose job was dispatched right after a sleep of
             \* handle_key_packet, without a look at _processing_keys
  exposed    \* hashes with a job that _processing_keys has ceased to protect

history == <<skipped, slept, napped, exposed>>

LiveJobs(h) ==
  {r \in Req : /\ req[r].pc \in {"pushing", "queued", "running", "answered"}
              /\ req[r].hash = h}

HistoryInit ==
  /\ Init
  /\ skipped = [s \in Servers |-> 0]
  /\ slept = [r \in Req |-> 0]
  /\ napped = {}
  /\ exposed = {}

\* A dispatch to s passes over every other server that is idle.
RecordSkips ==
  skipped' =
    IF \E r \in Req : Dispatched(r)
      THEN [s \in Servers |->
             IF IsBusy(s) \/ lastDispatch' = s
               THEN 0
               ELSE skipped[s] + 1]
    ELSE IF lastDispatch' = -1
      THEN [s \in Servers |-> 0]
    ELSE skipped

FallsAsleep(r) ==
  req'[r].pc \in {"nap", "retry"} /\ req'[r].pc # req[r].pc

RecordSleeps ==
  slept' = [r \in Req |-> IF req'[r].pc = "idle" THEN 0
                         ELSE IF FallsAsleep(r) THEN slept[r] + 1
                         ELSE slept[r]]

RecordNaps ==
  napped' = {r \in Req : \/ (Dispatched(r) /\ req[r].pc = "nap")
                       \/ (r \in napped /\ req'[r].pc # "idle")}

\* A hash is exposed from the moment one of its jobs is live without an entry
\* that counts, until none of its jobs is.
RecordExposure ==
  exposed' = {h \in Hash :
    /\ LiveJobs(h)' # {}
    /\ h \in exposed \/ ~InProcessing(processing', h)}

HistoryNext ==
  /\ Next
  /\ RecordSkips
  /\ RecordSleeps
  /\ RecordNaps
  /\ RecordExposure

HistorySpec == HistoryInit /\ [][HistoryNext]_<<vars, history>>

LiveHistorySpec == HistorySpec /\ Fairness

-----------------------------------------------------------------------------
(* Properties.                                                             *)

\* get_idle_server is fair (load_balancer.py:183-184): a server that stays idle
\* is passed over at most once for each other server, whatever the others do in
\* the meantime.
NoServerPassedOver == \A s \in Servers : skipped[s] <= NumServers - 1

\* A request sleeps at most once in its first call of handle_key_packet and twice
\* in each iteration of quick_submit's loop, so that what task_routes.py:465 calls
\* a wait of 36 seconds is up to 73.
SleepsBounded == \A r \in Req : slept[r] <= 1 + 2 * MaxWaitAttempts

\* As long as _processing_keys protects a hash, it has one job, not counting those
\* dispatched right after a nap: a second one needs an entry that timed out, was
\* evicted, was rolled back or removed with another job, or died with the
\* process.
ProtectedKeyHasOneJob ==
  \A h \in Hash \ exposed : Cardinality(LiveJobs(h) \ napped) <= 1

=============================================================================
