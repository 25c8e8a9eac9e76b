----------------------- MODULE DispatchHistoryProofs ------------------------
(***************************************************************************)
(* How long servers are passed over and requests sleep, for every number of *)
(* servers, requests and hashes, every capacity and every timeout.          *)
(***************************************************************************)
EXTENDS DispatchHistory, LoadBalancerProofs

\* A server that was passed over so often is so much nearer to its turn.
SkipsFit ==
  \A s \in Servers : skipped[s] \in Nat /\ skipped[s] <= NumServers - 1 - Offset(s)

\* A request has slept once per call of handle_key_packet and once per iteration of
\* the loop around it.
SleepsFit ==
  \A r \in Req :
    /\ slept[r] \in Nat /\ slept[r] <= 1 + 2 * MaxWaitAttempts
    /\ req[r].pc = "idle" => slept[r] = 0
    /\ req[r].pc = "nap" => slept[r] = 2 * req[r].attempt + 1
    /\ req[r].pc = "retry" => slept[r] = 2 * req[r].attempt + 2

\* Two jobs that count against a hash that is not exposed are one; and a hash that
\* has a job and is not exposed is being processed.
JobsFit ==
  \A h \in Hash \ exposed :
    /\ \A r, t \in LiveJobs(h) \ napped : r = t
    /\ LiveJobs(h) # {} => InProcessing(processing, h)

\* Only hashes that have a job are exposed.
ExposedLive == exposed \subseteq {h \in Hash : LiveJobs(h) # {}}

HInv ==
  /\ IInv
  /\ skipped \in [Servers -> Nat] /\ SkipsFit
  /\ slept \in [Req -> Nat] /\ SleepsFit
  /\ JobsFit /\ ExposedLive

-----------------------------------------------------------------------------
(* What a step does to the slots and to the last server used.              *)

Asleep == {"nap", "retry"}

\* Request r has been dispatched to the next idle server.
Placing(r) ==
  /\ req'[r].pc = "pushing"
  /\ \E s \in Servers : NextIdleServer(s) /\ lastDispatch' = s

\* handle_key_packet, in its a-th call.
LEMMA HandleMoves ==
  ASSUME req \in [Req -> RequestState], NEW r \in Req, NEW h, NEW a,
         HandleKeyPacket(r, h, a)
  PROVE  /\ \A s \in Req \ {r} : req'[s] = req[s]
         /\ \/ Placing(r)
            \/ req'[r].pc = "idle" /\ lastDispatch' = lastDispatch
            \/ req'[r].pc = "nap" /\ req'[r].attempt = a /\ lastDispatch' = lastDispatch
  <1>1. CASE KeyExists(r, h)
    BY <1>1 DEF KeyExists, Idle
  <1>2. CASE KeyGenBusy(r, h)
    BY <1>2 DEF KeyGenBusy, Idle
  <1>3. CASE DispatchNewKey(r, h)
    <2>1. PICK s \in Servers :
            /\ NextIdleServer(s) /\ lastDispatch' = s
            /\ req' = [req EXCEPT ![r] = [pc |-> "pushing", hash |-> h,
                                          server |-> s, posting |-> TRUE]]
      BY <1>3 DEF DispatchNewKey, Dispatch
    <2>2. req'[r].pc = "pushing" /\ \A t \in Req \ {r} : req'[t] = req[t]
      BY <2>1
    <2> QED
      BY <2>1, <2>2 DEF Placing
  <1>4. CASE NapForServer(r, h, a)
    <2>1. req' = [req EXCEPT ![r] = [pc |-> "nap", hash |-> h,
                                     attempt |-> a, due |-> FALSE]]
      BY <1>4 DEF NapForServer
    <2>2. /\ req'[r].pc = "nap" /\ req'[r].attempt = a
          /\ \A t \in Req \ {r} : req'[t] = req[t]
      BY <2>1
    <2> QED
      BY <1>4, <2>2 DEF NapForServer
  <1> QED
    BY <1>1, <1>2, <1>3, <1>4 DEF HandleKeyPacket

\* Waking up from the sleep in handle_key_packet.
LEMMA NapMoves ==
  ASSUME req \in [Req -> RequestState], NEW r \in Req, NapOver(r)
  PROVE  /\ req[r].pc = "nap"
         /\ \A s \in Req \ {r} : req'[s] = req[s]
         /\ \/ Placing(r)
            \/ req'[r].pc = "idle" /\ lastDispatch' = lastDispatch
            \/ /\ req'[r].pc = "retry" /\ req'[r].attempt = req[r].attempt
               /\ lastDispatch' = lastDispatch
  <1> DEFINE h == req[r].hash
  <1>1. req[r].pc = "nap"
    BY DEF NapOver
  <1>2. CASE NapKeyExists(r, h)
    BY <1>1, <1>2 DEF NapKeyExists, Idle
  <1>3. CASE NapDispatch(r, h)
    <2>1. PICK s \in Servers :
            /\ NextIdleServer(s) /\ lastDispatch' = s
            /\ req' = [req EXCEPT ![r] = [pc |-> "pushing", hash |-> h,
                                          server |-> s, posting |-> TRUE]]
      BY <1>3 DEF NapDispatch, Dispatch
    <2>2. req'[r].pc = "pushing" /\ \A t \in Req \ {r} : req'[t] = req[t]
      BY <2>1
    <2> QED
      BY <1>1, <2>1, <2>2 DEF Placing
  <1>4. CASE NapInVain(r, h)
    <2>1. req' = [req EXCEPT ![r] =
                    IF AttemptLeft(req[r].attempt)
                      THEN [pc |-> "retry", hash |-> h,
                            attempt |-> req[r].attempt, due |-> FALSE]
                      ELSE Idle]
      BY <1>4 DEF NapInVain
    <2>2. CASE AttemptLeft(req[r].attempt)
      <3>1. req'[r] = [pc |-> "retry", hash |-> h,
                       attempt |-> req[r].attempt, due |-> FALSE]
        BY <2>1, <2>2
      <3>2. req'[r].pc = "retry" /\ req'[r].attempt = req[r].attempt
        BY <3>1
      <3> QED
        BY <1>1, <1>4, <2>1, <3>2 DEF NapInVain
    <2>3. CASE ~AttemptLeft(req[r].attempt)
      BY <1>1, <1>4, <2>1, <2>3 DEF NapInVain, Idle
    <2> QED
      BY <2>2, <2>3
  <1> QED
    BY <1>2, <1>3, <1>4 DEF NapOver

\* Steps of a request that has been dispatched, and of its job.
LEMMA PlacedMoves ==
  ASSUME req \in [Req -> RequestState], NEW r \in Req, PushStep(r) \/ WorkerStep(r)
  PROVE  /\ \A s \in Req \ {r} : req'[s] = req[s]
         /\ req[r].pc \notin Asleep \cup {"idle"}
         /\ req'[r].pc \notin Asleep
         /\ lastDispatch' = lastDispatch
  <1>1. /\ req[r].pc \in {"pushing", "queued", "running", "answered", "posting"}
        /\ lastDispatch' = lastDispatch
    BY DEF PushStep, Enqueue, EnqueueFails, Posted, PostFails, EndPosting, InFlight,
           WorkerStep, Take, JobLost, ServerAnswer, FinishJob, JobFails
  <1>2. \A job : Over(job).pc \in {"idle", "posting"}
    BY DEF Over, Idle
  <1>3. ASSUME NEW x, req' = [req EXCEPT ![r] = x], x.pc \notin Asleep
        PROVE  /\ \A s \in Req \ {r} : req'[s] = req[s]
               /\ req'[r].pc \notin Asleep
    BY <1>3
  <1>4. CASE Enqueue(r) \/ Take(r)
    <2>1. PICK p \in {"queued", "running"} : req' = [req EXCEPT ![r].pc = p]
      BY <1>4 DEF Enqueue, Take
    <2>2. req'[r].pc = p /\ \A s \in Req \ {r} : req'[s] = req[s]
      BY <2>1 DEF RequestState, Idle, Sleeping, Placed, Answered, Posting
    <2> QED
      BY <1>1, <2>2 DEF Asleep
  <1>5. CASE EnqueueFails(r)
    BY <1>1, <1>5 DEF EnqueueFails, Idle, Asleep
  <1>6. CASE Posted(r) \/ PostFails(r)
    <2>1. \/ req' = [req EXCEPT ![r] = Idle]
          \/ req' = [req EXCEPT ![r].posting = FALSE]
      BY <1>6 DEF Posted, PostFails, EndPosting
    <2>2. req'[r].pc \in {"idle", req[r].pc} /\ \A s \in Req \ {r} : req'[s] = req[s]
      BY <2>1 DEF RequestState, Idle, Sleeping, Placed, Answered, Posting
    <2> QED
      BY <1>1, <2>2 DEF Asleep
  <1>7. CASE JobLost(r) \/ FinishJob(r) \/ JobFails(r)
    <2>1. req' = [req EXCEPT ![r] = Over(req[r])]
      BY <1>7 DEF JobLost, FinishJob, JobFails
    <2> QED
      BY <1>1, <1>2, <1>3, <2>1 DEF Asleep
  <1>8. ASSUME NEW a \in Answer, ServerAnswer(r, a)
        PROVE  /\ \A s \in Req \ {r} : req'[s] = req[s]
               /\ req'[r].pc \notin Asleep
    <2> DEFINE x == [pc |-> "answered", hash |-> req[r].hash, server |-> req[r].server,
                     posting |-> req[r].posting, answer |-> a]
    <2>1. req' = [req EXCEPT ![r] = x] /\ x.pc = "answered"
      BY <1>8 DEF ServerAnswer
    <2> HIDE DEF x
    <2> QED
      BY <1>3, <2>1 DEF Asleep
  <1> QED
    BY <1>1, <1>4, <1>5, <1>6, <1>7, <1>8 DEF PushStep, WorkerStep, Asleep


-----------------------------------------------------------------------------
(* What a step of the system does to them.                                 *)

\* What happens to slot r in a step, as far as sleeping is concerned.
SleepMove(r) ==
  \/ req'[r].pc \notin Asleep
  \/ req[r].pc = "idle" /\ req'[r].pc = "nap" /\ req'[r].attempt = 0
  \/ /\ req[r].pc = "retry" /\ req'[r].pc = "nap"
     /\ req'[r].attempt = req[r].attempt + 1
  \/ /\ req[r].pc = "nap" /\ req'[r].pc = "retry"
     /\ req'[r].attempt = req[r].attempt
  \/ req'[r].pc = req[r].pc /\ req'[r].attempt = req[r].attempt

\* No server is chosen in this step, and no request is dispatched.
NoDispatch ==
  /\ \A r \in Req : ~Dispatched(r)
  /\ lastDispatch' \in {lastDispatch, -1}

NextDispatch ==
  /\ \E r \in Req : Dispatched(r)
  /\ \E s \in Servers : NextIdleServer(s) /\ lastDispatch' = s

StepMoves ==
  /\ NoDispatch \/ NextDispatch
  /\ \A r \in Req : SleepMove(r)

\* A step of one request that chooses the next idle server, or none at all.
LEMMA OneRequestMoves ==
  ASSUME NEW r \in Req,
         \A s \in Req \ {r} : req'[s] = req[s],
         SleepMove(r),
         \/ Placing(r) /\ req[r].pc \in {"idle", "nap", "retry"}
         \/ req'[r].pc # "pushing" /\ lastDispatch' = lastDispatch
         \/ req[r].pc \notin {"idle", "nap", "retry"} /\ lastDispatch' = lastDispatch
  PROVE  StepMoves
  <1>1. \A s \in Req : SleepMove(s)
    BY DEF SleepMove
  <1>2. \A s \in Req \ {r} : ~Dispatched(s)
    BY DEF Dispatched
  <1>3. CASE Placing(r) /\ req[r].pc \in {"idle", "nap", "retry"}
    BY <1>1, <1>3 DEF Placing, Dispatched, NextDispatch, StepMoves
  <1>4. CASE \/ req'[r].pc # "pushing" /\ lastDispatch' = lastDispatch
             \/ req[r].pc \notin {"idle", "nap", "retry"} /\ lastDispatch' = lastDispatch
    <2>1. ~Dispatched(r)
      BY <1>4 DEF Dispatched
    <2> QED
      BY <1>1, <1>2, <1>4, <2>1 DEF NoDispatch, StepMoves
  <1> QED
    BY <1>3, <1>4

LEMMA NextMoves ==
  ASSUME TypeOK, [Next]_vars
  PROVE  StepMoves
  <1>0. req \in [Req -> RequestState]
    BY DEF TypeOK
  <1>1. ASSUME NEW r \in Req, Submit(r)
        PROVE  StepMoves
    <2>1. PICK h \in Hash : req[r].pc = "idle" /\ HandleKeyPacket(r, h, 0)
      BY <1>1 DEF Submit, KeyPacket
    <2>2. /\ \A s \in Req \ {r} : req'[s] = req[s]
          /\ \/ Placing(r)
             \/ req'[r].pc = "idle" /\ lastDispatch' = lastDispatch
             \/ req'[r].pc = "nap" /\ req'[r].attempt = 0 /\ lastDispatch' = lastDispatch
      BY <1>0, <2>1, HandleMoves
    <2> QED
      BY <2>1, <2>2, OneRequestMoves DEF SleepMove, Asleep, Placing
  <1>2. ASSUME NEW r \in Req, NapOver(r)
        PROVE  StepMoves
    BY <1>0, <1>2, NapMoves, OneRequestMoves DEF SleepMove, Asleep, Placing
  <1>3. ASSUME NEW r \in Req, RetryOver(r)
        PROVE  StepMoves
    <2> DEFINE a == req[r].attempt + 1
    <2>1. req[r].pc = "retry" /\ HandleKeyPacket(r, req[r].hash, a)
      BY <1>3 DEF RetryOver
    <2>2. /\ \A s \in Req \ {r} : req'[s] = req[s]
          /\ \/ Placing(r)
             \/ req'[r].pc = "idle" /\ lastDispatch' = lastDispatch
             \/ req'[r].pc = "nap" /\ req'[r].attempt = a /\ lastDispatch' = lastDispatch
      BY <1>0, <2>1, HandleMoves
    <2> QED
      BY <2>1, <2>2, OneRequestMoves DEF SleepMove, Asleep, Placing
  <1>4. ASSUME NEW r \in Req, PushStep(r) \/ WorkerStep(r)
        PROVE  StepMoves
    BY <1>0, <1>4, PlacedMoves, OneRequestMoves DEF SleepMove, Asleep
  <1>5. CASE Tick
    <2>1. lastDispatch' = lastDispatch
      BY <1>5 DEF Tick
    <2>2. ASSUME NEW r \in Req
          PROVE  /\ req'[r].pc = req[r].pc
                 /\ req[r].pc \in Asleep => req'[r].attempt = req[r].attempt
      <3>1. CASE req[r].pc \in Asleep
        <4>1. req[r] \in Sleeping
          BY <1>0, <3>1, SlotByPc DEF Asleep
        <4>2. req'[r] = [req[r] EXCEPT !.due = TRUE]
          BY <1>5, <3>1 DEF Tick, Asleep
        <4> QED
          BY <4>1, <4>2 DEF Sleeping
      <3>2. CASE req[r].pc \notin Asleep
        BY <1>5, <3>2 DEF Tick, Asleep
      <3> QED
        BY <3>1, <3>2
    <2> QED
      BY <2>1, <2>2 DEF StepMoves, NoDispatch, Dispatched, SleepMove
  <1>6. CASE Restart
    <2>1. lastDispatch' = -1
      BY <1>6 DEF Restart
    <2>2. ASSUME NEW r \in Req
          PROVE  req'[r].pc \in {"idle", "queued"}
      <3>1. CASE req[r].pc = "queued"
        <4>1. req[r] \in Placed
          BY <1>0, <3>1, SlotByPc
        <4>2. req'[r] = [req[r] EXCEPT !.posting = FALSE]
          BY <1>6, <3>1 DEF Restart
        <4> QED
          BY <3>1, <4>1, <4>2 DEF Placed
      <3>2. CASE req[r].pc # "queued"
        BY <1>6, <3>2 DEF Restart, Idle
      <3> QED
        BY <3>1, <3>2
    <2> QED
      BY <2>1, <2>2 DEF StepMoves, NoDispatch, Dispatched, SleepMove, Asleep
  <1>7. ASSUME UNCHANGED <<req, lastDispatch>>
        PROVE  StepMoves
    BY <1>7 DEF StepMoves, NoDispatch, Dispatched, SleepMove
  <1>8. ASSUME NEW h \in Hash, DataPacket(h)
        PROVE  StepMoves
    BY <1>7, <1>8 DEF DataPacket
  <1>9. CASE UNCHANGED vars
    BY <1>7, <1>9 DEF vars
  <1> QED
    BY <1>1, <1>2, <1>3, <1>4, <1>5, <1>6, <1>8, <1>9 DEF Next

-----------------------------------------------------------------------------
(* The round robin.                                                        *)

LEMMA RemainderOnce ==
  ASSUME NEW n \in Nat \ {0}, NEW x \in 0 .. n - 1
  PROVE  x % n = x /\ (x - n) % n = x
  OBVIOUS

\* The servers after the last one used come first, then the others.
LEMMA OffsetValue ==
  ASSUME NEW last \in Servers \cup {-1}, NEW s \in Servers
  PROVE  (s - (last + 1)) % NumServers =
           IF s > last THEN s - last - 1 ELSE s - last - 1 + NumServers
  <1>1. NumServers \in Nat \ {0}
    BY CountAssumption DEF Servers
  <1>2. CASE s > last
    <2> DEFINE x == s - last - 1
    <2>1. x \in 0 .. NumServers - 1 /\ s - (last + 1) = x
      BY <1>1, <1>2 DEF Servers
    <2> QED
      BY <1>1, <1>2, <2>1, RemainderOnce
  <1>3. CASE ~(s > last)
    <2> DEFINE x == s - last - 1 + NumServers
    <2>1. x \in 0 .. NumServers - 1 /\ s - (last + 1) = x - NumServers
      BY <1>1, <1>3 DEF Servers
    <2> QED
      BY <1>1, <1>3, <2>1, RemainderOnce
  <1> QED
    BY <1>2, <1>3

\* A dispatch brings every idle server it passes over nearer to its turn.
LEMMA SkipsKept ==
  ASSUME TypeOK, skipped \in [Servers -> Nat], SkipsFit, StepMoves, RecordSkips
  PROVE  skipped' \in [Servers -> Nat] /\ SkipsFit'
  <1>0. lastDispatch \in Servers \cup {-1} /\ NumServers \in Nat
    BY CountAssumption DEF TypeOK
  <1>1. \A s \in Servers : Offset(s) =
          IF s > lastDispatch THEN s - lastDispatch - 1
                              ELSE s - lastDispatch - 1 + NumServers
    BY <1>0, OffsetValue DEF Offset
  <1>2. lastDispatch' \in Servers \cup {-1}
    BY <1>0 DEF StepMoves, NoDispatch, NextDispatch
  <1>3. \A s \in Servers : Offset(s)' =
          IF s > lastDispatch' THEN s - lastDispatch' - 1
                               ELSE s - lastDispatch' - 1 + NumServers
    BY <1>2, OffsetValue DEF Offset
  <1>4. ASSUME NEW s \in Servers
        PROVE  Offset(s) \in Nat /\ Offset(s)' \in 0 .. NumServers - 1
    <2>1. /\ s \in 0 .. NumServers - 1
          /\ lastDispatch \in -1 .. NumServers - 1
          /\ lastDispatch' \in -1 .. NumServers - 1
      BY <1>0, <1>2 DEF Servers
    <2>2. Offset(s) = IF s > lastDispatch THEN s - lastDispatch - 1
                                          ELSE s - lastDispatch - 1 + NumServers
      BY <1>1
    <2>3. Offset(s)' = IF s > lastDispatch' THEN s - lastDispatch' - 1
                                            ELSE s - lastDispatch' - 1 + NumServers
      BY <1>3
    <2>4. Offset(s) \in Nat
      BY <1>0, <2>1, <2>2
    <2>5. Offset(s)' \in 0 .. NumServers - 1
      <3> DEFINE o == Offset(s)'
                 last == lastDispatch'
      <3>1. o = IF s > last THEN s - last - 1 ELSE s - last - 1 + NumServers
        BY <2>3
      <3>2. last \in -1 .. NumServers - 1
        BY <2>1
      <3> HIDE DEF o, last
      <3>3. o \in 0 .. NumServers - 1
        BY <1>0, <2>1, <3>1, <3>2
      <3> QED
        BY <3>3 DEF o
    <2> QED
      BY <2>4, <2>5
  <1>5. CASE NoDispatch
    <2>1. CASE lastDispatch' = -1
      <3>1. skipped' = [s \in Servers |-> 0]
        BY <1>5, <2>1 DEF RecordSkips, NoDispatch
      <3> QED
        BY <1>0, <1>4, <3>1 DEF SkipsFit
    <2>2. CASE lastDispatch' # -1
      <3>1. skipped' = skipped /\ lastDispatch' = lastDispatch
        BY <1>5, <2>2 DEF RecordSkips, NoDispatch
      <3> QED
        BY <1>1, <1>3, <3>1 DEF SkipsFit
    <2> QED
      BY <2>1, <2>2
  <1>6. CASE NextDispatch
    <2>1. PICK d \in Servers : NextIdleServer(d) /\ lastDispatch' = d
      BY <1>6 DEF NextDispatch
    <2>2. skipped' = [s \in Servers |-> IF IsBusy(s) \/ d = s THEN 0 ELSE skipped[s] + 1]
      BY <1>6, <2>1 DEF RecordSkips, NextDispatch
    <2>3. ASSUME NEW s \in Servers
          PROVE  skipped'[s] \in Nat /\ skipped'[s] <= NumServers - 1 - Offset(s)'
      <3>1. CASE IsBusy(s) \/ d = s
        BY <1>0, <1>4, <2>2, <3>1
      <3>2. CASE ~IsBusy(s) /\ d # s
        <4>1. Offset(d) <= Offset(s)
          BY <2>1, <3>2 DEF NextIdleServer
        <4>2. Offset(s)' = Offset(s) - Offset(d) - 1
          <5>1. /\ s \in 0 .. NumServers - 1 /\ d \in 0 .. NumServers - 1
                /\ lastDispatch \in -1 .. NumServers - 1
            BY <1>0 DEF Servers
          <5>2. Offset(s) = IF s > lastDispatch THEN s - lastDispatch - 1
                                                ELSE s - lastDispatch - 1 + NumServers
            BY <1>1
          <5>3. Offset(d) = IF d > lastDispatch THEN d - lastDispatch - 1
                                                ELSE d - lastDispatch - 1 + NumServers
            BY <1>1
          <5>4. Offset(s)' = IF s > d THEN s - d - 1 ELSE s - d - 1 + NumServers
            BY <1>3, <2>1
          <5> QED
            BY <1>0, <3>2, <4>1, <5>1, <5>2, <5>3, <5>4
        <4>3. Offset(d) \in Nat /\ Offset(s) \in Nat
          BY <1>4
        <4>4. skipped'[s] = skipped[s] + 1
          BY <2>2, <3>2
        <4> QED
          BY <1>0, <4>2, <4>3, <4>4 DEF SkipsFit
      <3> QED
        BY <3>1, <3>2
    <2>4. skipped' \in [Servers -> Nat]
      BY <2>2
    <2> QED
      BY <2>3, <2>4 DEF SkipsFit
  <1> QED
    BY <1>5, <1>6 DEF StepMoves

-----------------------------------------------------------------------------
(* The sleeps.                                                             *)

LEMMA SleepsKept ==
  ASSUME TypeOK, TypeOK', slept \in [Req -> Nat], SleepsFit, StepMoves, RecordSleeps
  PROVE  slept' \in [Req -> Nat] /\ SleepsFit'
  <1>1. ASSUME NEW r \in Req
        PROVE  /\ slept'[r] \in Nat /\ slept'[r] <= 1 + 2 * MaxWaitAttempts
               /\ req'[r].pc = "idle" => slept'[r] = 0
               /\ req'[r].pc = "nap" => slept'[r] = 2 * req'[r].attempt + 1
               /\ req'[r].pc = "retry" => slept'[r] = 2 * req'[r].attempt + 2
    <2>1. slept'[r] = IF req'[r].pc = "idle" THEN 0
                      ELSE IF FallsAsleep(r) THEN slept[r] + 1
                      ELSE slept[r]
      BY DEF RecordSleeps
    <2>2. slept[r] \in Nat /\ MaxWaitAttempts \in Nat
      BY CountAssumption
    <2>3. /\ req[r].pc \in Asleep => req[r].attempt \in 0 .. MaxWaitAttempts
          /\ req[r].pc = "retry" => req[r].attempt < MaxWaitAttempts
      BY CountAssumption, SlotByPc DEF TypeOK, Sleeping, Asleep
    <2>4. /\ req'[r].pc \in Asleep => req'[r].attempt \in 0 .. MaxWaitAttempts
          /\ req'[r].pc = "retry" => req'[r].attempt < MaxWaitAttempts
      <3>1. req' \in [Req -> RequestState]
        BY DEF TypeOK
      <3>2. req'[r] \in RequestState
        BY <3>1
      <3> QED
        BY <2>2, <3>2
           DEF RequestState, Idle, Sleeping, Placed, Answered, Posting, Asleep
    <2>5. CASE req'[r].pc \notin Asleep
      <3>1. ~FallsAsleep(r)
        BY <2>5 DEF FallsAsleep, Asleep
      <3> QED
        BY <2>1, <2>2, <2>5, <3>1 DEF SleepsFit, Asleep
    <2>6. CASE req'[r].pc \in Asleep /\ req'[r].pc = req[r].pc
      <3>1. ~FallsAsleep(r) /\ req'[r].attempt = req[r].attempt
        BY <2>6 DEF FallsAsleep, StepMoves, SleepMove, Asleep
      <3>2. slept'[r] = slept[r]
        BY <2>1, <2>6, <3>1 DEF Asleep
      <3> QED
        BY <2>2, <2>6, <3>1, <3>2 DEF SleepsFit, Asleep
    <2>7. CASE req'[r].pc \in Asleep /\ req'[r].pc # req[r].pc
      <3>1. slept'[r] = slept[r] + 1
        BY <2>1, <2>7 DEF FallsAsleep, Asleep
      <3>2. \/ req[r].pc = "idle" /\ req'[r].pc = "nap" /\ req'[r].attempt = 0
            \/ /\ req[r].pc = "retry" /\ req'[r].pc = "nap"
               /\ req'[r].attempt = req[r].attempt + 1
            \/ /\ req[r].pc = "nap" /\ req'[r].pc = "retry"
               /\ req'[r].attempt = req[r].attempt
        BY <2>7 DEF StepMoves, SleepMove
      <3>3. /\ req[r].pc = "idle" => slept[r] = 0
            /\ req[r].pc = "nap" => slept[r] = 2 * req[r].attempt + 1
            /\ req[r].pc = "retry" => slept[r] = 2 * req[r].attempt + 2
        BY DEF SleepsFit
      <3> QED
        BY <2>2, <2>3, <2>4, <3>1, <3>2, <3>3 DEF Asleep
    <2> QED
      BY <2>5, <2>6, <2>7
  <1>2. slept' \in [Req -> Nat]
    <2>1. slept' = [r \in Req |-> slept'[r]]
      BY DEF RecordSleeps
    <2> QED
      BY <1>1, <2>1
  <1> QED
    BY <1>1, <1>2 DEF SleepsFit

-----------------------------------------------------------------------------
(* The jobs of a hash.                                                     *)

Live == {"pushing", "queued", "running", "answered"}

\* A job that is live after a step was live before it, for the same hash, or its
\* request has just been dispatched: after a sleep in handle_key_packet, or when
\* the hash was not in _processing_keys.
JobMove(r) ==
  req'[r].pc \in Live =>
    \/ req[r].pc \in Live /\ req'[r].hash = req[r].hash
    \/ /\ Dispatched(r)
       /\ req[r].pc = "nap" \/ ~InProcessing(processing, req'[r].hash)

JobMoves ==
  /\ \A r \in Req : JobMove(r)
  /\ \A r, t \in Req : Dispatched(r) /\ Dispatched(t) => r = t

LEMMA OneJobMoves ==
  ASSUME NEW r \in Req, \A s \in Req \ {r} : req'[s] = req[s], JobMove(r)
  PROVE  JobMoves
  BY DEF JobMoves, JobMove, Dispatched, Live

LEMMA HandleJob ==
  ASSUME req \in [Req -> RequestState], NEW r \in Req, NEW h, NEW a,
         req[r].pc \in {"idle", "retry"}, HandleKeyPacket(r, h, a)
  PROVE  JobMove(r)
  <1>1. CASE KeyExists(r, h) \/ KeyGenBusy(r, h)
    BY <1>1 DEF KeyExists, KeyGenBusy, Idle, JobMove, Live
  <1>2. CASE DispatchNewKey(r, h)
    <2>1. PICK s \in Servers :
            req' = [req EXCEPT ![r] = [pc |-> "pushing", hash |-> h,
                                       server |-> s, posting |-> TRUE]]
      BY <1>2 DEF DispatchNewKey, Dispatch
    <2>2. req'[r].pc = "pushing" /\ req'[r].hash = h
      BY <2>1
    <2> QED
      BY <1>2, <2>2 DEF DispatchNewKey, Dispatched, JobMove
  <1>3. CASE NapForServer(r, h, a)
    <2>1. req' = [req EXCEPT ![r] = [pc |-> "nap", hash |-> h,
                                     attempt |-> a, due |-> FALSE]]
      BY <1>3 DEF NapForServer
    <2>2. req'[r].pc = "nap"
      BY <2>1
    <2> QED
      BY <2>2 DEF JobMove, Live
  <1> QED
    BY <1>1, <1>2, <1>3 DEF HandleKeyPacket

LEMMA PlacedJob ==
  ASSUME req \in [Req -> RequestState], NEW r \in Req, PushStep(r) \/ WorkerStep(r)
  PROVE  JobMove(r)
  <1>1. \A job : Over(job).pc \notin Live
    BY DEF Over, Idle, Live
  <1>2. CASE Enqueue(r) \/ Take(r)
    <2>1. PICK p \in {"queued", "running"} : req' = [req EXCEPT ![r].pc = p]
      BY <1>2 DEF Enqueue, Take
    <2>2. req[r].pc \in Live /\ req[r] \in Placed
      BY <1>2, SlotByPc DEF Enqueue, Take, Live
    <2>3. req'[r].hash = req[r].hash
      BY <2>1, <2>2 DEF Placed
    <2> QED
      BY <2>2, <2>3 DEF JobMove
  <1>3. CASE EnqueueFails(r)
    BY <1>3 DEF EnqueueFails, Idle, JobMove, Live
  <1>4. CASE Posted(r) \/ PostFails(r)
    <2>1. CASE req' = [req EXCEPT ![r] = Idle]
      BY <2>1 DEF Idle, JobMove, Live
    <2>2. CASE InFlight(r) /\ req' = [req EXCEPT ![r].posting = FALSE]
      <3>1. req[r].pc \in Live /\ req[r] \in Placed \cup Answered
        BY <2>2, SlotByPc DEF InFlight, Live
      <3>2. req'[r].hash = req[r].hash
        BY <2>2, <3>1 DEF Placed, Answered
      <3> QED
        BY <3>1, <3>2 DEF JobMove
    <2> QED
      BY <1>4, <2>1, <2>2 DEF Posted, PostFails, EndPosting
  <1>5. CASE JobLost(r) \/ FinishJob(r) \/ JobFails(r)
    <2>1. req' = [req EXCEPT ![r] = Over(req[r])]
      BY <1>5 DEF JobLost, FinishJob, JobFails
    <2>2. req'[r] = Over(req[r])
      BY <2>1
    <2> QED
      BY <1>1, <2>2 DEF JobMove
  <1>6. ASSUME NEW a \in Answer, ServerAnswer(r, a)
        PROVE  JobMove(r)
    <2>1. /\ req[r].pc = "running"
          /\ req' = [req EXCEPT ![r] =
                       [pc |-> "answered", hash |-> req[r].hash, server |-> req[r].server,
                        posting |-> req[r].posting, answer |-> a]]
      BY <1>6 DEF ServerAnswer
    <2>2. req'[r].hash = req[r].hash
      BY <2>1
    <2> QED
      BY <2>1, <2>2 DEF JobMove, Live
  <1> QED
    BY <1>2, <1>3, <1>4, <1>5, <1>6 DEF PushStep, WorkerStep

LEMMA NextJobs ==
  ASSUME TypeOK, [Next]_vars
  PROVE  JobMoves
  <1>0. req \in [Req -> RequestState]
    BY DEF TypeOK
  <1>1. ASSUME NEW r \in Req, Submit(r)
        PROVE  JobMoves
    <2>1. PICK h \in Hash : req[r].pc = "idle" /\ HandleKeyPacket(r, h, 0)
      BY <1>1 DEF Submit, KeyPacket
    <2> QED
      BY <1>0, <2>1, HandleMoves, HandleJob, OneJobMoves
  <1>2. ASSUME NEW r \in Req, NapOver(r)
        PROVE  JobMoves
    <2>1. req[r].pc = "nap" /\ \A s \in Req \ {r} : req'[s] = req[s]
      BY <1>0, <1>2, NapMoves
    <2>2. JobMove(r)
      BY <1>0, <1>2, <2>1, NapMoves DEF JobMove, Live, Placing, Dispatched
    <2> QED
      BY <2>1, <2>2, OneJobMoves
  <1>3. ASSUME NEW r \in Req, RetryOver(r)
        PROVE  JobMoves
    <2>1. req[r].pc = "retry" /\ HandleKeyPacket(r, req[r].hash, req[r].attempt + 1)
      BY <1>3 DEF RetryOver
    <2> QED
      BY <1>0, <2>1, HandleMoves, HandleJob, OneJobMoves
  <1>4. ASSUME NEW r \in Req, PushStep(r) \/ WorkerStep(r)
        PROVE  JobMoves
    BY <1>0, <1>4, PlacedMoves, PlacedJob, OneJobMoves
  <1>5. CASE Tick
    <2>1. ASSUME NEW r \in Req, req[r].pc \notin Asleep
          PROVE  req'[r] = req[r]
      BY <1>5, <2>1 DEF Tick, Asleep
    <2>2. ASSUME NEW r \in Req, req[r].pc \in Asleep
          PROVE  req'[r].pc \notin Live
      <3>1. req[r] \in Sleeping
        BY <1>0, <2>2, SlotByPc DEF Asleep
      <3>2. req'[r] = [req[r] EXCEPT !.due = TRUE]
        BY <1>5, <2>2 DEF Tick, Asleep
      <3> QED
        BY <2>2, <3>1, <3>2 DEF Sleeping, Asleep, Live
    <2>3. \A r \in Req : JobMove(r)
      BY <2>1, <2>2 DEF JobMove
    <2>4. \A r \in Req : ~Dispatched(r)
      BY <2>1, <2>2 DEF Dispatched, Live
    <2> QED
      BY <2>3, <2>4 DEF JobMoves
  <1>6. CASE Restart
    <2>1. ASSUME NEW r \in Req
          PROVE  JobMove(r) /\ ~Dispatched(r)
      <3>1. CASE req[r].pc = "queued"
        <4>1. req[r] \in Placed
          BY <1>0, <3>1, SlotByPc
        <4>2. req'[r] = [req[r] EXCEPT !.posting = FALSE]
          BY <1>6, <3>1 DEF Restart
        <4>3. req'[r].hash = req[r].hash
          BY <4>1, <4>2 DEF Placed
        <4> QED
          BY <3>1, <4>3 DEF JobMove, Dispatched, Live
      <3>2. CASE req[r].pc # "queued"
        BY <1>6, <3>2 DEF Restart, Idle, JobMove, Dispatched, Live
      <3> QED
        BY <3>1, <3>2
    <2> QED
      BY <2>1 DEF JobMoves
  <1>7. ASSUME UNCHANGED req
        PROVE  JobMoves
    BY <1>7 DEF JobMoves, JobMove, Dispatched, Live
  <1>8. ASSUME NEW h \in Hash, DataPacket(h)
        PROVE  JobMoves
    BY <1>7, <1>8 DEF DataPacket
  <1>9. CASE UNCHANGED vars
    BY <1>7, <1>9 DEF vars
  <1> QED
    BY <1>1, <1>2, <1>3, <1>4, <1>5, <1>6, <1>8, <1>9 DEF Next

LEMMA JobsKept ==
  ASSUME JobsFit, JobMoves, RecordNaps, RecordExposure
  PROVE  JobsFit' /\ ExposedLive'
  <1>1. exposed' = {h \in Hash : /\ LiveJobs(h)' # {}
                                 /\ h \in exposed \/ ~InProcessing(processing', h)}
    BY DEF RecordExposure
  <1>2. ASSUME NEW h \in Hash, h \notin exposed', NEW r \in LiveJobs(h)' \ napped'
        PROVE  \/ r \in LiveJobs(h) \ napped
               \/ LiveJobs(h) = {} /\ Dispatched(r)
    <2>1. r \in Req /\ req'[r].pc \in Live /\ req'[r].hash = h
      BY <1>2 DEF LiveJobs, Live
    <2>2. h \notin exposed
      BY <1>1, <1>2
    <2>3. CASE req[r].pc \in Live /\ req'[r].hash = req[r].hash
      <3>1. r \in LiveJobs(h)
        BY <2>1, <2>3 DEF LiveJobs, Live
      <3>2. r \notin napped
        BY <1>2, <2>1 DEF RecordNaps, Live
      <3> QED
        BY <3>1, <3>2
    <2>4. CASE Dispatched(r) /\ req[r].pc = "nap"
      <3>1. r \in napped'
        BY <2>1, <2>4 DEF RecordNaps
      <3> QED
        BY <1>2, <3>1
    <2>5. CASE Dispatched(r) /\ ~InProcessing(processing, req'[r].hash)
      BY <2>1, <2>2, <2>5 DEF JobsFit
    <2> QED
      BY <2>1, <2>3, <2>4, <2>5 DEF JobMoves, JobMove
  <1>3. ASSUME NEW h \in Hash, h \notin exposed',
               NEW r \in LiveJobs(h)' \ napped', NEW t \in LiveJobs(h)' \ napped'
        PROVE  r = t
    <2>1. h \notin exposed
      BY <1>1, <1>3
    <2>2. r \in Req /\ t \in Req
      BY <1>3 DEF LiveJobs
    <2>3. CASE LiveJobs(h) = {}
      <3>1. Dispatched(r) /\ Dispatched(t)
        BY <1>2, <1>3, <2>3
      <3> QED
        BY <2>2, <3>1 DEF JobMoves
    <2>4. CASE LiveJobs(h) # {}
      <3>1. r \in LiveJobs(h) \ napped /\ t \in LiveJobs(h) \ napped
        BY <1>2, <1>3, <2>4
      <3> QED
        BY <2>1, <3>1 DEF JobsFit
    <2> QED
      BY <2>3, <2>4
  <1>4. ASSUME NEW h \in Hash, h \notin exposed', LiveJobs(h)' # {}
        PROVE  InProcessing(processing', h)
    BY <1>1, <1>4
  <1>5. \A h \in Hash : InProcessing(processing', h) <=> InProcessing(processing, h)'
    BY DEF InProcessing, Expired
  <1> QED
    BY <1>1, <1>3, <1>4, <1>5 DEF JobsFit, ExposedLive

-----------------------------------------------------------------------------
(* The theorems.                                                           *)

LEMMA InitHInv == HistoryInit => HInv
  <1> SUFFICES ASSUME HistoryInit, Init
               PROVE  HInv
    BY DEF HistoryInit
  <1>1. IInv
    BY InitIInv
  <1>2. \A s \in Servers : Offset(s) \in 0 .. NumServers - 1
    BY CountAssumption, OffsetValue DEF Init, Offset, Servers
  <1>3. skipped \in [Servers -> Nat] /\ SkipsFit
    BY <1>2, CountAssumption DEF HistoryInit, SkipsFit
  <1>4. \A r \in Req : req[r].pc = "idle"
    BY DEF Init, Idle
  <1>5. slept \in [Req -> Nat] /\ SleepsFit
    BY <1>4, CountAssumption DEF HistoryInit, SleepsFit
  <1>6. JobsFit /\ ExposedLive
    BY <1>4 DEF HistoryInit, JobsFit, ExposedLive, LiveJobs
  <1> QED
    BY <1>1, <1>3, <1>5, <1>6 DEF HInv

LEMMA NextHInv == HInv /\ [HistoryNext]_<<vars, history>> => HInv'
  <1>1. ASSUME HInv, HistoryNext
        PROVE  HInv'
    <2>1. IInv' /\ TypeOK /\ TypeOK'
      BY <1>1, NextIInv DEF HInv, HistoryNext, IInv
    <2>2. StepMoves
      BY <1>1, <2>1, NextMoves DEF HistoryNext
    <2>3. skipped' \in [Servers -> Nat] /\ SkipsFit'
      BY <1>1, <2>1, <2>2, SkipsKept DEF HInv, HistoryNext
    <2>4. slept' \in [Req -> Nat] /\ SleepsFit'
      BY <1>1, <2>1, <2>2, SleepsKept DEF HInv, HistoryNext
    <2>5. JobsFit' /\ ExposedLive'
      BY <1>1, <2>1, NextJobs, JobsKept DEF HInv, HistoryNext
    <2> QED
      BY <2>1, <2>3, <2>4, <2>5 DEF HInv
  <1>2. ASSUME HInv, UNCHANGED <<vars, history>>
        PROVE  HInv'
    <2>1. IInv'
      BY <1>2, NextIInv DEF HInv
    <2>2. JobsFit' /\ ExposedLive'
      BY <1>2 DEF HInv, JobsFit, ExposedLive, LiveJobs, InProcessing, Expired, Keys, Get,
                  Position, vars, history
    <2> QED
      BY <1>2, <2>1, <2>2 DEF HInv, SkipsFit, SleepsFit, Offset, vars, history
  <1> QED
    BY <1>1, <1>2

LEMMA HistoryInvariance == HistorySpec => []HInv
BY InitHInv, NextHInv, PTL DEF HistorySpec

\* get_idle_server's round robin: with any number of servers, one that stays idle
\* is passed over at most once for each other server before it gets a job.
THEOREM RoundRobinIsFair == HistorySpec => []NoServerPassedOver
  <1>1. HInv => NoServerPassedOver
    <2> SUFFICES ASSUME HInv, NEW s \in Servers
                 PROVE  skipped[s] <= NumServers - 1
      BY DEF NoServerPassedOver
    <2>1. lastDispatch \in Servers \cup {-1} /\ NumServers \in Nat
      BY CountAssumption DEF HInv, IInv, TypeOK
    <2>2. Offset(s) \in Nat
      BY <2>1, OffsetValue DEF Offset, Servers
    <2> QED
      BY <2>1, <2>2 DEF HInv, SkipsFit
  <1> QED
    BY <1>1, HistoryInvariance, PTL

\* The loop of quick_submit and the sleep in handle_key_packet together: a request
\* never sleeps more than 1 + 2 * max_wait_attempts times, whatever the servers do.
THEOREM RequestsSleepBoundedly == HistorySpec => []SleepsBounded
  <1>1. HInv => SleepsBounded
    BY DEF HInv, SleepsFit, SleepsBounded
  <1> QED
    BY <1>1, HistoryInvariance, PTL

\* _processing_keys keeps its promise while it can: with any number of requests for
\* a hash, at most one job of it is live that was dispatched after a look at the
\* table, as long as the table has not lost the hash.
THEOREM ProtectionHolds == HistorySpec => []ProtectedKeyHasOneJob
  <1>1. HInv => ProtectedKeyHasOneJob
    <2> SUFFICES ASSUME HInv, NEW h \in Hash \ exposed
                 PROVE  Cardinality(LiveJobs(h) \ napped) <= 1
      BY DEF ProtectedKeyHasOneJob
    <2> DEFINE jobs == LiveJobs(h) \ napped
    <2>1. \A r, t \in jobs : r = t
      BY DEF HInv, JobsFit
    <2> HIDE DEF jobs
    <2>2. CASE jobs = {}
      BY <2>2, FS_EmptySet DEF jobs
    <2>3. ASSUME NEW r \in jobs
          PROVE  Cardinality(jobs) <= 1
      <3>1. jobs = {r}
        BY <2>1, <2>3
      <3> QED
        BY <3>1, FS_Singleton
    <2>4. Cardinality(jobs) <= 1
      BY <2>2, <2>3 DEF jobs
    <2> QED
      BY <2>4 DEF jobs
  <1> QED
    BY <1>1, HistoryInvariance, PTL

=============================================================================
