----------------------------- MODULE KeyRecency ----------------------------
(***************************************************************************)
(* LoadBalancer with a record of when each key was last used, which no      *)
(* action of the code reads.  It is kept by the requests and jobs that use a *)
(* key, not by what they do to _key_cache, and so tells whether _key_cache  *)
(* is the LRU cache that load_balancer.py:129 says it is.                   *)
(***************************************************************************)
EXTENDS LoadBalancer

VARIABLE
  older          \* the pairs <<x, y>> such that y was used after x's last use

Use(h) ==
  older' = {p \in older : h \notin {p[1], p[2]}} \cup ((Hash \ {h}) \X {h})

\* A request or a data packet asks for h: a use if the key is cached.
Asked(h) ==
  IF h \in Keys(keyCache) THEN Use(h) ELSE UNCHANGED older

\* The cache is full, and of its keys h was used longest ago.
NextToGo(h) ==
  /\ Len(keyCache) >= MaxKeyCacheSize
  /\ \A x \in Keys(keyCache) \ {h} : <<h, x>> \in older

\* A job ends, and its key is added.  The answer for a key that is cached already
\* is not a use, unless the key has to make room for itself.
Added(r) ==
  IF /\ Success(req[r].answer)
     /\ req[r].hash \notin Keys(keyCache) \/ NextToGo(req[r].hash)
    THEN Use(req[r].hash)
    ELSE UNCHANGED older

\* A step of a worker other than the end of a job that was answered.
Unanswered(r) ==
  \/ Take(r) \/ JobLost(r) \/ JobFails(r)
  \/ \E a \in Answer : ServerAnswer(r, a)

RecencyNext ==
  \/ \E r \in Req, h \in Hash : KeyPacket(r, h) /\ Asked(h)
  \/ \E r \in Req :
       \/ (NapOver(r) \/ RetryOver(r)) /\ Asked(req[r].hash)
       \/ FinishJob(r) /\ Added(r)
       \/ (PushStep(r) \/ Unanswered(r)) /\ UNCHANGED older
  \/ \E h \in Hash : DataPacket(h) /\ Asked(h)
  \/ Tick /\ UNCHANGED older
  \/ Restart /\ older' = {}

RecencyInit ==
  /\ Init
  /\ older = {}

RecencySpec == RecencyInit /\ [][RecencyNext]_<<vars, older>>

-----------------------------------------------------------------------------
(* Property.                                                               *)

\* "LRU" (load_balancer.py:129,290): a key that is dropped was used before every key
\* that stays.  Uses are hits of key packets at once, after a sleep of
\* handle_key_packet or in a later iteration of quick_submit's loop, hits of data
\* packets, and additions; jobs add keys in any order, some of them again.
LeastRecentlyUsedGoes ==
  [][\A x \in Keys(keyCache) \ Keys(keyCache') :
       \A y \in Keys(keyCache) \cap Keys(keyCache') :
         <<x, y>> \in older]_<<vars, older>>

=============================================================================
