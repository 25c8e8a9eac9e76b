------------------------- MODULE LoadBalancerProofs ------------------------
(***************************************************************************)
(* The invariants of LoadBalancer hold for every number of hashes, requests *)
(* and servers, every capacity and every timeout; and it uses jobs the way  *)
(* JobPool says.                                                            *)
(***************************************************************************)
EXTENDS LoadBalancerJobs, KeyRecency, OrderedDictTheorems

\* The invariants are inductive together: the type of the tables needs their
\* keys to be distinct, and disjointness needs to know what each operation does
\* to the set of keys, which holds of dictionaries only.
IInv ==
  /\ TypeOK
  /\ TablesWellFormed
  /\ CacheProcessingDisjoint
  /\ SnIsReal

-----------------------------------------------------------------------------
(* The operators on the two tables.                                        *)

CacheOK(c) ==
  /\ c \in Items(Hash, KeyInfo)
  /\ IsDict(c)
  /\ Len(c) <= MaxKeyCacheSize

ProcessingOK(p) ==
  /\ p \in Items(Hash, BusyInfo)
  /\ IsDict(p)
  /\ Len(p) <= MaxBusyQueueSize

\* The purge removes entries, and adds none.
LEMMA DropExpiredProperties ==
  ASSUME NEW p, ProcessingOK(p)
  PROVE  /\ ProcessingOK(DropExpired(p))
         /\ Keys(DropExpired(p)) \subseteq Keys(p)
<1> DEFINE I == {i \in DOMAIN p : ~Expired(p[i].val)}
<1>1. I \in SUBSET DOMAIN p /\ DropExpired(p) = Only(p, I)
  BY DEF DropExpired
<1> HIDE DEF I
<1>2. /\ Only(p, I) \in Items(Hash, BusyInfo)
      /\ Len(Only(p, I)) <= Len(p)
      /\ Keys(Only(p, I)) \subseteq Keys(p)
      /\ IsDict(Only(p, I))
  BY <1>1, OnlyProperties, OnlyIsDict DEF ProcessingOK
<1>3. Len(Only(p, I)) \in Nat /\ Len(p) \in Nat
  BY <1>2, ItemTypes DEF ProcessingOK
<1>4. Len(Only(p, I)) <= MaxBusyQueueSize
  BY <1>2, <1>3, CapacityAssumption DEF ProcessingOK
<1> QED  BY <1>1, <1>2, <1>4 DEF ProcessingOK

\* add_to_processing adds at most the hash it is given.
LEMMA AddToProcessingProperties ==
  ASSUME NEW p, ProcessingOK(p), NEW h \in Hash, NEW s \in Servers
  PROVE  /\ ProcessingOK(AddToProcessing(p, h, s))
         /\ Keys(AddToProcessing(p, h, s)) \subseteq Keys(p) \cup {h}
<1> DEFINE live == DropExpired(p)
           info == [server |-> s, age |-> 0]
           room == EvictWhileFull(live, MaxBusyQueueSize)
<1>1. ProcessingOK(live) /\ Keys(live) \subseteq Keys(p)
  BY DropExpiredProperties
<1>2. CASE h \in Keys(live)
  BY <1>1, <1>2 DEF AddToProcessing
<1>3. CASE h \notin Keys(live)
  <2>1. AddToProcessing(p, h, s) = Assign(room, h, info)
    BY <1>3 DEF AddToProcessing
  <2>2. info \in BusyInfo
    BY TimeoutAssumption DEF BusyInfo
  <2> HIDE DEF live
  <2>3. /\ room \in Items(Hash, BusyInfo)
        /\ Len(room) <= MaxBusyQueueSize - 1
        /\ Keys(room) \subseteq Keys(live)
        /\ IsDict(room)
    BY <1>1, CapacityAssumption, EvictProperties DEF ProcessingOK
  <2> HIDE DEF room, info
  <2>4. /\ Assign(room, h, info) \in Items(Hash, BusyInfo)
        /\ Len(Assign(room, h, info)) <= Len(room) + 1
        /\ Keys(Assign(room, h, info)) = Keys(room) \cup {h}
        /\ IsDict(Assign(room, h, info))
    BY <2>2, <2>3, AssignProperties
  <2>5. Len(Assign(room, h, info)) \in Nat /\ Len(room) \in Nat
    BY <2>3, <2>4, ItemTypes
  <2>6. Len(Assign(room, h, info)) <= MaxBusyQueueSize
    BY <2>3, <2>4, <2>5, CapacityAssumption
  <2> QED  BY <1>1, <2>1, <2>3, <2>4, <2>6 DEF ProcessingOK
<1> QED  BY <1>2, <1>3

\* add_key_to_cache adds the hash it is given, and every other entry it leaves
\* was there before.
LEMMA AddKeyToCacheProperties ==
  ASSUME NEW c, CacheOK(c), NEW h \in Hash, NEW s \in Servers, NEW sn \in BOOLEAN
  PROVE  /\ CacheOK(AddKeyToCache(c, h, s, sn))
         /\ Keys(AddKeyToCache(c, h, s, sn)) \subseteq Keys(c) \cup {h}
         /\ \A i \in DOMAIN AddKeyToCache(c, h, s, sn) :
              \/ AddKeyToCache(c, h, s, sn)[i]
                   = [key |-> h, val |-> [server |-> s, sn |-> sn]]
              \/ \E j \in DOMAIN c : AddKeyToCache(c, h, s, sn)[i] = c[j]
<1> DEFINE info == [server |-> s, sn |-> sn]
           room == EvictWhileFull(c, MaxKeyCacheSize)
           new == Assign(room, h, info)
<1>1. AddKeyToCache(c, h, s, sn) = new
  BY DEF AddKeyToCache
<1>2. info \in KeyInfo
  BY DEF KeyInfo
<1>3. /\ room \in Items(Hash, KeyInfo)
      /\ Len(room) <= MaxKeyCacheSize - 1
      /\ ItemsOf(room, c)
      /\ Keys(room) \subseteq Keys(c)
      /\ IsDict(room)
  BY CapacityAssumption, EvictProperties DEF CacheOK
<1> HIDE DEF room, info
<1>4. /\ new \in Items(Hash, KeyInfo)
      /\ Len(new) <= Len(room) + 1
      /\ Keys(new) = Keys(room) \cup {h}
      /\ \A i \in DOMAIN new : \/ new[i] = [key |-> h, val |-> info]
                             \/ \E j \in DOMAIN room : new[i] = room[j]
      /\ IsDict(new)
  BY <1>2, <1>3, AssignProperties
<1> HIDE DEF new
<1>5. Len(new) \in Nat /\ Len(room) \in Nat
  BY <1>3, <1>4, ItemTypes
<1>6. Len(new) <= MaxKeyCacheSize
  BY <1>3, <1>4, <1>5, CapacityAssumption
<1>7. \A i \in DOMAIN new : \/ new[i] = [key |-> h, val |-> info]
                         \/ \E j \in DOMAIN c : new[i] = c[j]
  BY <1>3, <1>4 DEF ItemsOf
<1> QED  BY <1>1, <1>3, <1>4, <1>6, <1>7 DEF CacheOK, info

-----------------------------------------------------------------------------
(* What an action has to show.                                             *)

\* The invariant, with what it says of each table gathered.
LEMMA IInvByTable ==
  IInv <=> /\ busyLeft \in [Servers -> -1 .. ServerBusyTimeout]
           /\ lastDispatch \in Servers \cup {-1}
           /\ req \in [Req -> RequestState]
           /\ stored \in [Servers -> SUBSET Hash]
           /\ CacheOK(keyCache)
           /\ ProcessingOK(processing)
           /\ CacheProcessingDisjoint
           /\ SnIsReal
BY DEF IInv, TypeOK, TablesWellFormed, CacheOK, ProcessingOK

\* The same of the next state, from the parts.
LEMMA IInvNext ==
  ASSUME busyLeft' \in [Servers -> -1 .. ServerBusyTimeout],
         lastDispatch' \in Servers \cup {-1},
         req' \in [Req -> RequestState],
         stored' \in [Servers -> SUBSET Hash],
         CacheOK(keyCache'),
         ProcessingOK(processing'),
         CacheProcessingDisjoint',
         SnIsReal'
  PROVE  IInv'
BY DEF IInv, TypeOK, TablesWellFormed, CacheOK, ProcessingOK

\* No job is answered in this step.
NoNewAnswer ==
  \A r \in Req : req'[r].pc = "answered" =>
    /\ req[r].pc = "answered"
    /\ req'[r].hash = req[r].hash
    /\ req'[r].server = req[r].server
    /\ req'[r].answer = req[r].answer

\* An action that answers no job, and puts nothing new into the cache, keeps
\* every serial number real.
LEMMA SnIsRealKept ==
  ASSUME SnIsReal,
         ItemsOf(keyCache', keyCache),
         UNCHANGED stored,
         NoNewAnswer
  PROVE  SnIsReal'
<1>1. \A i \in DOMAIN keyCache' :
        keyCache'[i].val.sn => keyCache'[i].key \in stored'[keyCache'[i].val.server]
  BY DEF SnIsReal, ItemsOf
<1>2. \A r \in Req :
        (req'[r].pc = "answered" /\ req'[r].answer.sn)
          => req'[r].hash \in stored'[req'[r].server]
  BY DEF SnIsReal, NoNewAnswer
<1> QED  BY <1>1, <1>2 DEF SnIsReal

\* Two facts about the frame of most actions.
LEMMA ItemsOfSelf ==
  ASSUME NEW d
  PROVE  ItemsOf(d, d)
BY DEF ItemsOf

LEMMA SlotUpdate ==
  ASSUME req \in [Req -> RequestState],
         NEW r \in Req, NEW x \in RequestState, x.pc # "answered",
         req' = [req EXCEPT ![r] = x]
  PROVE  /\ req' \in [Req -> RequestState]
         /\ NoNewAnswer
BY DEF NoNewAnswer

\* The states a slot is put in.
LEMMA IdleIsState == Idle \in RequestState /\ Idle.pc # "answered"
BY DEF RequestState, Idle

\* Touching the cache keeps it well formed.
LEMMA TouchCache ==
  ASSUME CacheOK(keyCache), NEW h \in Keys(keyCache),
         keyCache' = MoveToEnd(keyCache, h)
  PROVE  /\ CacheOK(keyCache')
         /\ Keys(keyCache') = Keys(keyCache)
         /\ ItemsOf(keyCache', keyCache)
BY MoveToEndProperties DEF CacheOK

\* Discarding a hash keeps the table of keys being processed well formed.
LEMMA DiscardProcessing ==
  ASSUME ProcessingOK(processing), NEW h, processing' = Discard(processing, h)
  PROVE  /\ ProcessingOK(processing')
         /\ Keys(processing') = Keys(processing) \ {h}
<1>1. /\ Discard(processing, h) \in Items(Hash, BusyInfo)
      /\ Len(Discard(processing, h)) <= Len(processing)
      /\ IsDict(Discard(processing, h))
      /\ Keys(Discard(processing, h)) = Keys(processing) \ {h}
  BY DiscardProperties DEF ProcessingOK
<1>2. Len(processing) \in Nat /\ Len(Discard(processing, h)) \in Nat
  BY <1>1, ItemTypes DEF ProcessingOK
<1> QED  BY <1>1, <1>2, CapacityAssumption DEF ProcessingOK

-----------------------------------------------------------------------------
(* handle_key_packet.                                                      *)

LEMMA KeyExistsStep ==
  ASSUME IInv, NEW r \in Req, NEW h \in Hash, KeyExists(r, h)
  PROVE  IInv'
<1>1. CacheOK(keyCache') /\ Keys(keyCache') = Keys(keyCache)
      /\ ItemsOf(keyCache', keyCache)
  BY IInvByTable, TouchCache DEF KeyExists
<1>2. ProcessingOK(processing') /\ Keys(processing') = Keys(processing) \ {h}
  BY IInvByTable, DiscardProcessing DEF KeyExists
<1>3. /\ req' \in [Req -> RequestState]
      /\ NoNewAnswer
  BY IInvByTable, IdleIsState, SlotUpdate DEF KeyExists
<1>4. CacheProcessingDisjoint'
  BY <1>1, <1>2, IInvByTable DEF CacheProcessingDisjoint
<1>5. SnIsReal'
  BY <1>1, <1>3, IInvByTable, SnIsRealKept DEF KeyExists
<1> QED  BY <1>1, <1>2, <1>3, <1>4, <1>5, IInvByTable, IInvNext DEF KeyExists

LEMMA KeyGenBusyStep ==
  ASSUME IInv, NEW r \in Req, NEW h \in Hash, KeyGenBusy(r, h)
  PROVE  IInv'
<1>1. /\ req' \in [Req -> RequestState]
      /\ NoNewAnswer
  BY IInvByTable, IdleIsState, SlotUpdate DEF KeyGenBusy
<1>2. SnIsReal'
  BY <1>1, IInvByTable, ItemsOfSelf, SnIsRealKept DEF KeyGenBusy
<1> QED  BY <1>1, <1>2, IInvByTable, IInvNext DEF KeyGenBusy, CacheProcessingDisjoint

\* Disjointness is what the cache lookup before a dispatch is for.
LEMMA DispatchStep ==
  ASSUME IInv, NEW r \in Req, NEW h \in Hash \ Keys(keyCache), Dispatch(r, h)
  PROVE  IInv'
<1>1. PICK s \in Servers :
        /\ lastDispatch' = s
        /\ processing' = AddToProcessing(processing, h, s)
        /\ req' = [req EXCEPT ![r] = [pc |-> "pushing", hash |-> h,
                                      server |-> s, posting |-> TRUE]]
        /\ UNCHANGED <<busyLeft, keyCache, stored>>
  BY DEF Dispatch
<1>2. ProcessingOK(processing') /\ Keys(processing') \subseteq Keys(processing) \cup {h}
  BY <1>1, IInvByTable, AddToProcessingProperties
<1>3. /\ req' \in [Req -> RequestState]
      /\ NoNewAnswer
  <2> DEFINE x == [pc |-> "pushing", hash |-> h, server |-> s, posting |-> TRUE]
  <2>1. x \in RequestState /\ x.pc # "answered"
    BY DEF RequestState, Placed
  <2> QED  BY <1>1, <2>1, IInvByTable, SlotUpdate
<1>4. CacheProcessingDisjoint'
  BY <1>1, <1>2, IInvByTable DEF CacheProcessingDisjoint
<1>5. SnIsReal'
  BY <1>1, <1>3, IInvByTable, ItemsOfSelf, SnIsRealKept
<1> QED  BY <1>1, <1>2, <1>3, <1>4, <1>5, IInvByTable, IInvNext

LEMMA NapForServerStep ==
  ASSUME IInv, NEW r \in Req, NEW h \in Hash, NEW n \in 0 .. MaxWaitAttempts,
         NapForServer(r, h, n)
  PROVE  IInv'
<1>1. ProcessingOK(processing') /\ Keys(processing') = Keys(processing) \ {h}
  BY IInvByTable, DiscardProcessing DEF NapForServer
<1>2. /\ req' \in [Req -> RequestState]
      /\ NoNewAnswer
  <2> DEFINE x == [pc |-> "nap", hash |-> h, attempt |-> n, due |-> FALSE]
  <2>1. x \in RequestState /\ x.pc # "answered"
    BY DEF RequestState, Sleeping
  <2>2. req' = [req EXCEPT ![r] = x]
    BY DEF NapForServer
  <2> QED  BY <2>1, <2>2, IInvByTable, SlotUpdate
<1>3. CacheProcessingDisjoint'
  BY <1>1, IInvByTable DEF CacheProcessingDisjoint, NapForServer
<1>4. SnIsReal'
  BY <1>2, IInvByTable, ItemsOfSelf, SnIsRealKept DEF NapForServer
<1> QED  BY <1>1, <1>2, <1>3, <1>4, IInvByTable, IInvNext DEF NapForServer

\* Whoever calls it, in whatever attempt.
LEMMA HandleKeyPacketStep ==
  ASSUME IInv, NEW r \in Req, NEW h \in Hash, NEW n \in 0 .. MaxWaitAttempts,
         HandleKeyPacket(r, h, n)
  PROVE  IInv'
BY KeyExistsStep, KeyGenBusyStep, DispatchStep, NapForServerStep
   DEF HandleKeyPacket, DispatchNewKey

-----------------------------------------------------------------------------
(* A request that wakes up, and data packets.                              *)

\* What is known of a slot, by its pc.
Napping ==
  [pc : {"nap"}, hash : Hash, attempt : 0 .. MaxWaitAttempts, due : BOOLEAN]

LEMMA SlotByPc ==
  ASSUME req \in [Req -> RequestState], NEW r \in Req
  PROVE  /\ req[r].pc \in {"nap", "retry"} => req[r] \in Sleeping
         /\ req[r].pc = "nap" => req[r] \in Napping
         /\ req[r].pc = "retry" => req[r].attempt \in 0 .. MaxWaitAttempts - 1
         /\ req[r].pc \in {"pushing", "queued", "running"} => req[r] \in Placed
         /\ req[r].pc = "answered" => req[r] \in Answered
         /\ req[r].pc = "posting" => req[r] \in Posting
         /\ req[r].pc # "idle" => req[r].hash \in Hash
BY DEF RequestState, Idle, Sleeping, Napping, Placed, Answered, Posting

LEMMA NapKeyExistsStep ==
  ASSUME IInv, NEW r \in Req, NEW h \in Hash, NapKeyExists(r, h)
  PROVE  IInv'
<1>1. CacheOK(keyCache') /\ Keys(keyCache') = Keys(keyCache)
      /\ ItemsOf(keyCache', keyCache)
  BY IInvByTable, TouchCache DEF NapKeyExists
<1>2. req' \in [Req -> RequestState] /\ NoNewAnswer
  BY IInvByTable, IdleIsState, SlotUpdate DEF NapKeyExists
<1>3. CacheProcessingDisjoint'
  BY <1>1, IInvByTable DEF CacheProcessingDisjoint, NapKeyExists
<1>4. SnIsReal'
  BY <1>1, <1>2, IInvByTable, SnIsRealKept DEF NapKeyExists
<1> QED  BY <1>1, <1>2, <1>3, <1>4, IInvByTable, IInvNext DEF NapKeyExists

LEMMA NapInVainStep ==
  ASSUME IInv, NEW r \in Req, NEW h \in Hash, req[r].pc = "nap", NapInVain(r, h)
  PROVE  IInv'
<1> DEFINE again == [pc |-> "retry", hash |-> h,
                     attempt |-> req[r].attempt, due |-> FALSE]
           x == IF AttemptLeft(req[r].attempt) THEN again ELSE Idle
<1>1. req' = [req EXCEPT ![r] = x]
  BY IInvByTable DEF NapInVain
<1>2. x \in RequestState /\ x.pc # "answered"
  <2>1. CASE AttemptLeft(req[r].attempt)
    <3>1. req[r].attempt \in 0 .. MaxWaitAttempts - 1
      <4>1. req[r] \in Napping
        BY IInvByTable, SlotByPc
      <4>2. req[r].attempt < MaxWaitAttempts
        BY <2>1 DEF AttemptLeft
      <4> QED  BY <4>1, <4>2, CountAssumption DEF Napping
    <3> QED  BY <2>1, <3>1 DEF RequestState, Sleeping
  <2>2. CASE ~AttemptLeft(req[r].attempt)
    BY <2>2, IdleIsState
  <2> QED  BY <2>1, <2>2
<1> HIDE DEF x
<1>3. req' \in [Req -> RequestState] /\ NoNewAnswer
  BY <1>1, <1>2, IInvByTable, SlotUpdate
<1>4. SnIsReal'
  BY <1>3, IInvByTable, ItemsOfSelf, SnIsRealKept DEF NapInVain
<1> QED  BY <1>3, <1>4, IInvByTable, IInvNext DEF NapInVain, CacheProcessingDisjoint

LEMMA WakeUpStep ==
  ASSUME IInv, NEW r \in Req, NapOver(r) \/ RetryOver(r)
  PROVE  IInv'
<1>1. CASE NapOver(r)
  <2>1. req[r].pc = "nap" /\ req[r].hash \in Hash
    BY <1>1, IInvByTable, SlotByPc DEF NapOver
  <2>2. CASE NapKeyExists(r, req[r].hash)
    BY <2>1, <2>2, NapKeyExistsStep
  <2>3. CASE NapDispatch(r, req[r].hash)
    <3>1. Dispatch(r, req[r].hash) /\ req[r].hash \notin Keys(keyCache)
      BY <2>3 DEF NapDispatch
    <3> QED  BY <2>1, <3>1, DispatchStep
  <2>4. CASE NapInVain(r, req[r].hash)
    BY <2>1, <2>4, NapInVainStep
  <2> QED  BY <1>1, <2>2, <2>3, <2>4 DEF NapOver
<1>2. CASE RetryOver(r)
  <2>1. /\ req[r].attempt \in 0 .. MaxWaitAttempts - 1
        /\ req[r].hash \in Hash
    BY <1>2, IInvByTable, SlotByPc DEF RetryOver
  <2>2. req[r].attempt + 1 \in 0 .. MaxWaitAttempts
    BY <2>1, CountAssumption
  <2>3. HandleKeyPacket(r, req[r].hash, req[r].attempt + 1)
    BY <1>2 DEF RetryOver
  <2> QED  BY <2>1, <2>2, <2>3, HandleKeyPacketStep
<1> QED  BY <1>1, <1>2

LEMMA SubmitStep ==
  ASSUME IInv, NEW r \in Req, Submit(r)
  PROVE  IInv'
BY HandleKeyPacketStep, CountAssumption DEF Submit, KeyPacket

LEMMA DataPacketStep ==
  ASSUME IInv, NEW h \in Hash, DataPacket(h)
  PROVE  IInv'
<1>1. CacheOK(keyCache') /\ Keys(keyCache') = Keys(keyCache)
      /\ ItemsOf(keyCache', keyCache)
  BY IInvByTable, TouchCache DEF DataPacket
<1>2. CacheProcessingDisjoint' /\ NoNewAnswer
  BY <1>1, IInvByTable DEF CacheProcessingDisjoint, DataPacket, NoNewAnswer
<1>3. SnIsReal'
  BY <1>1, <1>2, IInvByTable, SnIsRealKept DEF DataPacket
<1> QED  BY <1>1, <1>2, <1>3, IInvByTable, IInvNext DEF DataPacket

-----------------------------------------------------------------------------
(* push_task_to_queue.                                                     *)

LEMMA EnqueueStep ==
  ASSUME IInv, NEW r \in Req, Enqueue(r)
  PROVE  IInv'
<1> DEFINE x == [req[r] EXCEPT !.pc = "queued"]
<1>1. req' = [req EXCEPT ![r] = x] /\ req[r] \in Placed
  BY IInvByTable, SlotByPc DEF Enqueue
<1>2. x \in RequestState /\ x.pc # "answered"
  BY <1>1 DEF RequestState, Placed
<1>3. req' \in [Req -> RequestState] /\ NoNewAnswer
  BY <1>1, <1>2, IInvByTable, SlotUpdate
<1>4. SnIsReal'
  BY <1>3, IInvByTable, ItemsOfSelf, SnIsRealKept DEF Enqueue
<1> QED  BY <1>3, <1>4, IInvByTable, IInvNext DEF Enqueue, CacheProcessingDisjoint

LEMMA EnqueueFailsStep ==
  ASSUME IInv, NEW r \in Req, EnqueueFails(r)
  PROVE  IInv'
<1>1. ProcessingOK(processing') /\ Keys(processing') \subseteq Keys(processing)
  BY IInvByTable, DiscardProcessing DEF EnqueueFails
<1>2. req' \in [Req -> RequestState] /\ NoNewAnswer
  BY IInvByTable, IdleIsState, SlotUpdate DEF EnqueueFails
<1>3. CacheProcessingDisjoint'
  BY <1>1, IInvByTable DEF CacheProcessingDisjoint, EnqueueFails
<1>4. SnIsReal'
  BY <1>2, IInvByTable, ItemsOfSelf, SnIsRealKept DEF EnqueueFails
<1> QED  BY <1>1, <1>2, <1>3, <1>4, IInvByTable, IInvNext DEF EnqueueFails

\* The submitter leaves: its job goes on as it is.
LEMMA EndPostingSlot ==
  ASSUME req \in [Req -> RequestState], NEW r \in Req, EndPosting(r)
  PROVE  req' \in [Req -> RequestState] /\ NoNewAnswer
<1>1. CASE req[r].pc = "posting" /\ req' = [req EXCEPT ![r] = Idle]
  BY <1>1, IdleIsState, SlotUpdate
<1>2. CASE InFlight(r) /\ req' = [req EXCEPT ![r].posting = FALSE]
  <2> DEFINE x == [req[r] EXCEPT !.posting = FALSE]
  <2>1. req' = [req EXCEPT ![r] = x]
    BY <1>2
  <2>2. CASE req[r] \in Placed /\ req[r].pc # "answered"
    <3>1. x \in RequestState /\ x.pc # "answered"
      BY <2>2 DEF RequestState, Placed
    <3> QED  BY <2>1, <3>1, SlotUpdate
  <2>3. CASE req[r] \in Answered
    <3>1. /\ x \in RequestState
          /\ req[r].pc = "answered"
          /\ x.hash = req[r].hash
          /\ x.server = req[r].server
          /\ x.answer = req[r].answer
      BY <2>3 DEF RequestState, Answered
    <3> HIDE DEF x
    <3> QED  BY <2>1, <3>1 DEF NoNewAnswer
  <2> QED  BY <1>2, <2>2, <2>3, SlotByPc DEF InFlight
<1> QED  BY <1>1, <1>2 DEF EndPosting

LEMMA PostingStep ==
  ASSUME IInv, NEW r \in Req, Posted(r) \/ PostFails(r)
  PROVE  IInv'
<1>1. req' \in [Req -> RequestState] /\ NoNewAnswer
  BY IInvByTable, EndPostingSlot DEF Posted, PostFails
<1>2. UNCHANGED <<busyLeft, lastDispatch, keyCache, stored>>
  BY DEF Posted, PostFails
<1>3. ProcessingOK(processing') /\ Keys(processing') \subseteq Keys(processing)
  BY IInvByTable, DiscardProcessing DEF Posted, PostFails
<1>4. CacheProcessingDisjoint'
  BY <1>2, <1>3, IInvByTable DEF CacheProcessingDisjoint
<1>5. SnIsReal'
  BY <1>1, <1>2, IInvByTable, ItemsOfSelf, SnIsRealKept
<1> QED  BY <1>1, <1>2, <1>3, <1>4, <1>5, IInvByTable, IInvNext

-----------------------------------------------------------------------------
(* worker_loop and process_job.                                            *)

\* The slot of a job that is over, whatever became of the job.
LEMMA OverIsState ==
  ASSUME NEW job \in Placed \cup Answered
  PROVE  Over(job) \in RequestState /\ Over(job).pc # "answered"
BY IdleIsState DEF Over, RequestState, Placed, Answered, Posting

LEMMA TakeStep ==
  ASSUME IInv, NEW r \in Req, Take(r)
  PROVE  IInv'
<1> DEFINE x == [req[r] EXCEPT !.pc = "running"]
<1>1. req' = [req EXCEPT ![r] = x] /\ req[r] \in Placed
  BY IInvByTable, SlotByPc DEF Take
<1>2. x \in RequestState /\ x.pc # "answered"
  BY <1>1 DEF RequestState, Placed
<1>3. req' \in [Req -> RequestState] /\ NoNewAnswer
  BY <1>1, <1>2, IInvByTable, SlotUpdate
<1>4. SnIsReal'
  BY <1>3, IInvByTable, ItemsOfSelf, SnIsRealKept DEF Take
<1> QED  BY <1>3, <1>4, IInvByTable, IInvNext DEF Take, CacheProcessingDisjoint

LEMMA JobLostStep ==
  ASSUME IInv, NEW r \in Req, JobLost(r)
  PROVE  IInv'
<1>1. req[r] \in Placed /\ req' = [req EXCEPT ![r] = Over(req[r])]
  BY IInvByTable, SlotByPc DEF JobLost
<1>2. Over(req[r]) \in RequestState /\ Over(req[r]).pc # "answered"
  BY <1>1, OverIsState
<1>3. req' \in [Req -> RequestState] /\ NoNewAnswer
  BY <1>1, <1>2, IInvByTable, SlotUpdate
<1>4. SnIsReal'
  BY <1>3, IInvByTable, ItemsOfSelf, SnIsRealKept DEF JobLost
<1> QED  BY <1>3, <1>4, IInvByTable, IInvNext DEF JobLost, CacheProcessingDisjoint

LEMMA JobFailsStep ==
  ASSUME IInv, NEW r \in Req, JobFails(r)
  PROVE  IInv'
<1>1. req[r] \in Placed \cup Answered /\ req' = [req EXCEPT ![r] = Over(req[r])]
  BY IInvByTable, SlotByPc DEF JobFails
<1>2. Over(req[r]) \in RequestState /\ Over(req[r]).pc # "answered"
  BY <1>1, OverIsState
<1>3. req' \in [Req -> RequestState] /\ NoNewAnswer
  BY <1>1, <1>2, IInvByTable, SlotUpdate
<1>4. ProcessingOK(processing') /\ Keys(processing') \subseteq Keys(processing)
  BY IInvByTable, DiscardProcessing DEF JobFails
<1>5. CacheProcessingDisjoint'
  BY <1>4, IInvByTable DEF CacheProcessingDisjoint, JobFails
<1>6. SnIsReal'
  BY <1>3, IInvByTable, ItemsOfSelf, SnIsRealKept DEF JobFails
<1> QED  BY <1>3, <1>4, <1>5, <1>6, IInvByTable, IInvNext DEF JobFails

\* The only step that creates an answered job: its server has the key if the
\* answer carries a serial number.
LEMMA ServerAnswerStep ==
  ASSUME IInv, NEW r \in Req, NEW a \in Answer, ServerAnswer(r, a)
  PROVE  IInv'
<1> DEFINE s == req[r].server
           h == req[r].hash
           x == [pc |-> "answered", hash |-> h, server |-> s,
                 posting |-> req[r].posting, answer |-> a]
<1>1. /\ req[r] \in Placed
      /\ req \in [Req -> RequestState]
      /\ stored \in [Servers -> SUBSET Hash]
      /\ s \in Servers
      /\ h \in Hash
  <2>1. req[r] \in Placed
    BY IInvByTable, SlotByPc DEF ServerAnswer
  <2> QED  BY <2>1, IInvByTable DEF Placed
<1>2. req' = [req EXCEPT ![r] = x]
  BY <1>1 DEF ServerAnswer
<1>3. x \in RequestState
  BY <1>1 DEF RequestState, Placed, Answered
<1>4. req' \in [Req -> RequestState] /\ req'[r] = x
  BY <1>1, <1>2, <1>3
<1>5. /\ stored' \in [Servers -> SUBSET Hash]
      /\ \A t \in Servers : stored[t] \subseteq stored'[t]
      /\ a.sn => h \in stored'[s]
  <2>1. CASE a.msg = "keygen_succ"
    <3>1. stored' = [stored EXCEPT ![s] = @ \cup {h}]
      BY <2>1 DEF ServerAnswer
    <3> QED  BY <1>1, <3>1
  <2>2. CASE a.msg # "keygen_succ"
    <3>1. stored' = stored
      BY <2>2 DEF ServerAnswer
    <3>2. a.sn => h \in stored[s]
      BY <2>2 DEF ServerAnswer, MayAnswer
    <3> QED  BY <1>1, <3>1, <3>2
  <2> QED  BY <2>1, <2>2
<1>6. SnIsReal'
  <2>1. ASSUME NEW i \in DOMAIN keyCache, keyCache[i].val.sn
        PROVE  keyCache[i].key \in stored'[keyCache[i].val.server]
    <3>1. keyCache[i] \in [key : Hash, val : KeyInfo]
      BY IInvByTable, ItemTypes DEF CacheOK
    <3>2. keyCache[i].key \in stored[keyCache[i].val.server]
      BY <2>1, IInvByTable DEF SnIsReal
    <3>3. keyCache[i].val.server \in Servers
      BY <3>1 DEF KeyInfo
    <3> QED  BY <1>5, <3>2, <3>3
  <2>2. ASSUME NEW q \in Req, req'[q].pc = "answered", req'[q].answer.sn
        PROVE  req'[q].hash \in stored'[req'[q].server]
    <3>1. CASE q = r
      <4>1. req'[q].hash = h /\ req'[q].server = s /\ req'[q].answer = a
        BY <1>4, <3>1
      <4> QED  BY <1>5, <2>2, <4>1
    <3>2. CASE q # r
      <4>1. req'[q] = req[q]
        BY <1>1, <1>2, <3>2
      <4>2. req[q] \in Answered
        BY <1>1, <2>2, <4>1, SlotByPc
      <4>3. req[q].server \in Servers
        BY <4>2 DEF Answered
      <4>4. req[q].hash \in stored[req[q].server]
        BY <2>2, <4>1, IInvByTable DEF SnIsReal
      <4> QED  BY <1>5, <4>1, <4>3, <4>4
    <3> QED  BY <3>1, <3>2
  <2>3. keyCache' = keyCache
    BY DEF ServerAnswer
  <2> QED  BY <2>1, <2>2, <2>3 DEF SnIsReal
<1> HIDE DEF x, s, h
<1> QED  BY <1>4, <1>5, <1>6, IInvByTable, IInvNext
         DEF ServerAnswer, CacheProcessingDisjoint

LEMMA FinishJobStep ==
  ASSUME IInv, NEW r \in Req, FinishJob(r)
  PROVE  IInv'
<1> DEFINE job == req[r]
           a == job.answer
           added == AddKeyToCache(keyCache, job.hash, job.server, a.sn)
<1>1. /\ job \in Answered
      /\ job.hash \in Hash
      /\ job.server \in Servers
      /\ a.sn \in BOOLEAN
      /\ job.pc = "answered"
  <2>1. job \in Answered /\ job.pc = "answered"
    BY IInvByTable, SlotByPc DEF FinishJob
  <2> QED  BY <2>1 DEF Answered, Answer
<1>2. /\ busyLeft' = IF a.msg = "keygen_busy"
                       THEN [busyLeft EXCEPT ![job.server] = ServerBusyTimeout]
                       ELSE busyLeft
      /\ keyCache' = IF Success(a) THEN added ELSE keyCache
      /\ processing' = Discard(processing, job.hash)
      /\ req' = [req EXCEPT ![r] = Over(job)]
      /\ UNCHANGED <<lastDispatch, stored>>
  BY DEF FinishJob
<1>3. req' \in [Req -> RequestState] /\ NoNewAnswer
  <2>1. Over(job) \in RequestState /\ Over(job).pc # "answered"
    BY <1>1, OverIsState
  <2> QED  BY <1>2, <2>1, IInvByTable, SlotUpdate
<1>4. busyLeft' \in [Servers -> -1 .. ServerBusyTimeout]
  <2>1. busyLeft \in [Servers -> -1 .. ServerBusyTimeout]
    BY IInvByTable
  <2>2. ServerBusyTimeout \in -1 .. ServerBusyTimeout
    BY TimeoutAssumption
  <2> QED  BY <1>2, <2>1, <2>2
<1>5. ProcessingOK(processing') /\ Keys(processing') = Keys(processing) \ {job.hash}
  BY <1>2, IInvByTable, DiscardProcessing
<1>6. /\ CacheOK(added)
      /\ Keys(added) \subseteq Keys(keyCache) \cup {job.hash}
      /\ \A i \in DOMAIN added :
           \/ added[i] = [key |-> job.hash,
                          val |-> [server |-> job.server, sn |-> a.sn]]
           \/ \E j \in DOMAIN keyCache : added[i] = keyCache[j]
  BY <1>1, IInvByTable, AddKeyToCacheProperties
<1>7. a.sn => job.hash \in stored[job.server]
  BY <1>1, IInvByTable DEF SnIsReal
<1> HIDE DEF added, a, job
<1>8. CacheOK(keyCache') /\ Keys(keyCache') \subseteq Keys(keyCache) \cup {job.hash}
  BY <1>2, <1>6, IInvByTable
<1>9. CacheProcessingDisjoint'
  BY <1>5, <1>8, IInvByTable DEF CacheProcessingDisjoint
<1>10. SnIsReal'
  <2>1. ASSUME NEW i \in DOMAIN added, added[i].val.sn
        PROVE  added[i].key \in stored[added[i].val.server]
    BY <1>6, <1>7, <2>1, IInvByTable DEF SnIsReal
  <2>2. \A i \in DOMAIN keyCache' :
          keyCache'[i].val.sn => keyCache'[i].key \in stored'[keyCache'[i].val.server]
    BY <1>2, <2>1, IInvByTable DEF SnIsReal
  <2>3. \A q \in Req :
          (req'[q].pc = "answered" /\ req'[q].answer.sn)
            => req'[q].hash \in stored'[req'[q].server]
    BY <1>2, <1>3, IInvByTable DEF SnIsReal, NoNewAnswer
  <2> QED  BY <2>2, <2>3 DEF SnIsReal
<1> QED  BY <1>2, <1>3, <1>4, <1>5, <1>8, <1>9, <1>10, IInvByTable, IInvNext

-----------------------------------------------------------------------------
(* Time and restarts.                                                      *)

\* A second changes no key and no type.
LEMMA TickStep ==
  ASSUME IInv, Tick
  PROVE  IInv'
<1>1. busyLeft' \in [Servers -> -1 .. ServerBusyTimeout]
  <2>1. busyLeft \in [Servers -> -1 .. ServerBusyTimeout]
    BY IInvByTable
  <2>2. busyLeft' = [s \in Servers |-> IF IsBusy(s) THEN busyLeft[s] - 1 ELSE -1]
    BY DEF Tick
  <2>3. ASSUME NEW s \in Servers
        PROVE  (IF IsBusy(s) THEN busyLeft[s] - 1 ELSE -1) \in -1 .. ServerBusyTimeout
    BY <2>1, TimeoutAssumption DEF IsBusy
  <2> QED  BY <2>2, <2>3
<1>2. ProcessingOK(processing') /\ Keys(processing') = Keys(processing)
  <2> DEFINE aged(i) == IF Expired(processing[i].val)
                           THEN processing[i]
                           ELSE [processing[i] EXCEPT !.val.age = @ + 1]
             S == [key : Hash, val : BusyInfo]
  <2>1. /\ Len(processing) \in Nat
        /\ DOMAIN processing = 1 .. Len(processing)
        /\ \A i \in 1 .. Len(processing) : processing[i] \in S
    BY IInvByTable, ItemTypes DEF ProcessingOK
  <2>2. processing' = [i \in 1 .. Len(processing) |-> aged(i)]
    BY <2>1 DEF Tick
  <2>3. ASSUME NEW i \in 1 .. Len(processing)
        PROVE  aged(i) \in S /\ aged(i).key = processing[i].key
    <3>1. processing[i] \in S
      BY <2>1
    <3>2. CASE Expired(processing[i].val)
      BY <3>1, <3>2
    <3>3. CASE ~Expired(processing[i].val)
      <4> DEFINE info == [server |-> processing[i].val.server,
                          age |-> processing[i].val.age + 1]
      <4>1. info \in BusyInfo
        BY <3>1, <3>3, TimeoutAssumption DEF BusyInfo, Expired
      <4>2. aged(i) = [key |-> processing[i].key, val |-> info]
        BY <3>1, <3>3 DEF BusyInfo
      <4> HIDE DEF info, aged
      <4> QED  BY <3>1, <4>1, <4>2
    <3> QED  BY <3>2, <3>3
  <2> HIDE DEF aged, S
  <2>4. processing' \in Seq(S)
    BY <2>1, <2>2, <2>3, IsASeq
  <2>5. Len(processing') = Len(processing) /\ DOMAIN processing' = 1 .. Len(processing)
    BY <2>1, <2>2, <2>4, LenProperties
  <2>6. \A i \in 1 .. Len(processing) : processing'[i].key = processing[i].key
    BY <2>2, <2>3
  <2>7. IsDict(processing')
    BY <2>1, <2>5, <2>6, IInvByTable DEF IsDict, ProcessingOK
  <2>8. Keys(processing') = Keys(processing)
    BY <2>1, <2>5, <2>6 DEF Keys
  <2> QED  BY <2>4, <2>5, <2>7, <2>8, IInvByTable DEF ProcessingOK, Items, S
<1>3. req' \in [Req -> RequestState] /\ NoNewAnswer
  <2>1. req \in [Req -> RequestState]
    BY IInvByTable
  <2>2. ASSUME NEW r \in Req
        PROVE  /\ req'[r] \in RequestState
               /\ req'[r] = req[r] \/ req'[r].pc # "answered"
    <3>1. CASE req[r].pc \in {"nap", "retry"}
      <4>1. req'[r] = [req[r] EXCEPT !.due = TRUE] /\ req[r] \in Sleeping
        BY <2>1, <3>1, SlotByPc DEF Tick
      <4> QED  BY <4>1 DEF Sleeping, RequestState
    <3>2. CASE req[r].pc \notin {"nap", "retry"}
      BY <2>1, <3>2 DEF Tick
    <3> QED  BY <3>1, <3>2
  <2>3. req' = [r \in Req |-> req'[r]]
    BY DEF Tick
  <2> QED  BY <2>2, <2>3 DEF NoNewAnswer
<1>4. CacheProcessingDisjoint'
  BY <1>2, IInvByTable DEF CacheProcessingDisjoint, Tick
<1>5. SnIsReal'
  BY <1>3, IInvByTable, ItemsOfSelf, SnIsRealKept DEF Tick
<1> QED  BY <1>1, <1>2, <1>3, <1>4, <1>5, IInvByTable, IInvNext DEF Tick

\* Empty tables.
LEMMA EmptyTables ==
  /\ CacheOK(<<>>)
  /\ ProcessingOK(<<>>)
  /\ Keys(<<>>) = {}
BY EmptySeq, CapacityAssumption DEF CacheOK, ProcessingOK, Items, IsDict, Keys

LEMMA RestartStep ==
  ASSUME IInv, Restart
  PROVE  IInv'
<1>1. busyLeft' \in [Servers -> -1 .. ServerBusyTimeout]
  BY TimeoutAssumption DEF Restart
<1>2. req' \in [Req -> RequestState] /\ NoNewAnswer
  <2>1. req \in [Req -> RequestState]
    BY IInvByTable
  <2>2. ASSUME NEW r \in Req
        PROVE  req'[r] \in RequestState /\ req'[r].pc # "answered"
    <3>1. CASE req[r].pc = "queued"
      <4>1. req'[r] = [req[r] EXCEPT !.posting = FALSE] /\ req[r] \in Placed
        BY <2>1, <3>1, SlotByPc DEF Restart
      <4> QED  BY <3>1, <4>1 DEF Placed, RequestState
    <3>2. CASE req[r].pc # "queued"
      BY <2>1, <3>2, IdleIsState DEF Restart
    <3> QED  BY <3>1, <3>2
  <2>3. req' = [r \in Req |-> req'[r]]
    BY DEF Restart
  <2> QED  BY <2>2, <2>3 DEF NoNewAnswer
<1>3. ItemsOf(keyCache', keyCache)
  BY DEF Restart, ItemsOf
<1>4. SnIsReal'
  BY <1>2, <1>3, IInvByTable, SnIsRealKept DEF Restart
<1>5. CacheProcessingDisjoint'
  BY EmptyTables DEF CacheProcessingDisjoint, Restart
<1> QED  BY <1>1, <1>2, <1>4, <1>5, EmptyTables, IInvByTable, IInvNext DEF Restart

-----------------------------------------------------------------------------
(* The theorems.                                                           *)

LEMMA InitIInv == Init => IInv
<1> SUFFICES ASSUME Init
             PROVE  IInv
  OBVIOUS
<1>1. /\ busyLeft \in [Servers -> -1 .. ServerBusyTimeout]
      /\ lastDispatch \in Servers \cup {-1}
      /\ req \in [Req -> RequestState]
      /\ stored \in [Servers -> SUBSET Hash]
  BY TimeoutAssumption, IdleIsState DEF Init
<1>2. CacheOK(keyCache) /\ ProcessingOK(processing) /\ CacheProcessingDisjoint
  BY EmptyTables DEF Init, CacheProcessingDisjoint
<1>3. SnIsReal
  BY IdleIsState DEF Init, SnIsReal
<1> QED  BY <1>1, <1>2, <1>3, IInvByTable

LEMMA NextIInv == IInv /\ [Next]_vars => IInv'
<1> SUFFICES ASSUME IInv, [Next]_vars
             PROVE  IInv'
  OBVIOUS
<1>1. ASSUME NEW r \in Req,
             Submit(r) \/ NapOver(r) \/ RetryOver(r) \/ PushStep(r) \/ WorkerStep(r)
      PROVE  IInv'
  <2>1. CASE Submit(r)
    BY <2>1, SubmitStep
  <2>2. CASE NapOver(r) \/ RetryOver(r)
    BY <2>2, WakeUpStep
  <2>3. CASE PushStep(r)
    BY <2>3, EnqueueStep, EnqueueFailsStep, PostingStep DEF PushStep
  <2>4. CASE WorkerStep(r)
    BY <2>4, TakeStep, JobLostStep, ServerAnswerStep, FinishJobStep, JobFailsStep
       DEF WorkerStep
  <2> QED  BY <1>1, <2>1, <2>2, <2>3, <2>4
<1>2. ASSUME NEW h \in Hash, DataPacket(h)
      PROVE  IInv'
  BY <1>2, DataPacketStep
<1>3. CASE Tick
  BY <1>3, TickStep
<1>4. CASE Restart
  BY <1>4, RestartStep
<1>5. CASE UNCHANGED vars
  BY <1>5 DEF vars, IInv, TypeOK, TablesWellFormed, CacheProcessingDisjoint, SnIsReal
<1> QED  BY <1>1, <1>2, <1>3, <1>4, <1>5 DEF Next

THEOREM Invariance == Spec => []IInv
BY InitIInv, NextIInv, PTL DEF Spec

\* Every variable keeps its type: in particular no request sleeps more often than
\* quick_submit's loop allows.
THEOREM TypeCorrect == Spec => []TypeOK
BY Invariance, PTL DEF IInv

\* load_balancer.py's two tables hold each hash once and never outgrow their
\* capacities.
THEOREM TablesStayWellFormed == Spec => []TablesWellFormed
BY Invariance, PTL DEF IInv

\* A hash whose key is cached is never in _processing_keys.
THEOREM CachedNotProcessing == Spec => []CacheProcessingDisjoint
BY Invariance, PTL DEF IInv

\* A serial number that the load balancer hands out comes with a server that has
\* generated the key.
THEOREM SerialNumbersReal == Spec => []SnIsReal
BY Invariance, PTL DEF IInv

-----------------------------------------------------------------------------
(* The order of _processing_keys.                                          *)

InTimeOrder(p) == \A i, j \in DOMAIN p : i < j => p[i].val.age >= p[j].val.age

\* What is left after the oldest entries are gone.
LEMMA SuffixInTimeOrder ==
  ASSUME NEW p \in Items(Hash, BusyInfo), InTimeOrder(p), NEW m \in Nat \ {0}
  PROVE  InTimeOrder(SubSeq(p, m, Len(p)))
<1> DEFINE q == SubSeq(p, m, Len(p))
           n == Len(p)
           S == [key : Hash, val : BusyInfo]
<1>1. /\ n \in Nat /\ DOMAIN p = 1 .. n
      /\ \A j \in 1 .. n : p[j] \in S
  BY ItemTypes
<1> HIDE DEF S
<1>2. /\ q \in Seq(S)
      /\ Len(q) = IF m <= n THEN n - m + 1 ELSE 0
      /\ \A j \in 1 .. n - m + 1 : q[j] = p[m + j - 1]
  <2>1. \A j \in m .. n : p[j] \in S
    BY <1>1
  <2> QED  BY <1>1, <2>1, m \in Int, n \in Int, SubSeqProperties
<1> HIDE DEF q
<1>3. DOMAIN q = 1 .. Len(q)
  BY <1>2, LenProperties
<1>4. ASSUME NEW i \in DOMAIN q, NEW j \in DOMAIN q, i < j
      PROVE  q[i].val.age >= q[j].val.age
  <2>1. /\ m + i - 1 \in 1 .. n /\ m + j - 1 \in 1 .. n
        /\ m + i - 1 < m + j - 1
        /\ q[i] = p[m + i - 1] /\ q[j] = p[m + j - 1]
    BY <1>1, <1>2, <1>3, <1>4
  <2> QED  BY <1>1, <2>1 DEF InTimeOrder
<1> QED  BY <1>4 DEF InTimeOrder, q

LEMMA EvictInTimeOrder ==
  ASSUME NEW p \in Items(Hash, BusyInfo), InTimeOrder(p), NEW max \in Nat \ {0}
  PROVE  InTimeOrder(EvictWhileFull(p, max))
<1>1. CASE Len(p) < max
  BY <1>1 DEF EvictWhileFull
<1>2. CASE ~(Len(p) < max)
  <2>1. Len(p) - max + 2 \in Nat \ {0}
    BY <1>2, ItemTypes
  <2> QED  BY <1>2, <2>1, SuffixInTimeOrder DEF EvictWhileFull
<1> QED  BY <1>1, <1>2

LEMMA DropExpiredInTimeOrder ==
  ASSUME NEW p, ProcessingOK(p), InTimeOrder(p)
  PROVE  InTimeOrder(DropExpired(p))
<1> DEFINE I == {i \in DOMAIN p : ~Expired(p[i].val)}
           n == Cardinality(I)
           q == Only(p, I)
<1>1. I \in SUBSET DOMAIN p /\ DropExpired(p) = q
  BY DEF DropExpired
<1> HIDE DEF I
<1>2. PICK place \in [1 .. n -> I] :
        /\ \A k \in 1 .. n : q[k] = p[place[k]]
        /\ \A a, b \in 1 .. n : a < b => place[a] < place[b]
  BY <1>1, OnlyProperties DEF ProcessingOK
<1>3. DOMAIN q = 1 .. n
  BY <1>1, OnlyProperties DEF ProcessingOK
<1> HIDE DEF n, q
<1>4. ASSUME NEW a \in 1 .. n, NEW b \in 1 .. n, a < b
      PROVE  q[a].val.age >= q[b].val.age
  <2>1. place[a] \in DOMAIN p /\ place[b] \in DOMAIN p /\ place[a] < place[b]
    BY <1>1, <1>2, <1>4
  <2> QED  BY <1>2, <2>1 DEF InTimeOrder
<1> QED  BY <1>1, <1>3, <1>4 DEF InTimeOrder

\* An entry that is taken out from between leaves the others as they stand.
LEMMA DiscardInTimeOrder ==
  ASSUME NEW p \in Items(Hash, BusyInfo), InTimeOrder(p), NEW h
  PROVE  InTimeOrder(Discard(p, h))
<1>1. CASE h \notin Keys(p)
  BY <1>1 DEF Discard
<1>2. CASE h \in Keys(p)
  <2> DEFINE k == Position(p, h)
             q == RemoveAt(p, k)
             n == Len(p)
  <2>1. n \in Nat /\ DOMAIN p = 1 .. n /\ k \in 1 .. n
    BY <1>2, ItemTypes, PositionOfKey
  <2>2. /\ DOMAIN q = 1 .. n - 1
        /\ \A j \in 1 .. n - 1 : q[j] = IF j < k THEN p[j] ELSE p[j + 1]
    BY <2>1, RemoveAtProperties DEF Items
  <2> HIDE DEF k, q, n
  <2>3. ASSUME NEW i \in DOMAIN q, NEW j \in DOMAIN q, i < j
        PROVE  q[i].val.age >= q[j].val.age
    <3>1. PICK a \in 1 .. n, b \in 1 .. n : a < b /\ q[i] = p[a] /\ q[j] = p[b]
      <4> DEFINE place(x) == IF x < k THEN x ELSE x + 1
      <4>1. /\ place(i) \in 1 .. n /\ place(j) \in 1 .. n /\ place(i) < place(j)
        BY <2>1, <2>2, <2>3
      <4>2. q[i] = p[place(i)] /\ q[j] = p[place(j)]
        BY <2>2
      <4> QED  BY <4>1, <4>2
    <3> QED  BY <2>1, <3>1 DEF InTimeOrder
  <2> QED  BY <1>2, <2>3 DEF InTimeOrder, Discard, q, k
<1> QED  BY <1>1, <1>2

\* A new entry has age 0 and goes last.
LEMMA AddToProcessingInTimeOrder ==
  ASSUME NEW p, ProcessingOK(p), InTimeOrder(p), NEW h \in Hash, NEW s \in Servers
  PROVE  InTimeOrder(AddToProcessing(p, h, s))
<1> DEFINE live == DropExpired(p)
           info == [server |-> s, age |-> 0]
           room == EvictWhileFull(live, MaxBusyQueueSize)
           item == [key |-> h, val |-> info]
<1>1. ProcessingOK(live) /\ InTimeOrder(live)
  BY DropExpiredProperties, DropExpiredInTimeOrder
<1>2. CASE h \in Keys(live)
  BY <1>1, <1>2 DEF AddToProcessing
<1>3. CASE h \notin Keys(live)
  <2>1. AddToProcessing(p, h, s) = Assign(room, h, info)
    BY <1>3 DEF AddToProcessing
  <2> HIDE DEF live
  <2>2. /\ room \in Items(Hash, BusyInfo)
        /\ Keys(room) \subseteq Keys(live)
        /\ InTimeOrder(room)
    BY <1>1, CapacityAssumption, EvictProperties, EvictInTimeOrder DEF ProcessingOK
  <2>3. Assign(room, h, info) = Append(room, item)
    BY <1>3, <2>2 DEF Assign
  <2>4. item.val.age = 0 /\ item \in [key : Hash, val : BusyInfo]
    BY TimeoutAssumption DEF BusyInfo
  <2> HIDE DEF room, item
  <2> DEFINE q == Append(room, item)
             n == Len(room)
  <2>5. /\ n \in Nat /\ DOMAIN room = 1 .. n
        /\ \A i \in 1 .. n : room[i] \in [key : Hash, val : BusyInfo]
    BY <2>2, ItemTypes
  <2>6. /\ DOMAIN q = 1 .. n + 1 /\ q[n + 1] = item
        /\ \A i \in 1 .. n : q[i] = room[i]
    BY <2>2, <2>4, AppendProperties DEF Items
  <2>7. \A i \in 1 .. n : room[i].val.age >= 0
    BY <2>5, TimeoutAssumption DEF BusyInfo
  <2> HIDE DEF q, n
  <2>8. ASSUME NEW i \in DOMAIN q, NEW j \in DOMAIN q, i < j
        PROVE  q[i].val.age >= q[j].val.age
    <3>1. i \in 1 .. n /\ q[i] = room[i]
      BY <2>5, <2>6, <2>8
    <3>2. CASE j = n + 1
      <4>1. q[j].val.age = 0
        BY <2>4, <2>6, <3>2
      <4> QED  BY <2>7, <3>1, <4>1
    <3>3. CASE j # n + 1
      <4>1. j \in 1 .. n /\ q[j] = room[j]
        BY <2>5, <2>6, <3>3
      <4> QED  BY <2>2, <2>5, <2>8, <3>1, <4>1 DEF InTimeOrder
    <3> QED  BY <3>2, <3>3
  <2> QED  BY <2>1, <2>3, <2>8 DEF InTimeOrder, q
<1> QED  BY <1>2, <1>3

\* All entries age alike, up to the second after the timeout where they stop.
LEMMA TickInTimeOrder ==
  ASSUME ProcessingOK(processing), InTimeOrder(processing), Tick
  PROVE  InTimeOrder(processing')
<1> DEFINE n == Len(processing)
           age(i) == processing[i].val.age
<1>1. /\ n \in Nat /\ DOMAIN processing = 1 .. n
      /\ \A i \in 1 .. n : processing[i] \in [key : Hash, val : BusyInfo]
  BY ItemTypes DEF ProcessingOK
<1>2. \A i \in 1 .. n : age(i) \in 0 .. KeyBusyTimeout + 1
  BY <1>1 DEF BusyInfo
<1>3. processing' = [i \in 1 .. n |-> IF Expired(processing[i].val)
                                      THEN processing[i]
                                      ELSE [processing[i] EXCEPT !.val.age = @ + 1]]
  BY <1>1 DEF Tick
<1>4. ASSUME NEW i \in 1 .. n
      PROVE  processing'[i].val.age = IF age(i) > KeyBusyTimeout THEN age(i) ELSE age(i) + 1
  <2>1. processing[i] \in [key : Hash, val : BusyInfo]
    BY <1>1
  <2>2. CASE age(i) > KeyBusyTimeout
    BY <1>3, <2>2 DEF Expired
  <2>3. CASE ~(age(i) > KeyBusyTimeout)
    <3>1. processing'[i] = [processing[i] EXCEPT !.val.age = @ + 1]
      BY <1>3, <2>3 DEF Expired
    <3> QED  BY <2>1, <2>3, <3>1 DEF BusyInfo
  <2> QED  BY <2>2, <2>3
<1>5. DOMAIN processing' = 1 .. n
  BY <1>3
<1>6. \A i, j \in 1 .. n : i < j => age(i) >= age(j)
  BY <1>1 DEF InTimeOrder
<1> HIDE DEF age
<1>7. ASSUME NEW i \in 1 .. n, NEW j \in 1 .. n, i < j
      PROVE  processing'[i].val.age >= processing'[j].val.age
  <2>1. age(i) >= age(j) /\ age(i) \in 0 .. KeyBusyTimeout + 1 /\ age(j) \in 0 .. KeyBusyTimeout + 1
    BY <1>2, <1>6, <1>7
  <2> QED  BY <1>4, <2>1, TimeoutAssumption
<1> QED  BY <1>5, <1>7 DEF InTimeOrder

\* What a step may do to the table.
LEMMA ProcessingMoves ==
  ASSUME TypeOK, [Next]_vars
  PROVE  \/ processing' = processing
         \/ \E h \in Hash : processing' = Discard(processing, h)
         \/ \E h \in Hash, s \in Servers : processing' = AddToProcessing(processing, h, s)
         \/ Tick
         \/ processing' = <<>>
<1> DEFINE Moves == \/ processing' = processing
                    \/ \E h \in Hash : processing' = Discard(processing, h)
                    \/ \E h \in Hash, s \in Servers :
                         processing' = AddToProcessing(processing, h, s)
<1>0. req \in [Req -> RequestState]
  BY DEF TypeOK
<1>1. ASSUME NEW r \in Req, NEW h \in Hash, NEW a, HandleKeyPacket(r, h, a)
      PROVE  Moves
  BY <1>1 DEF HandleKeyPacket, KeyExists, KeyGenBusy, DispatchNewKey, Dispatch, NapForServer
<1>2. \A r \in Req : Submit(r) => Moves
  BY <1>1 DEF Submit, KeyPacket
<1>3. ASSUME NEW r \in Req, NapOver(r) \/ RetryOver(r)
      PROVE  Moves
  <2>1. req[r].hash \in Hash
    BY <1>0, <1>3, SlotByPc DEF NapOver, RetryOver, Sleeping
  <2>2. CASE NapOver(r)
    BY <2>1, <2>2 DEF NapOver, NapKeyExists, NapDispatch, Dispatch, NapInVain
  <2>3. CASE RetryOver(r)
    BY <1>1, <2>1, <2>3 DEF RetryOver
  <2> QED  BY <1>3, <2>2, <2>3
<1>4. ASSUME NEW r \in Req, PushStep(r) \/ WorkerStep(r)
      PROVE  Moves
  <2>1. \/ processing' = processing
        \/ processing' = Discard(processing, req[r].hash)
    BY <1>4 DEF PushStep, Enqueue, EnqueueFails, Posted, PostFails,
                WorkerStep, Take, JobLost, ServerAnswer, FinishJob, JobFails
  <2>2. req[r].pc # "idle"
    BY <1>4 DEF PushStep, Enqueue, EnqueueFails, Posted, PostFails, EndPosting, InFlight,
                WorkerStep, Take, JobLost, ServerAnswer, FinishJob, JobFails
  <2>3. req[r].hash \in Hash
    BY <1>0, <2>2 DEF RequestState, Idle, Sleeping, Placed, Answered, Posting
  <2> QED  BY <2>1, <2>3
<1>5. \A h \in Hash : DataPacket(h) => Moves
  BY DEF DataPacket
<1>6. UNCHANGED vars => Moves
  BY DEF vars
<1>7. Restart => processing' = <<>>
  BY DEF Restart
<1> QED  BY <1>2, <1>3, <1>4, <1>5, <1>6, <1>7 DEF Next

\* The oldest entry of _processing_keys is the first one, so that it is the one
\* that popitem(last=False) evicts, with any capacity and any timeout.
THEOREM OldestComesFirst == Spec => []ProcessingInTimeOrder
<1>1. Init => ProcessingInTimeOrder
  BY DEF Init, ProcessingInTimeOrder
<1>2. IInv /\ ProcessingInTimeOrder /\ [Next]_vars => ProcessingInTimeOrder'
  <2> SUFFICES ASSUME IInv, ProcessingInTimeOrder, [Next]_vars
               PROVE  ProcessingInTimeOrder'
    OBVIOUS
  <2>1. ProcessingOK(processing) /\ InTimeOrder(processing) /\ TypeOK
    BY IInvByTable DEF IInv, InTimeOrder, ProcessingInTimeOrder
  <2>2. InTimeOrder(<<>>)
    BY DEF InTimeOrder
  <2>3. InTimeOrder(processing')
    <3>1. CASE processing' = processing
      BY <2>1, <3>1
    <3>2. ASSUME NEW h \in Hash, processing' = Discard(processing, h)
          PROVE  InTimeOrder(processing')
      BY <2>1, <3>2, DiscardInTimeOrder DEF ProcessingOK
    <3>3. ASSUME NEW h \in Hash, NEW s \in Servers,
                 processing' = AddToProcessing(processing, h, s)
          PROVE  InTimeOrder(processing')
      BY <2>1, <3>3, AddToProcessingInTimeOrder
    <3>4. CASE Tick
      BY <2>1, <3>4, TickInTimeOrder
    <3> QED  BY <2>1, <2>2, <3>1, <3>2, <3>3, <3>4, ProcessingMoves
  <2> QED  BY <2>3 DEF InTimeOrder, ProcessingInTimeOrder
<1> QED  BY <1>1, <1>2, Invariance, PTL DEF Spec

-----------------------------------------------------------------------------
(* The order of _key_cache.                                                *)

\* The cache is in order of use, and of two keys only one was used later.
CacheInUseOrder ==
  /\ \A x, y : Before(keyCache, x, y) => <<x, y>> \in older
  /\ \A x, y : <<x, y>> \in older => <<y, x>> \notin older

\* What a step makes of the cache, and what it records.
LEMMA RecencyMoves ==
  ASSUME TypeOK, RecencyNext
  PROVE  \/ keyCache' = keyCache /\ older' = older
         \/ \E h \in Keys(keyCache) : keyCache' = MoveToEnd(keyCache, h) /\ Use(h)
         \/ \E h \in Hash, s \in Servers, sn \in BOOLEAN :
              /\ keyCache' = AddKeyToCache(keyCache, h, s, sn)
              /\ IF h \notin Keys(keyCache) \/ NextToGo(h)
                   THEN Use(h) ELSE older' = older
         \/ keyCache' = <<>> /\ older' = {}
<1> DEFINE Kept == keyCache' = keyCache /\ older' = older
           Hit == \E h \in Keys(keyCache) : keyCache' = MoveToEnd(keyCache, h) /\ Use(h)
<1>1. req \in [Req -> RequestState]
  BY DEF TypeOK
<1>2. ASSUME NEW r \in Req, NEW h, NEW a, HandleKeyPacket(r, h, a), Asked(h)
      PROVE  Kept \/ Hit
  <2>1. CASE KeyExists(r, h)
    BY <1>2, <2>1 DEF KeyExists, Asked
  <2>2. CASE KeyGenBusy(r, h) \/ DispatchNewKey(r, h) \/ NapForServer(r, h, a)
    BY <1>2, <2>2 DEF KeyGenBusy, DispatchNewKey, Dispatch, NapForServer, Asked
  <2> QED  BY <1>2, <2>1, <2>2 DEF HandleKeyPacket
<1>3. ASSUME NEW r \in Req, NEW h \in Hash, KeyPacket(r, h), Asked(h)
      PROVE  Kept \/ Hit
  BY <1>2, <1>3 DEF KeyPacket
<1>4. ASSUME NEW r \in Req, RetryOver(r), Asked(req[r].hash)
      PROVE  Kept \/ Hit
  BY <1>2, <1>4 DEF RetryOver
<1>5. ASSUME NEW r \in Req, NapOver(r), Asked(req[r].hash)
      PROVE  Kept \/ Hit
  <2>1. CASE NapKeyExists(r, req[r].hash)
    BY <1>5, <2>1 DEF NapKeyExists, Asked
  <2>2. CASE NapDispatch(r, req[r].hash) \/ NapInVain(r, req[r].hash)
    BY <1>5, <2>2 DEF NapDispatch, Dispatch, NapInVain, Asked
  <2> QED  BY <1>5, <2>1, <2>2 DEF NapOver
<1>6. ASSUME NEW r \in Req, PushStep(r) \/ Unanswered(r), UNCHANGED older
      PROVE  Kept
  BY <1>6 DEF PushStep, Enqueue, EnqueueFails, Posted, PostFails,
              Unanswered, Take, JobLost, ServerAnswer, JobFails
<1>7. ASSUME NEW r \in Req, FinishJob(r), Added(r)
      PROVE  \/ Kept
             \/ \E h \in Hash, s \in Servers, sn \in BOOLEAN :
                  /\ keyCache' = AddKeyToCache(keyCache, h, s, sn)
                  /\ IF h \notin Keys(keyCache) \/ NextToGo(h)
                       THEN Use(h) ELSE older' = older
  <2>1. req[r] \in Answered
    BY <1>1, <1>7, SlotByPc DEF FinishJob
  <2>2. /\ req[r].hash \in Hash /\ req[r].server \in Servers
        /\ req[r].answer.sn \in BOOLEAN
    BY <2>1 DEF Answered, Answer
  <2>3. CASE ~Success(req[r].answer)
    BY <1>7, <2>3 DEF FinishJob, Added
  <2>4. CASE Success(req[r].answer)
    <3> DEFINE h == req[r].hash
    <3>1. keyCache' = AddKeyToCache(keyCache, h, req[r].server, req[r].answer.sn)
      BY <1>7, <2>4 DEF FinishJob
    <3>2. IF h \notin Keys(keyCache) \/ NextToGo(h) THEN Use(h) ELSE older' = older
      BY <1>7, <2>4 DEF Added
    <3> QED  BY <2>2, <3>1, <3>2
  <2> QED  BY <2>3, <2>4
<1>8. ASSUME NEW h \in Hash, DataPacket(h), Asked(h)
      PROVE  Hit
  BY <1>8 DEF DataPacket, Asked
<1>9. Tick /\ UNCHANGED older => Kept
  BY DEF Tick
<1>10. Restart => keyCache' = <<>>
  BY DEF Restart
<1> QED  BY <1>3, <1>4, <1>5, <1>6, <1>7, <1>8, <1>9, <1>10 DEF RecencyNext

\* A key that has just been used is last, and the others are as they were.
LEMMA UsedKeyLast ==
  ASSUME NEW c \in Items(Hash, KeyInfo), NEW d \in Items(Hash, KeyInfo),
         IsDict(c), IsDict(d), NEW h \in Hash,
         Keys(d) \subseteq Keys(c) \cup {h}, Last(d).key = h,
         \A x \in Keys(d) \ {h}, y \in Keys(d) \ {h} : Before(c, x, y) => Before(d, x, y),
         \A x, y : Before(c, x, y) => <<x, y>> \in older, Use(h),
         NEW x, NEW y, Before(d, x, y)
  PROVE  <<x, y>> \in older'
<1>1. x \in Keys(d) /\ y \in Keys(d) /\ x # y /\ x # h
  BY BeforeProperties
<1>2. x \in Hash
  BY <1>1, ItemTypes
<1>3. CASE y = h
  BY <1>1, <1>2, <1>3 DEF Use
<1>4. CASE y # h
  <2>1. Before(c, x, y)
    BY <1>1, <1>4, OrderReflected
  <2>2. <<x, y>> \in older /\ h \notin {x, y}
    BY <1>1, <1>4, <2>1
  <2> QED  BY <2>2 DEF Use
<1> QED  BY <1>3, <1>4

\* After a use as before it, no two keys were each used after the other.
LEMMA UseIsLatest ==
  ASSUME NEW h \in Hash, Use(h), \A x, y : <<x, y>> \in older => <<y, x>> \notin older
  PROVE  \A x, y : <<x, y>> \in older' => <<y, x>> \notin older'
BY DEF Use

\* A hit keeps the cache in order of use.
LEMMA HitInUseOrder ==
  ASSUME CacheOK(keyCache), CacheInUseOrder, NEW h \in Keys(keyCache),
         keyCache' = MoveToEnd(keyCache, h), Use(h)
  PROVE  CacheInUseOrder'
<1> DEFINE d == MoveToEnd(keyCache, h)
<1>1. h \in Hash
  BY ItemTypes DEF CacheOK
<1>2. d \in Items(Hash, KeyInfo) /\ IsDict(d) /\ Keys(d) = Keys(keyCache)
  BY MoveToEndProperties DEF CacheOK
<1>3. /\ Last(d).key = h
      /\ \A x, y : x # h /\ Before(keyCache, x, y) => Before(d, x, y)
  BY MoveToEndOrder DEF CacheOK
<1> HIDE DEF d
<1>4. \A x, y : Before(d, x, y) => <<x, y>> \in older'
  BY <1>1, <1>2, <1>3, UsedKeyLast DEF CacheOK, CacheInUseOrder
<1>5. \A x, y : <<x, y>> \in older' => <<y, x>> \notin older'
  BY <1>1, UseIsLatest DEF CacheInUseOrder
<1> QED  BY <1>4, <1>5 DEF CacheInUseOrder, d

\* Making room takes the key whose use is longest ago; the key that is added keeps
\* its place, or goes last and counts as used.
LEMMA AddInUseOrder ==
  ASSUME CacheOK(keyCache), CacheInUseOrder, NEW h \in Hash, NEW s \in Servers,
         NEW sn \in BOOLEAN, keyCache' = AddKeyToCache(keyCache, h, s, sn),
         IF h \notin Keys(keyCache) \/ NextToGo(h) THEN Use(h) ELSE older' = older
  PROVE  /\ CacheInUseOrder'
         /\ \A x \in Keys(keyCache) \ Keys(keyCache') :
              \A y \in Keys(keyCache) \cap Keys(keyCache') : <<x, y>> \in older
<1> DEFINE c == keyCache
           info == [server |-> s, sn |-> sn]
           room == EvictWhileFull(c, MaxKeyCacheSize)
           d == Assign(room, h, info)
<1>1. c \in Items(Hash, KeyInfo) /\ IsDict(c) /\ Len(c) <= MaxKeyCacheSize
  BY DEF CacheOK
<1>2. info \in KeyInfo
  BY DEF KeyInfo
<1>3. room \in Items(Hash, KeyInfo) /\ IsDict(room) /\ Keys(room) \subseteq Keys(c)
  BY <1>1, CapacityAssumption, EvictProperties
<1>4. \A x, y : Before(c, x, y)
        => y \in Keys(room) /\ (x \in Keys(room) => Before(room, x, y))
  BY <1>1, CapacityAssumption, EvictOrder
<1>5. h \in Keys(c) \ Keys(room) => Len(c) >= MaxKeyCacheSize
  <2>1. Len(c) < MaxKeyCacheSize => room = c
    BY DEF EvictWhileFull
  <2> QED  BY <1>1, <2>1, CapacityAssumption, ItemTypes
<1>6. Len(c) >= MaxKeyCacheSize => \E k \in Keys(c) : k \notin Keys(room)
  <2>1. ASSUME Len(c) >= MaxKeyCacheSize
        PROVE  ~(Len(c) < MaxKeyCacheSize)
    BY <1>1, <2>1, CapacityAssumption, ItemTypes
  <2> QED  BY <1>1, <2>1, CapacityAssumption, EvictFirst
<1>7. keyCache' = d
  BY DEF AddKeyToCache
<1> HIDE DEF room, info, c
<1>8. /\ d \in Items(Hash, KeyInfo) /\ IsDict(d)
      /\ Keys(d) = Keys(room) \cup {h}
      /\ \A x, y : Before(room, x, y) => Before(d, x, y)
      /\ h \notin Keys(room) => Last(d).key = h
  BY <1>2, <1>3, AssignProperties, AssignOrder
<1> HIDE DEF d
<1>9. /\ \A x, y : Before(c, x, y) => <<x, y>> \in older
      /\ \A x, y : <<x, y>> \in older => <<y, x>> \notin older
  BY DEF CacheInUseOrder, c
<1>10. \A x \in Keys(c) \ Keys(room), y \in Keys(c) : x # y => Before(c, x, y)
  BY <1>1, <1>4, BeforeTotal
<1>11. ASSUME h \in Keys(room)
       PROVE  CacheInUseOrder'
  <2>1. older' = older
    <3>1. ASSUME NextToGo(h)
          PROVE  FALSE
      <4>1. PICK k \in Keys(c) : k \notin Keys(room)
        BY <1>6, <3>1 DEF NextToGo, c
      <4>2. <<k, h>> \in older /\ k # h
        BY <1>3, <1>9, <1>10, <1>11, <4>1
      <4>3. <<h, k>> \in older
        BY <3>1, <4>1, <4>2 DEF NextToGo, c
      <4> QED  BY <1>9, <4>2, <4>3
    <3>2. h \in Keys(keyCache)
      BY <1>3, <1>11 DEF c
    <3> QED  BY <3>1, <3>2
  <2>2. Keys(d) = Keys(room)
    BY <1>8, <1>11
  <2>3. ASSUME NEW x, NEW y, Before(d, x, y)
        PROVE  <<x, y>> \in older
    <3>1. x \in Keys(room) /\ y \in Keys(room)
      BY <1>8, <2>2, <2>3, BeforeProperties
    <3>2. Before(room, x, y)
      BY <1>3, <1>8, <2>3, <3>1, OrderReflected
    <3>3. Before(c, x, y)
      BY <1>1, <1>3, <1>4, <3>1, <3>2, OrderReflected
    <3> QED  BY <1>9, <3>3
  <2> QED  BY <1>7, <1>9, <2>1, <2>3 DEF CacheInUseOrder
<1>12. ASSUME h \notin Keys(room)
       PROVE  CacheInUseOrder'
  <2>1. Use(h)
    <3>1. CASE h \in Keys(c)
      <4>1. \A x \in Keys(c) \ {h} : <<h, x>> \in older
        BY <1>9, <1>10, <1>12, <3>1
      <4>2. NextToGo(h)
        BY <1>5, <1>12, <3>1, <4>1 DEF NextToGo, c
      <4> QED  BY <4>2
    <3>2. CASE h \notin Keys(c)
      BY <3>2 DEF c
    <3> QED  BY <3>1, <3>2
  <2>2. Keys(d) \subseteq Keys(c) \cup {h} /\ Last(d).key = h
    BY <1>3, <1>8, <1>12
  <2>3. \A x \in Keys(d) \ {h}, y \in Keys(d) \ {h} : Before(c, x, y) => Before(d, x, y)
    BY <1>4, <1>8
  <2>4. \A x, y : Before(d, x, y) => <<x, y>> \in older'
    BY <1>1, <1>8, <1>9, <2>1, <2>2, <2>3, UsedKeyLast
  <2>5. \A x, y : <<x, y>> \in older' => <<y, x>> \notin older'
    BY <1>9, <2>1, UseIsLatest
  <2> QED  BY <1>7, <2>4, <2>5 DEF CacheInUseOrder
<1>13. ASSUME NEW x \in Keys(c) \ Keys(d), NEW y \in Keys(c) \cap Keys(d)
       PROVE  <<x, y>> \in older
  <2>1. x \notin Keys(room) /\ x # y
    BY <1>8, <1>13
  <2> QED  BY <1>9, <1>10, <2>1
<1> QED  BY <1>7, <1>11, <1>12, <1>13 DEF c

\* The step of LeastRecentlyUsedGoes.
UnusedGoes ==
  \A x \in Keys(keyCache) \ Keys(keyCache') :
    \A y \in Keys(keyCache) \cap Keys(keyCache') : <<x, y>> \in older

\* Whatever a step does, it keeps the cache in order of use and drops its first keys.
LEMMA RecencyStep ==
  ASSUME IInv, CacheInUseOrder, RecencyNext
  PROVE  CacheInUseOrder' /\ UnusedGoes
<1>1. CacheOK(keyCache) /\ TypeOK
  BY IInvByTable DEF IInv
<1>2. CASE keyCache' = keyCache /\ older' = older
  BY <1>2 DEF CacheInUseOrder, UnusedGoes
<1>3. ASSUME NEW h \in Keys(keyCache), keyCache' = MoveToEnd(keyCache, h), Use(h)
      PROVE  CacheInUseOrder' /\ UnusedGoes
  <2>1. Keys(MoveToEnd(keyCache, h)) = Keys(keyCache)
    BY <1>1, MoveToEndProperties DEF CacheOK
  <2> QED  BY <1>1, <1>3, <2>1, HitInUseOrder DEF UnusedGoes
<1>4. ASSUME NEW h \in Hash, NEW s \in Servers, NEW sn \in BOOLEAN,
             keyCache' = AddKeyToCache(keyCache, h, s, sn),
             IF h \notin Keys(keyCache) \/ NextToGo(h) THEN Use(h) ELSE older' = older
      PROVE  CacheInUseOrder' /\ UnusedGoes
  BY <1>1, <1>4, AddInUseOrder DEF UnusedGoes
<1>5. CASE keyCache' = <<>> /\ older' = {}
  BY <1>5 DEF CacheInUseOrder, UnusedGoes, Before, Keys
<1> QED  BY <1>1, <1>2, <1>3, <1>4, <1>5, RecencyMoves

\* The record changes no step of the load balancer.
LEMMA RecencyIsBalancer ==
  [RecencyNext]_<<vars, older>> => [Next]_vars
BY DEF RecencyNext, Next, Submit, Unanswered, WorkerStep, vars

\* _key_cache is in order of use, hits of every kind included: a key that is dropped
\* was used before every key that stays, with any capacity, although keys are
\* added by jobs that end in any order, some of them again.
THEOREM CacheIsLru == RecencySpec => LeastRecentlyUsedGoes
<1>1. RecencyInit => CacheInUseOrder
  BY DEF RecencyInit, Init, CacheInUseOrder, Before
<1>2. IInv /\ CacheInUseOrder /\ [RecencyNext]_<<vars, older>>
        => CacheInUseOrder' /\ [UnusedGoes]_<<vars, older>>
  <2>1. ASSUME UNCHANGED <<vars, older>>, CacheInUseOrder
        PROVE  CacheInUseOrder'
    BY <2>1 DEF CacheInUseOrder, vars
  <2> QED  BY <2>1, RecencyStep
<1>3. RecencySpec => Spec
  <2>1. RecencyInit => Init
    BY DEF RecencyInit
  <2> QED  BY <2>1, RecencyIsBalancer, PTL DEF RecencySpec, Spec
<1>4. RecencySpec => [][UnusedGoes]_<<vars, older>>
  BY <1>1, <1>2, <1>3, Invariance, PTL DEF RecencySpec
<1> QED  BY <1>4 DEF LeastRecentlyUsedGoes, UnusedGoes

-----------------------------------------------------------------------------
(* The load balancer implements JobPool.                                   *)

PoolStage == [r \in Req |-> Stage(r)]

PoolPosting == {r \in Req : InPush(r)}

\* A step that touches one slot changes its stage and its posting only.
LEMMA OneSlot ==
  ASSUME NEW r \in Req, NEW x, req' = [req EXCEPT ![r] = x], TypeOK
  PROVE  /\ req'[r] = x
         /\ PoolStage' = [PoolStage EXCEPT ![r] = Stage(r)']
         /\ PoolPosting' = IF InPush(r)' THEN PoolPosting \cup {r}
                                         ELSE PoolPosting \ {r}
         /\ Stage(r)' = Stage(r) => PoolStage' = PoolStage
         /\ (InPush(r)' <=> InPush(r)) => PoolPosting' = PoolPosting
<1>1. req'[r] = x /\ \A q \in Req \ {r} : req'[q] = req[q]
  BY DEF TypeOK
<1>2. \A q \in Req \ {r} : Stage(q)' = Stage(q) /\ (InPush(q)' <=> InPush(q))
  BY <1>1 DEF Stage, InPush, InFlight
<1>3. PoolStage' = [PoolStage EXCEPT ![r] = Stage(r)']
  BY <1>2 DEF PoolStage
<1>4. PoolPosting' = IF InPush(r)' THEN PoolPosting \cup {r}
                                   ELSE PoolPosting \ {r}
  BY <1>2 DEF PoolPosting
<1>5. Stage(r)' = Stage(r) => PoolStage' = PoolStage
  BY <1>2 DEF PoolStage
<1>6. (InPush(r)' <=> InPush(r)) => PoolPosting' = PoolPosting
  BY <1>2 DEF PoolPosting
<1> QED  BY <1>1, <1>3, <1>4, <1>5, <1>6

\* The module instantiated has a Cardinality of its own.
LEMMA PoolCardinality == \A S : Pool!Cardinality(S) = Cardinality(S)
BY DEF Cardinality, Pool!Cardinality

LEMMA PoolWorkerFree ==
  ASSUME WorkerFree
  PROVE  Pool!WorkerFree
<1>1. {r \in Req : PoolStage[r] = "running"}
        = {r \in Req : req[r].pc \in {"running", "answered"}}
  BY DEF PoolStage, Stage
<1> QED  BY <1>1, PoolCardinality DEF WorkerFree, Pool!WorkerFree, PoolStage

LEMMA InitPool == Init => Pool!Init
BY DEF Init, Pool!Init, Stage, InPush, InFlight, Idle

-----------------------------------------------------------------------------
(* One lemma for each kind of step.                                        *)

\* A request that arrives or wakes up is turned away, goes to sleep or begins to
\* push.
LEMMA ArrivalPool ==
  ASSUME TypeOK, NEW r \in Req, req[r].pc \in {"idle", "nap", "retry"},
         NEW x, req' = [req EXCEPT ![r] = x],
         x.pc \in {"idle", "nap", "retry", "pushing"},
         x.pc = "pushing" => x.posting
  PROVE  Pool!Begin(r) \/ UNCHANGED Pool!vars
<1>1. req'[r] = x
  BY OneSlot
<1>2. Stage(r) = "none" /\ ~InPush(r)
  BY DEF Stage, InPush, InFlight
<1>3. CASE x.pc = "pushing"
  <2>1. Stage(r)' = "pushing" /\ InPush(r)'
    BY <1>1, <1>3 DEF Stage, InPush
  <2> QED  BY <1>2, <2>1, OneSlot DEF Pool!Begin, PoolStage, PoolPosting
<1>4. CASE x.pc # "pushing"
  <2>1. Stage(r)' = "none" /\ ~InPush(r)'
    BY <1>1, <1>4 DEF Stage, InPush, InFlight
  <2>2. PoolStage' = PoolStage
    BY <1>2, <2>1, OneSlot DEF PoolStage
  <2>3. PoolPosting' = PoolPosting
    BY <1>2, <2>1, OneSlot DEF PoolPosting
  <2> QED  BY <2>2, <2>3 DEF Pool!vars, PoolStage, PoolPosting
<1> QED  BY <1>3, <1>4

LEMMA HandleKeyPacketPool ==
  ASSUME TypeOK, NEW r \in Req, NEW h, NEW attempt,
         req[r].pc \in {"idle", "nap", "retry"},
         \/ HandleKeyPacket(r, h, attempt)
         \/ NapKeyExists(r, h) \/ NapDispatch(r, h) \/ NapInVain(r, h)
  PROVE  Pool!Begin(r) \/ UNCHANGED Pool!vars
<1>1. PICK x : /\ req' = [req EXCEPT ![r] = x]
               /\ x.pc \in {"idle", "nap", "retry", "pushing"}
               /\ x.pc = "pushing" => x.posting
  <2>1. CASE KeyExists(r, h) \/ KeyGenBusy(r, h) \/ NapKeyExists(r, h)
    BY <2>1, Idle.pc = "idle" DEF KeyExists, KeyGenBusy, NapKeyExists, Idle
  <2>2. CASE DispatchNewKey(r, h) \/ NapDispatch(r, h)
    BY <2>2 DEF DispatchNewKey, NapDispatch, Dispatch
  <2>3. CASE NapForServer(r, h, attempt)
    <3> DEFINE x == [pc |-> "nap", hash |-> h, attempt |-> attempt, due |-> FALSE]
    <3>1. req' = [req EXCEPT ![r] = x]
      BY <2>3 DEF NapForServer
    <3>2. x.pc = "nap"
      OBVIOUS
    <3> QED  BY <3>1, <3>2
  <2>4. CASE NapInVain(r, h)
    <3> DEFINE x == IF AttemptLeft(req[r].attempt)
                      THEN [pc |-> "retry", hash |-> h,
                            attempt |-> req[r].attempt, due |-> FALSE]
                      ELSE Idle
    <3>1. req' = [req EXCEPT ![r] = x]
      BY <2>4 DEF NapInVain
    <3>2. x.pc \in {"idle", "retry"}
      BY DEF Idle
    <3> QED  BY <3>1, <3>2
  <2> QED  BY <2>1, <2>2, <2>3, <2>4 DEF HandleKeyPacket
<1> QED  BY <1>1, ArrivalPool

\* push_task_to_queue: ZADD, its failure, and the end of the call.
LEMMA PushPool ==
  ASSUME TypeOK, NEW r \in Req, PushStep(r)
  PROVE  Pool!Drop(r) \/ Pool!Enqueue(r) \/ Pool!Leave(r)
<1>0. /\ req \in [Req -> RequestState]
      /\ req[r].pc \in {"pushing", "queued", "running"} => req[r] \in Placed
      /\ req[r].pc = "answered" => req[r] \in Answered
  BY SlotByPc DEF TypeOK
<1>1. CASE Enqueue(r)
  <2>1. /\ req[r].pc = "pushing" /\ req[r] \in Placed
        /\ req' = [req EXCEPT ![r] = [req[r] EXCEPT !.pc = "queued"]]
    BY <1>0, <1>1 DEF Enqueue
  <2>2. req'[r].pc = "queued" /\ req'[r].posting = req[r].posting
    BY <1>0, <2>1 DEF Placed
  <2>3. Stage(r) = "pushing" /\ Stage(r)' = "queued" /\ (InPush(r)' <=> InPush(r))
    BY <2>1, <2>2 DEF Stage, InPush, InFlight
  <2>4. PoolPosting' = PoolPosting
    BY <2>1, <2>3, OneSlot
  <2> QED  BY <2>1, <2>3, <2>4, OneSlot DEF Pool!Enqueue, PoolStage, PoolPosting
<1>2. CASE EnqueueFails(r)
  <2>1. /\ req[r].pc = "pushing"
        /\ req' = [req EXCEPT ![r] = Idle]
    BY <1>2 DEF EnqueueFails
  <2>2. req'[r].pc = "idle"
    <3>1. req'[r] = Idle
      BY <1>0, <2>1
    <3> QED  BY <3>1 DEF Idle
  <2>3. Stage(r) = "pushing" /\ Stage(r)' = "none" /\ ~InPush(r)'
    BY <2>1, <2>2 DEF Stage, InPush, InFlight
  <2> QED  BY <2>1, <2>3, OneSlot DEF Pool!Drop, PoolStage, PoolPosting
<1>3. CASE EndPosting(r)
  <2>1. CASE req[r].pc = "posting" /\ req' = [req EXCEPT ![r] = Idle]
    <3>1. req'[r] = Idle
      BY <1>0, <2>1
    <3>2. req'[r].pc = "idle"
      BY <3>1 DEF Idle
    <3>3. Stage(r) = "none" /\ Stage(r)' = "none" /\ InPush(r) /\ ~InPush(r)'
      BY <2>1, <3>2 DEF Stage, InPush, InFlight
    <3>4. PoolStage' = PoolStage /\ PoolPosting' = PoolPosting \ {r}
      BY <2>1, <3>3, OneSlot
    <3> QED  BY <3>3, <3>4 DEF Pool!Leave, PoolStage, PoolPosting
  <2>2. CASE /\ InFlight(r) /\ req[r].posting
             /\ req' = [req EXCEPT ![r].posting = FALSE]
    <3>1. /\ req[r] \in Placed \/ req[r] \in Answered
          /\ req' = [req EXCEPT ![r] = [req[r] EXCEPT !.posting = FALSE]]
      BY <1>0, <2>2 DEF InFlight
    <3>2. req'[r].pc = req[r].pc /\ req'[r].posting = FALSE
      BY <1>0, <3>1 DEF Placed, Answered
    <3>3. /\ Stage(r) # "pushing" /\ Stage(r)' = Stage(r)
          /\ InPush(r) /\ ~InPush(r)'
      BY <2>2, <3>2 DEF Stage, InPush, InFlight
    <3>4. PoolStage' = PoolStage /\ PoolPosting' = PoolPosting \ {r}
      BY <3>1, <3>3, OneSlot
    <3> QED  BY <3>3, <3>4 DEF Pool!Leave, PoolStage, PoolPosting
  <2> QED  BY <1>3, <2>1, <2>2 DEF EndPosting
<1> QED  BY <1>1, <1>2, <1>3 DEF PushStep, Posted, PostFails

\* The slot of a job that is over.
LEMMA OverPool ==
  ASSUME NEW job, job.posting \in BOOLEAN
  PROVE  /\ Over(job).pc = IF job.posting THEN "posting" ELSE "idle"
BY DEF Over, Idle

\* worker_loop and process_job: the job is taken, answered or over.
LEMMA WorkerPool ==
  ASSUME TypeOK, NEW r \in Req, WorkerStep(r)
  PROVE  Pool!Take(r) \/ Pool!End(r) \/ UNCHANGED Pool!vars
<1>0. /\ req \in [Req -> RequestState]
      /\ req[r].pc \in {"pushing", "queued", "running"} => req[r] \in Placed
      /\ req[r].pc = "answered" => req[r] \in Answered
  BY SlotByPc DEF TypeOK
<1>1. CASE Take(r)
  <2>1. /\ req[r].pc = "queued" /\ req[r] \in Placed
        /\ req' = [req EXCEPT ![r] = [req[r] EXCEPT !.pc = "running"]]
    BY <1>0, <1>1 DEF Take
  <2>2. req'[r].pc = "running" /\ req'[r].posting = req[r].posting
    BY <1>0, <2>1 DEF Placed
  <2>3. Stage(r) = "queued" /\ Stage(r)' = "running" /\ (InPush(r)' <=> InPush(r))
    BY <2>1, <2>2 DEF Stage, InPush, InFlight
  <2>4. PoolPosting' = PoolPosting
    BY <2>1, <2>3, OneSlot
  <2>5. Pool!WorkerFree
    BY <1>1, PoolWorkerFree DEF Take
  <2> QED  BY <2>1, <2>3, <2>4, <2>5, OneSlot DEF Pool!Take, PoolStage, PoolPosting
<1>2. CASE \E a \in Answer : ServerAnswer(r, a)
  <2>1. PICK a \in Answer : ServerAnswer(r, a)
    BY <1>2
  <2> DEFINE x == [pc |-> "answered", hash |-> req[r].hash, server |-> req[r].server,
                   posting |-> req[r].posting, answer |-> a]
  <2>2. req[r].pc = "running" /\ req' = [req EXCEPT ![r] = x]
    BY <2>1 DEF ServerAnswer
  <2>3. x.pc = "answered" /\ x.posting = req[r].posting
    OBVIOUS
  <2> HIDE DEF x
  <2>4. Stage(r) = "running" /\ Stage(r)' = "running" /\ (InPush(r)' <=> InPush(r))
    BY <2>2, <2>3, OneSlot DEF Stage, InPush, InFlight
  <2>5. PoolStage' = PoolStage
    BY <2>2, <2>4, OneSlot
  <2>6. PoolPosting' = PoolPosting
    BY <2>2, <2>4, OneSlot
  <2> QED  BY <2>5, <2>6 DEF Pool!vars, PoolStage, PoolPosting
<1>3. CASE JobLost(r) \/ FinishJob(r) \/ JobFails(r)
  <2>1. /\ req[r].pc \in {"queued", "running", "answered"}
        /\ req[r].pc = "queued" => WorkerFree
        /\ req' = [req EXCEPT ![r] = Over(req[r])]
    BY <1>3 DEF JobLost, FinishJob, JobFails
  <2>2. req[r].posting \in BOOLEAN
    BY <1>0, <2>1 DEF Placed, Answered
  <2>3. req'[r].pc = IF req[r].posting THEN "posting" ELSE "idle"
    <3>1. req'[r] = Over(req[r])
      BY <1>0, <2>1
    <3> QED  BY <2>2, <3>1, OverPool
  <2>4. /\ Stage(r) \in {"queued", "running"} /\ Stage(r)' = "none"
        /\ Stage(r) = "queued" => Pool!WorkerFree
        /\ InPush(r)' <=> InPush(r)
    BY <2>1, <2>2, <2>3, PoolWorkerFree DEF Stage, InPush, InFlight
  <2>5. PoolPosting' = PoolPosting
    BY <2>1, <2>4, OneSlot
  <2> QED  BY <2>1, <2>4, <2>5, OneSlot
              DEF Pool!Take, Pool!End, PoolStage, PoolPosting
<1> QED  BY <1>1, <1>2, <1>3 DEF WorkerStep

\* A restart leaves the queued jobs.
LEMMA RestartPool ==
  ASSUME TypeOK, Restart
  PROVE  Pool!Crash
<1>1. \A r \in Req :
        /\ Stage(r)' = IF Stage(r) = "queued" THEN "queued" ELSE "none"
        /\ ~InPush(r)'
  <2> SUFFICES ASSUME NEW r \in Req
               PROVE  /\ Stage(r)' = IF Stage(r) = "queued" THEN "queued" ELSE "none"
                      /\ ~InPush(r)'
    OBVIOUS
  <2>1. CASE req[r].pc = "queued"
    <3>1. req[r] \in Placed
      BY <2>1, SlotByPc DEF TypeOK
    <3>2. req'[r].pc = "queued" /\ req'[r].posting = FALSE
      BY <2>1, <3>1 DEF Restart, Placed
    <3> QED  BY <2>1, <3>2 DEF Stage, InPush, InFlight
  <2>2. CASE req[r].pc # "queued"
    <3>1. req'[r] = Idle
      BY <2>2 DEF Restart
    <3>2. Stage(r) # "queued"
      BY <2>2 DEF Stage
    <3> QED  BY <3>1, <3>2 DEF Stage, InPush, InFlight, Idle
  <2> QED  BY <2>1, <2>2
<1> QED  BY <1>1 DEF Pool!Crash

\* Time passing changes neither pc nor posting.
LEMMA TickPool ==
  ASSUME TypeOK, Tick
  PROVE  UNCHANGED Pool!vars
<1>1. \A r \in Req : Stage(r)' = Stage(r) /\ (InPush(r)' <=> InPush(r))
  <2> SUFFICES ASSUME NEW r \in Req
               PROVE  Stage(r)' = Stage(r) /\ (InPush(r)' <=> InPush(r))
    OBVIOUS
  <2>1. CASE req[r].pc \in {"nap", "retry"}
    <3>1. req[r] \in Sleeping
      BY <2>1, SlotByPc DEF TypeOK
    <3>2. req'[r].pc = req[r].pc
      BY <2>1, <3>1 DEF Tick, Sleeping
    <3> QED  BY <2>1, <3>2 DEF Stage, InPush, InFlight
  <2>2. CASE req[r].pc \notin {"nap", "retry"}
    BY <2>2 DEF Tick, Stage, InPush, InFlight
  <2> QED  BY <2>1, <2>2
<1> QED  BY <1>1 DEF Pool!vars

-----------------------------------------------------------------------------

LEMMA NextPool == IInv /\ [Next]_vars => [Pool!Next]_(Pool!vars)
<1> SUFFICES ASSUME IInv, [Next]_vars
             PROVE  Pool!Next \/ UNCHANGED Pool!vars
  OBVIOUS
<1>0. TypeOK
  BY DEF IInv
<1>1. CASE UNCHANGED vars \/ \E h \in Hash : DataPacket(h)
  <2>1. req' = req
    BY <1>1 DEF vars, DataPacket
  <2> QED  BY <2>1 DEF Pool!vars, Stage, InPush, InFlight
<1>2. CASE Tick
  BY <1>0, <1>2, TickPool
<1>3. CASE Restart
  BY <1>0, <1>3, RestartPool DEF Pool!Next
<1>4. ASSUME NEW r \in Req, Submit(r) \/ NapOver(r) \/ RetryOver(r)
      PROVE  Pool!Next \/ UNCHANGED Pool!vars
  <2>1. Pool!Begin(r) \/ UNCHANGED Pool!vars
    BY <1>0, <1>4, HandleKeyPacketPool DEF Submit, KeyPacket, NapOver, RetryOver
  <2> QED  BY <2>1 DEF Pool!Next
<1>5. ASSUME NEW r \in Req, PushStep(r) \/ WorkerStep(r)
      PROVE  Pool!Next \/ UNCHANGED Pool!vars
  BY <1>0, <1>5, PushPool, WorkerPool DEF Pool!Next
<1> QED  BY <1>1, <1>2, <1>3, <1>4, <1>5 DEF Next

\* Whatever happens to its tables, the load balancer uses jobs as JobPool says.
THEOREM LoadBalancerImplementsJobPool == Spec => ImplementsJobPool
BY InitPool, NextPool, Invariance, PTL DEF Spec, ImplementsJobPool, Pool!Spec

=============================================================================
