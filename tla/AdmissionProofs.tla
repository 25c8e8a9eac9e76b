--------------------------- MODULE AdmissionProofs --------------------------
(***************************************************************************)
(* What Admission keeps, for every number of requests and tokens, all times *)
(* of expiry and every delay of an answer.                                  *)
(***************************************************************************)
EXTENDS Admission, FiniteSetTheorems, TLAPS

Stage == {Idle} \cup Authenticating \cup Charging

\* The request whose transaction is open has the lock, and the row is still as the
\* UPDATE found it.
LockFits ==
  /\ \A r \in Req : At(r, "commit") <=> lock = r
  /\ \A r \in Req : (lock = r /\ req[r].matched) => Chargeable

\* Stages of a request that has been authenticated.
Authenticated == {"quota", "charge", "commit", "select", "admitted"}

ActiveFits == \A r \in Req : req[r].pc \in Authenticated => r \in active

\* The time a token, or the answer about it, has left and its age add up.
TokensFit ==
  /\ \A k \in Token : ttl[k] > 0 => ttl[k] + age[k] <= TokenExpire
  /\ \A k \in Token : cached[k] > 0 => cached[k] + age[k] < MaxAge
  /\ \A r \in Req : (At(r, "answer") /\ req[r].found)
                      => age[req[r].token] < TokenExpire + req[r].delay

IInv == TypeOK /\ LockFits /\ ChargesAccountedFor /\ ActiveFits /\ TokensFit

-----------------------------------------------------------------------------
(* Stages.                                                                 *)

\* What a request holds at each stage.
LEMMA Shapes ==
  ASSUME NEW x \in Stage
  PROVE  /\ x.pc \in {"token", "answer", "user"} => x.token \in Token
         /\ x.pc = "answer" => x.found \in BOOLEAN /\ x.delay \in 0 .. ReplyDelay
         /\ x.pc \in Authenticated => x.packet \in Useful
         /\ x.pc = "quota" => x.total \in Totals /\ x.used \in Nat
         /\ x.pc = "commit" => x.matched \in BOOLEAN
         /\ x \in Authenticating => x.pc \in {"token", "answer", "user", "password"}
  <1>1. CASE x = Idle
    BY <1>1 DEF Idle, Authenticated, Authenticating
  <1>2. CASE x \in Authenticating
    BY <1>2 DEF Authenticating, Authenticated
  <1>3. CASE x \in Charging
    BY <1>3 DEF Charging, Authenticating, Authenticated
  <1> QED
    BY <1>1, <1>2, <1>3 DEF Stage

\* The stages that the actions go to are stages.
LEMMA Stages ==
  /\ Idle \in Stage /\ Idle.pc = "idle"
  /\ \A k \in Token, f \in BOOLEAN, d \in 0 .. ReplyDelay :
       /\ [pc |-> "token", token |-> k] \in Stage
       /\ [pc |-> "user", token |-> k] \in Stage
       /\ [pc |-> "answer", token |-> k, found |-> f, delay |-> d] \in Stage
  /\ \A c \in BOOLEAN : [pc |-> "password", correct |-> c] \in Stage
  /\ \A p \in Useful, n \in Totals, u \in Nat, m \in BOOLEAN :
       /\ [pc |-> "quota", packet |-> p, total |-> n, used |-> u] \in Stage
       /\ [pc |-> "commit", packet |-> p, matched |-> m] \in Stage
       /\ [pc |-> "charge", packet |-> p] \in Stage
       /\ [pc |-> "select", packet |-> p] \in Stage
       /\ [pc |-> "admitted", packet |-> p] \in Stage
  <1>1. Idle \in Stage /\ Idle.pc = "idle"
    BY DEF Stage, Idle
  <1>2. ASSUME NEW k \in Token, NEW f \in BOOLEAN, NEW d \in 0 .. ReplyDelay
        PROVE  /\ [pc |-> "token", token |-> k] \in Authenticating
               /\ [pc |-> "user", token |-> k] \in Authenticating
               /\ [pc |-> "answer", token |-> k, found |-> f, delay |-> d]
                    \in Authenticating
    BY DEF Authenticating
  <1>3. \A c \in BOOLEAN : [pc |-> "password", correct |-> c] \in Authenticating
    BY DEF Authenticating
  <1>4. ASSUME NEW p \in Useful, NEW n \in Totals, NEW u \in Nat, NEW m \in BOOLEAN
        PROVE  /\ [pc |-> "quota", packet |-> p, total |-> n, used |-> u] \in Charging
               /\ [pc |-> "commit", packet |-> p, matched |-> m] \in Charging
               /\ [pc |-> "charge", packet |-> p] \in Charging
               /\ [pc |-> "select", packet |-> p] \in Charging
               /\ [pc |-> "admitted", packet |-> p] \in Charging
    BY DEF Charging
  <1> QED
    BY <1>1, <1>2, <1>3, <1>4 DEF Stage

\* A step of one request.
LEMMA OneSlot ==
  ASSUME req \in [Req -> Stage], NEW r \in Req, NEW x \in Stage, Goto(r, x)
  PROVE  /\ req' \in [Req -> Stage]
         /\ req'[r] = x
         /\ \A s \in Req \ {r} : req'[s] = req[s]
         /\ Pending' = IF x.pc = "select" THEN Pending \cup {r} ELSE Pending \ {r}
  <1>1. /\ req' \in [Req -> Stage]
        /\ req'[r] = x
        /\ \A s \in Req \ {r} : req'[s] = req[s]
    BY DEF Goto
  <1>2. Pending' = IF x.pc = "select" THEN Pending \cup {r} ELSE Pending \ {r}
    BY <1>1 DEF Pending, At
  <1> QED
    BY <1>1, <1>2

\* How many charges are pending.
LEMMA PendingCount ==
  /\ IsFiniteSet(Pending)
  /\ Cardinality(Pending) \in Nat
  /\ \A r \in Req \ Pending :
       Cardinality(Pending \cup {r}) = Cardinality(Pending) + 1
  /\ \A r \in Pending : Cardinality(Pending \ {r}) = Cardinality(Pending) - 1
  <1>1. IsFiniteSet(Pending)
    BY NameAssumption, FS_Subset DEF Pending
  <1> QED
    BY <1>1, FS_CardinalityType, FS_AddElement, FS_RemoveElement DEF Pending

-----------------------------------------------------------------------------
(* Where a step takes a request.                                           *)

\* Steps in which nothing is charged.
Unpaid(r) ==
  \/ \E k \in Token : BeginWithToken(r, k)
  \/ BeginWithPassword(r)
  \/ GetToken(r) \/ TokenAnswer(r) \/ ReadUser(r) \/ ReadFails(r)
  \/ ReadQuota(r)
  \/ Leave(r)

\* Steps of _charge_user.
Paying(r) ==
  \/ Update(r) \/ Commit(r) \/ SelectUsed(r)
  \/ CommitAnswerLost(r) \/ ChargeFails(r) \/ SelectFails(r)

\* Where an unpaid step may take request r: it is authenticated only while the
\* account is active.
UnpaidMove(r) ==
  /\ req' \in [Req -> Stage]
  /\ \A s \in Req \ {r} : req'[s] = req[s]
  /\ req'[r].pc \notin {"commit", "select"}
  /\ req'[r].pc \in Authenticated
       => req[r].pc \in Authenticated \/ account.status = "active"

LEMMA MoveTo ==
  ASSUME req \in [Req -> Stage], NEW r \in Req, NEW x \in Stage, Goto(r, x),
         x.pc \notin {"commit", "select"},
         x.pc \in Authenticated
           => req[r].pc \in Authenticated \/ account.status = "active"
  PROVE  UnpaidMove(r)
  BY OneSlot DEF UnpaidMove

LEMMA UnpaidMoves ==
  ASSUME req \in [Req -> Stage], account \in Account, NEW r \in Req, Unpaid(r)
  PROVE  UnpaidMove(r)
  <1>1. req[r] \in Stage
    OBVIOUS
  <1>2. ASSUME Goto(r, Idle)
        PROVE  UnpaidMove(r)
    BY <1>2, Stages, MoveTo DEF Authenticated
  <1>3. ASSUME NEW k \in Token, BeginWithToken(r, k)
        PROVE  UnpaidMove(r)
    <2> DEFINE x == [pc |-> IF cached[k] > 0 THEN "user" ELSE "token", token |-> k]
    <2>1. x \in Stage
      <3>1. 0 \in 0 .. ReplyDelay
        BY TimeAssumption
      <3>2. /\ [pc |-> "token", token |-> k] \in Stage
            /\ [pc |-> "user", token |-> k] \in Stage
        BY <3>1, Stages
      <3> QED
        BY <3>2
    <2>2. x.pc \in {"user", "token"}
      OBVIOUS
    <2>3. Goto(r, x)
      BY <1>3 DEF BeginWithToken
    <2> HIDE DEF x
    <2> QED
      BY <2>1, <2>2, <2>3, MoveTo DEF Authenticated
  <1>4. CASE BeginWithPassword(r)
    <2>1. PICK c \in BOOLEAN : Goto(r, [pc |-> "password", correct |-> c])
      BY <1>4 DEF BeginWithPassword
    <2> DEFINE x == [pc |-> "password", correct |-> c]
    <2>2. x \in Stage /\ x.pc = "password" /\ Goto(r, x)
      BY <2>1, Stages
    <2> HIDE DEF x
    <2> QED
      BY <2>2, MoveTo DEF Authenticated
  <1>5. CASE GetToken(r)
    <2> DEFINE k == req[r].token
               f == ttl[k] > 0
               x == [pc |-> "answer", token |-> k, found |-> f, delay |-> 0]
    <2>1. k \in Token /\ f \in BOOLEAN /\ 0 \in 0 .. ReplyDelay
      BY <1>1, <1>5, Shapes, TimeAssumption DEF GetToken, At
    <2>2. Goto(r, x)
      BY <1>5 DEF GetToken
    <2>3. x.pc = "answer"
      OBVIOUS
    <2> HIDE DEF k, f
    <2>4. x \in Stage
      BY <2>1, Stages
    <2> HIDE DEF x
    <2> QED
      BY <2>2, <2>3, <2>4, MoveTo DEF Authenticated
  <1>6. CASE TokenAnswer(r)
    <2>1. CASE req[r].found
      <3> DEFINE k == req[r].token
                 x == [pc |-> "user", token |-> k]
      <3>1. k \in Token /\ 0 \in 0 .. ReplyDelay
        BY <1>1, <1>6, Shapes, TimeAssumption DEF TokenAnswer, At
      <3>2. Goto(r, x)
        BY <1>6, <2>1 DEF TokenAnswer
      <3> HIDE DEF k
      <3>3. x \in Stage /\ x.pc = "user"
        BY <3>1, Stages
      <3> HIDE DEF x
      <3> QED
        BY <3>2, <3>3, MoveTo DEF Authenticated
    <2>2. CASE ~req[r].found
      BY <1>2, <1>6, <2>2 DEF TokenAnswer
    <2> QED
      BY <2>1, <2>2
  <1>7. CASE ReadUser(r)
    <2>1. CASE Goto(r, Idle)
      BY <1>2, <2>1
    <2>2. CASE ~Goto(r, Idle)
      <3>1. account.status = "active"
        BY <1>7, <2>2 DEF ReadUser
      <3>2. PICK p \in Input :
              Goto(r, IF p \in Useful
                        THEN [pc |-> "quota", packet |-> p,
                              total |-> account.total, used |-> account.used]
                        ELSE Idle)
        BY <1>7, <2>2 DEF ReadUser
      <3> DEFINE n == account.total
                 u == account.used
                 x == [pc |-> "quota", packet |-> p, total |-> n, used |-> u]
      <3>3. p \in Useful
        BY <2>2, <3>2
      <3>4. Goto(r, x)
        BY <3>2, <3>3
      <3>5. n \in Totals /\ u \in Nat
        BY DEF Account
      <3> HIDE DEF n, u
      <3>6. x \in Stage /\ x.pc = "quota"
        BY <3>3, <3>5, Stages
      <3> HIDE DEF x
      <3> QED
        BY <3>1, <3>4, <3>6, MoveTo
    <2> QED
      BY <2>1, <2>2
  <1>8. CASE ReadFails(r) \/ Leave(r)
    BY <1>2, <1>8 DEF ReadFails, Leave
  <1>9. CASE ReadQuota(r)
    <2> DEFINE p == req[r].packet
    <2>1. p \in Useful /\ req[r].pc \in Authenticated
      BY <1>1, <1>9, Shapes DEF ReadQuota, At, Authenticated
    <2>2. \/ Goto(r, Idle)
          \/ Goto(r, [pc |-> "admitted", packet |-> p])
          \/ Goto(r, [pc |-> "charge", packet |-> p])
      <3> DEFINE u == IF account.status = "deleted" THEN req[r] ELSE account
      <3>1. Goto(r, IF u.total \in {Unlimited, NoTotal} THEN With(r, "admitted")
                    ELSE IF u.used >= u.total THEN Idle
                    ELSE With(r, "charge"))
        BY <1>9 DEF ReadQuota
      <3> HIDE DEF u
      <3> QED
        BY <3>1 DEF With
    <2> HIDE DEF p
    <2>3. ASSUME NEW pc \in {"admitted", "charge"}, Goto(r, [pc |-> pc, packet |-> p])
          PROVE  UnpaidMove(r)
      <3> DEFINE x == [pc |-> pc, packet |-> p]
      <3>1. x \in Charging
        BY <2>1 DEF Charging
      <3>2. x \in Stage /\ x.pc = pc /\ Goto(r, x)
        BY <2>3, <3>1 DEF Stage
      <3> HIDE DEF x
      <3> QED
        BY <2>1, <3>2, MoveTo
    <2> QED
      BY <1>2, <2>2, <2>3
  <1> QED
    BY <1>3, <1>4, <1>5, <1>6, <1>7, <1>8, <1>9 DEF Unpaid

\* They charge nothing, and the request does not hold the lock.
LEMMA UnpaidCharges ==
  ASSUME req \in [Req -> Stage], NEW r \in Req, Unpaid(r)
  PROVE  NothingCharged /\ req[r].pc \notin {"commit", "select"}
  <1>1. NothingCharged
    BY DEF Unpaid, BeginWithToken, BeginWithPassword, GetToken, TokenAnswer, ReadUser,
           ReadFails, ReadQuota, Leave
  <1>2. CASE ReadFails(r)
    <2>1. req[r] \in Authenticating \/ req[r].pc = "quota"
      BY <1>2 DEF ReadFails, At
    <2>2. req[r] \in Authenticating
            => req[r].pc \in {"token", "answer", "user", "password"}
      BY Shapes
    <2> QED
      BY <1>1, <2>1, <2>2
  <1>3. CASE ~ReadFails(r)
    BY <1>1, <1>3 DEF Unpaid, BeginWithToken, BeginWithPassword, GetToken, TokenAnswer,
                      ReadUser, ReadQuota, Leave, At
  <1> QED
    BY <1>2, <1>3

\* Where a step of _charge_user takes request r.
PayingMove(r) ==
  /\ req' \in [Req -> Stage]
  /\ \A s \in Req \ {r} : req'[s] = req[s]
  /\ req[r].pc \in {"charge", "commit", "select"}
  /\ req'[r].pc \in {"idle", "commit", "select", "admitted"}

LEMMA PayingMoves ==
  ASSUME req \in [Req -> Stage], NEW r \in Req, Paying(r)
  PROVE  PayingMove(r) /\ UNCHANGED tokens
  <1>1. req[r].pc \in {"charge", "commit", "select"} /\ UNCHANGED tokens
    BY DEF Paying, Update, Commit, SelectUsed, CommitAnswerLost, ChargeFails,
           SelectFails, At
  <1> DEFINE p == req[r].packet
  <1>2. p \in Useful
    BY <1>1, Shapes DEF Authenticated
  <1>3. \/ Goto(r, Idle)
        \/ \E m \in BOOLEAN : Goto(r, [pc |-> "commit", packet |-> p, matched |-> m])
        \/ Goto(r, [pc |-> "select", packet |-> p])
        \/ Goto(r, [pc |-> "admitted", packet |-> p])
    <2>1. CASE Update(r)
      <3>1. Chargeable \in BOOLEAN
        BY DEF Chargeable
      <3> QED
        BY <2>1, <3>1 DEF Update
    <2>2. CASE Commit(r)
      BY <2>2 DEF Commit, With
    <2>3. CASE SelectUsed(r)
      BY <2>3 DEF SelectUsed, With
    <2>4. CASE CommitAnswerLost(r) \/ ChargeFails(r) \/ SelectFails(r)
      BY <2>4 DEF CommitAnswerLost, ChargeFails, SelectFails
    <2> QED
      BY <2>1, <2>2, <2>3, <2>4 DEF Paying
  <1> HIDE DEF p
  <1>4. ASSUME NEW x \in Stage, Goto(r, x),
               x.pc \in {"idle", "commit", "select", "admitted"}
        PROVE  PayingMove(r)
    BY <1>1, <1>4, OneSlot DEF PayingMove
  <1>5. ASSUME NEW m \in BOOLEAN, Goto(r, [pc |-> "commit", packet |-> p, matched |-> m])
        PROVE  PayingMove(r)
    <2> DEFINE x == [pc |-> "commit", packet |-> p, matched |-> m]
    <2>1. x \in Charging
      BY <1>2 DEF Charging
    <2>2. x \in Stage /\ x.pc = "commit" /\ Goto(r, x)
      BY <1>5, <2>1 DEF Stage
    <2> HIDE DEF x
    <2> QED
      BY <1>4, <2>2
  <1>6. ASSUME NEW pc \in {"select", "admitted"}, Goto(r, [pc |-> pc, packet |-> p])
        PROVE  PayingMove(r)
    <2> DEFINE x == [pc |-> pc, packet |-> p]
    <2>1. x \in Charging
      BY <1>2 DEF Charging
    <2>2. x \in Stage /\ x.pc = pc /\ Goto(r, x)
      BY <1>6, <2>1 DEF Stage
    <2> HIDE DEF x
    <2> QED
      BY <1>4, <2>2
  <1> QED
    BY <1>1, <1>3, <1>4, <1>5, <1>6, Stages

\* A unit of time only makes answers later.
LEMMA TickMoves ==
  ASSUME req \in [Req -> Stage], Tick
  PROVE  /\ req' \in [Req -> Stage]
         /\ \A r \in Req : req'[r].pc = req[r].pc
         /\ \A r \in Req : ~At(r, "answer") => req'[r] = req[r]
         /\ \A r \in Req : At(r, "answer") =>
              /\ req'[r].token = req[r].token
              /\ req'[r].found = req[r].found
              /\ req'[r].delay = req[r].delay + 1
  <1>1. \A r \in Req :
          req'[r] = IF At(r, "answer") THEN [req[r] EXCEPT !.delay = @ + 1] ELSE req[r]
    BY DEF Tick
  <1>2. ASSUME NEW r \in Req, At(r, "answer")
        PROVE  /\ req'[r] \in Stage
               /\ req'[r].pc = req[r].pc
               /\ req'[r].token = req[r].token
               /\ req'[r].found = req[r].found
               /\ req'[r].delay = req[r].delay + 1
    <2> DEFINE Answers == [pc : {"answer"}, token : Token, found : BOOLEAN,
                           delay : 0 .. ReplyDelay]
    <2>1. req[r] \in Answers
      BY <1>2 DEF At, Stage, Idle, Authenticating, Charging
    <2>2. req[r].delay + 1 \in 0 .. ReplyDelay
      BY <1>2, <2>1, TimeAssumption DEF Tick
    <2>3. [req[r] EXCEPT !.delay = @ + 1] \in Answers
      BY <2>1, <2>2
    <2>4. req'[r] \in Stage
      BY <1>1, <1>2, <2>3 DEF Stage, Authenticating
    <2> QED
      BY <1>1, <1>2, <2>1, <2>4
  <1>3. req' \in [Req -> Stage]
    <2>1. \A r \in Req : req'[r] \in Stage
      BY <1>1, <1>2
    <2> QED
      BY <2>1 DEF Tick
  <1> QED
    BY <1>1, <1>2, <1>3

\* Steps of no request.
Quiet ==
  \/ \E k \in Token : Login(k) \/ StoreToken(k) \/ StoreFails(k)
  \/ Tick

\* They change neither the row nor where a request is.
LEMMA QuietMoves ==
  ASSUME req \in [Req -> Stage], Quiet
  PROVE  /\ NothingCharged
         /\ req' \in [Req -> Stage]
         /\ \A r \in Req : req'[r].pc = req[r].pc
         /\ \A r \in Req : ~At(r, "answer") => req'[r] = req[r]
  <1>1. CASE Tick
    BY <1>1, TickMoves DEF Tick
  <1>2. CASE ~Tick
    BY <1>2 DEF Quiet, Login, StoreToken, StoreFails
  <1> QED
    BY <1>1, <1>2

LEMMA Cases ==
  ASSUME Next
  PROVE  (\E r \in Req : Unpaid(r) \/ Paying(r)) \/ Quiet \/ Edit \/ Restart
  BY DEF Next, Step, Unpaid, Paying, Quiet

-----------------------------------------------------------------------------
(* The lock of the row.                                                    *)

\* Whoever has the lock goes on having it.
LEMMA LockSame ==
  ASSUME LockFits, UNCHANGED <<account, lock>>,
         \A s \in Req : (At(s, "commit") \/ At(s, "commit")') => req'[s] = req[s]
  PROVE  LockFits'
  BY DEF LockFits, At, Chargeable

\* Whoever had the lock has given it back.
LEMMA LockFreed ==
  ASSUME LockFits, lock' = NoReq, NEW r \in Req, lock = r, req'[r].pc # "commit",
         \A s \in Req \ {r} : req'[s] = req[s]
  PROVE  LockFits'
  BY NameAssumption DEF LockFits, At

LEMMA LockKept ==
  ASSUME TypeOK, LockFits, Next
  PROVE  LockFits'
  <1>1. req \in [Req -> Stage] /\ account \in Account
    BY DEF TypeOK, Stage
  <1>2. ASSUME NEW r \in Req, Unpaid(r)
        PROVE  LockFits'
    <2>1. UnpaidMove(r) /\ NothingCharged /\ req[r].pc \notin {"commit", "select"}
      BY <1>1, <1>2, UnpaidMoves, UnpaidCharges
    <2> QED
      BY <2>1, LockSame DEF UnpaidMove, NothingCharged, At
  <1>3. ASSUME NEW r \in Req, Paying(r)
        PROVE  LockFits'
    <2>1. PayingMove(r)
      BY <1>1, <1>3, PayingMoves
    <2>2. CASE Update(r)
      <3>1. lock = NoReq /\ lock' = r /\ account' = account
        BY <2>2 DEF Update
      <3>2. req'[r].pc = "commit" /\ req'[r].matched = Chargeable
        BY <1>1, <2>2 DEF Update, Goto
      <3>3. \A s \in Req : ~At(s, "commit")
        BY <3>1, NameAssumption DEF LockFits
      <3>4. \A s \in Req \ {r} : req'[s] = req[s]
        BY <2>1 DEF PayingMove
      <3>5. Chargeable' = Chargeable
        BY <3>1 DEF Chargeable
      <3> QED
        BY <3>1, <3>2, <3>3, <3>4, <3>5 DEF LockFits, At
    <2>3. CASE Commit(r) \/ CommitAnswerLost(r) \/ (ChargeFails(r) /\ At(r, "commit"))
      <3>1. At(r, "commit") /\ lock = r /\ lock' = NoReq
        BY <2>3 DEF Commit, CommitAnswerLost, ChargeFails, LockFits
      <3>2. req'[r].pc # "commit"
        BY <1>1, <2>3 DEF Commit, CommitAnswerLost, ChargeFails, Goto, With, Idle
      <3> QED
        BY <2>1, <3>1, <3>2, LockFreed DEF PayingMove
    <2>4. CASE SelectUsed(r) \/ SelectFails(r) \/ (ChargeFails(r) /\ ~At(r, "commit"))
      <3>1. ~At(r, "commit") /\ UNCHANGED <<account, lock>>
        BY <2>4 DEF SelectUsed, SelectFails, ChargeFails, LockFits, At, rows
      <3>2. req'[r].pc # "commit"
        BY <1>1, <2>4 DEF SelectUsed, SelectFails, ChargeFails, Goto, With, Idle
      <3> QED
        BY <2>1, <3>1, <3>2, LockSame DEF PayingMove, At
    <2> QED
      BY <1>3, <2>2, <2>3, <2>4 DEF Paying
  <1>4. CASE Quiet
    <2>1. /\ NothingCharged
          /\ \A s \in Req : req'[s].pc = req[s].pc
          /\ \A s \in Req : ~At(s, "answer") => req'[s] = req[s]
      BY <1>1, <1>4, QuietMoves
    <2> QED
      BY <2>1, LockSame DEF NothingCharged, At
  <1>5. CASE Edit
    <2>1. lock = NoReq /\ lock' = NoReq /\ req' = req
      BY <1>5 DEF Edit
    <2> QED
      BY <2>1, NameAssumption DEF LockFits, At
  <1>6. CASE Restart
    <2>1. lock' = NoReq /\ \A s \in Req : req'[s].pc = "idle"
      BY <1>6 DEF Restart, Idle
    <2> QED
      BY <2>1, NameAssumption DEF LockFits, At
  <1> QED
    BY <1>2, <1>3, <1>4, <1>5, <1>6, Cases

-----------------------------------------------------------------------------
(* The charges.                                                            *)

LEMMA ChargesKept ==
  ASSUME TypeOK, LockFits, ChargesAccountedFor, Next
  PROVE  ChargesAccountedFor'
  <1>1. req \in [Req -> Stage] /\ account \in Account
    BY DEF TypeOK, Stage
  <1>2. account.used \in Nat /\ paid \in Nat /\ wasted \in Nat
    BY <1>1 DEF Account, TypeOK
  <1>3. /\ account.used = paid + wasted + Cardinality(Pending)
        /\ Cardinality(Pending) \in Nat
    BY PendingCount DEF ChargesAccountedFor
  <1>4. ASSUME UNCHANGED <<paid, wasted, Pending>>, account'.used = account.used
        PROVE  ChargesAccountedFor'
    BY <1>3, <1>4 DEF ChargesAccountedFor
  <1>5. ASSUME NEW m, Charged(m)
        PROVE  /\ m => account'.used = account.used + 1
               /\ ~m => account'.used = account.used
    BY <1>1, <1>5 DEF Charged, Account
  <1>6. ASSUME NEW r \in Req, Unpaid(r)
        PROVE  ChargesAccountedFor'
    <2>1. UnpaidMove(r) /\ NothingCharged /\ req[r].pc \notin {"commit", "select"}
      BY <1>1, <1>6, UnpaidMoves, UnpaidCharges
    <2>2. Pending' = Pending
      BY <2>1 DEF UnpaidMove, Pending, At
    <2> QED
      BY <1>4, <2>1, <2>2 DEF NothingCharged
  <1>7. ASSUME NEW r \in Req, Paying(r)
        PROVE  ChargesAccountedFor'
    <2>1. PayingMove(r)
      BY <1>1, <1>7, PayingMoves
    <2>2. /\ (req[r].pc # "select" /\ req'[r].pc # "select") => Pending' = Pending
          /\ (req[r].pc # "select" /\ req'[r].pc = "select")
               => r \notin Pending /\ Pending' = Pending \cup {r}
          /\ (req[r].pc = "select" /\ req'[r].pc # "select")
               => r \in Pending /\ Pending' = Pending \ {r}
      BY <2>1 DEF PayingMove, Pending, At
    <2>3. CASE Update(r)
      BY <1>1, <1>4, <2>2, <2>3 DEF Update, Goto, At
    <2>4. CASE Commit(r)
      <3>1. /\ req[r].pc = "commit"
            /\ req'[r].pc = IF req[r].matched THEN "select" ELSE "idle"
            /\ UNCHANGED <<paid, wasted>>
            /\ Charged(req[r].matched)
        BY <1>1, <2>4 DEF Commit, Goto, At, With, Idle
      <3>2. CASE req[r].matched
        <4>1. Cardinality(Pending') = Cardinality(Pending) + 1
          BY <2>2, <3>1, <3>2, PendingCount
        <4>2. account'.used = account.used + 1
          BY <1>5, <3>1, <3>2
        <4> QED
          BY <1>2, <1>3, <3>1, <4>1, <4>2 DEF ChargesAccountedFor
      <3>3. CASE ~req[r].matched
        BY <1>4, <1>5, <2>2, <3>1, <3>3
      <3> QED
        BY <3>2, <3>3
    <2>5. CASE CommitAnswerLost(r)
      <3>1. /\ req[r].pc = "commit" /\ req'[r].pc = "idle"
            /\ wasted' = IF req[r].matched THEN wasted + 1 ELSE wasted
            /\ paid' = paid
            /\ Charged(req[r].matched)
        BY <1>1, <2>5 DEF CommitAnswerLost, Goto, At, Idle
      <3>2. Pending' = Pending
        BY <2>2, <3>1
      <3> QED
        BY <1>2, <1>3, <1>5, <3>1, <3>2 DEF ChargesAccountedFor
    <2>6. CASE ChargeFails(r)
      <3>1. /\ req[r].pc # "select" /\ req'[r].pc = "idle"
            /\ UNCHANGED <<account, paid, wasted>>
        BY <1>1, <2>6 DEF ChargeFails, Goto, At, Idle
      <3> QED
        BY <1>4, <2>2, <3>1
    <2>7. CASE SelectUsed(r) \/ SelectFails(r)
      <3>1. /\ req[r].pc = "select" /\ req'[r].pc # "select"
            /\ account' = account
            /\ \/ paid' = paid + 1 /\ wasted' = wasted
               \/ paid' = paid /\ wasted' = wasted + 1
        BY <1>1, <2>7 DEF SelectUsed, SelectFails, Goto, At, Idle, With, rows
      <3>2. Cardinality(Pending') = Cardinality(Pending) - 1
        BY <2>2, <3>1, PendingCount
      <3> QED
        BY <1>2, <1>3, <3>1, <3>2 DEF ChargesAccountedFor
    <2> QED
      BY <1>7, <2>3, <2>4, <2>5, <2>6, <2>7 DEF Paying
  <1>8. CASE Quiet
    <2>1. NothingCharged /\ \A s \in Req : req'[s].pc = req[s].pc
      BY <1>1, <1>8, QuietMoves
    <2> QED
      BY <1>4, <2>1 DEF NothingCharged, Pending, At
  <1>9. CASE Edit
    <2>1. account'.used = account.used
      BY <1>1, <1>9 DEF Edit, Account
    <2> QED
      BY <1>4, <1>9, <2>1 DEF Edit, Pending, At
  <1>10. CASE Restart
    <2>1. Pending' = {}
      BY <1>10 DEF Restart, Pending, At, Idle
    <2>2. Cardinality(Pending') = 0
      BY <2>1, FS_EmptySet
    <2>3. PICK late \in BOOLEAN :
            /\ Charged(late)
            /\ wasted' = wasted + Cardinality(Pending) + (IF late THEN 1 ELSE 0)
      <3>1. PICK done \in BOOLEAN :
              LET late == done /\ lock # NoReq /\ req[lock].matched IN
                /\ Charged(late)
                /\ wasted' = wasted + Cardinality(Pending) + (IF late THEN 1 ELSE 0)
        BY <1>10 DEF Restart
      <3> DEFINE b == done /\ lock # NoReq /\ req[lock].matched
      <3>2. Charged(b) /\ wasted' = wasted + Cardinality(Pending) + (IF b THEN 1 ELSE 0)
        BY <3>1
      <3>3. b \in BOOLEAN
        OBVIOUS
      <3> HIDE DEF b
      <3> QED
        BY <3>2, <3>3
    <2>4. paid' = paid
      BY <1>10 DEF Restart
    <2> QED
      BY <1>2, <1>3, <1>5, <2>2, <2>3, <2>4 DEF ChargesAccountedFor
  <1> QED
    BY <1>6, <1>7, <1>8, <1>9, <1>10, Cases

-----------------------------------------------------------------------------
(* The status.                                                             *)

LEMMA ActiveKept ==
  ASSUME TypeOK, ActiveFits, Next
  PROVE  ActiveFits'
  <1>1. req \in [Req -> Stage] /\ account \in Account
    BY DEF TypeOK, Stage
  <1>2. ASSUME NEW s \in Req, req'[s].pc \in Authenticated
        PROVE  s \in active \/ account'.status = "active"
    <2>1. ASSUME NEW r \in Req, Unpaid(r)
          PROVE  s \in active \/ account'.status = "active"
      <3>1. UnpaidMove(r) /\ account' = account
        BY <1>1, <2>1, UnpaidMoves, UnpaidCharges DEF NothingCharged
      <3> QED
        BY <1>2, <3>1 DEF UnpaidMove, ActiveFits
    <2>2. ASSUME NEW r \in Req, Paying(r)
          PROVE  s \in active \/ account'.status = "active"
      <3>1. PayingMove(r)
        BY <1>1, <2>2, PayingMoves
      <3> QED
        BY <1>2, <3>1 DEF PayingMove, ActiveFits, Authenticated
    <2>3. CASE Quiet
      BY <1>1, <1>2, <2>3, QuietMoves DEF ActiveFits
    <2>4. CASE Edit
      BY <1>2, <2>4 DEF Edit, ActiveFits
    <2>5. CASE Restart
      BY <1>2, <2>5 DEF Restart, Idle, Authenticated
    <2> QED
      BY <2>1, <2>2, <2>3, <2>4, <2>5, Cases
  <1>3. active' = {r \in Req : req'[r] # Idle
                                /\ (r \in active \/ account'.status = "active")}
    BY DEF Next, RecordActivity
  <1>4. ASSUME NEW s \in Req, req'[s].pc \in Authenticated
        PROVE  req'[s] # Idle
    BY <1>4 DEF Idle, Authenticated
  <1> QED
    BY <1>2, <1>3, <1>4 DEF ActiveFits

-----------------------------------------------------------------------------
(* The tokens.                                                             *)

\* Values of the variables that tokens have.
TokenTypes ==
  /\ ttl \in [Token -> 0 .. TokenExpire]
  /\ cached \in [Token -> 0 .. CacheExpire]
  /\ storing \subseteq Token
  /\ age \in [Token -> 0 .. MaxAge]

LEMMA MaxAgeNat == /\ MaxAge \in Nat
                   /\ MaxAge = TokenExpire + ReplyDelay + CacheExpire
                   /\ TokenExpire \in Nat /\ TokenExpire > 0
                   /\ CacheExpire \in Nat /\ CacheExpire > 0
                   /\ ReplyDelay \in Nat
  BY TimeAssumption DEF MaxAge

\* A step that no token notices, and after which no answer is new.
LEMMA TokensSame ==
  ASSUME TokenTypes, TokensFit, UNCHANGED tokens,
         \A s \in Req : At(s, "answer")' => req'[s] = req[s]
  PROVE  TokenTypes' /\ TokensFit'
  BY DEF TokenTypes, TokensFit, tokens, At

\* An answer about token k with what Redis knows.
LEMMA AnswerFits ==
  ASSUME TypeOK, TokensFit, NEW r \in Req, GetToken(r)
  PROVE  TokenTypes' /\ TokensFit'
  <1>1. req \in [Req -> Stage] /\ req[r] \in Stage
    BY DEF TypeOK, Stage
  <1>2. req[r].token \in Token
    BY <1>1, Shapes DEF GetToken, At
  <1>3. UNCHANGED tokens /\ TokenTypes
    BY DEF GetToken, TypeOK, TokenTypes
  <1>4. /\ req'[r].token = req[r].token
        /\ req'[r].found = (ttl[req[r].token] > 0)
        /\ req'[r].delay = 0
        /\ \A s \in Req \ {r} : req'[s] = req[s]
    BY <1>1 DEF GetToken, Goto
  <1>5. ttl[req[r].token] > 0 => age[req[r].token] < TokenExpire
    BY <1>2, <1>3, MaxAgeNat DEF TokensFit, TokenTypes
  <1>6. ASSUME req'[r].found
        PROVE  age'[req'[r].token] < TokenExpire + req'[r].delay
    <2>1. ttl[req[r].token] > 0
      BY <1>4, <1>6
    <2>2. age'[req'[r].token] = age[req[r].token] /\ req'[r].delay = 0
      BY <1>3, <1>4 DEF tokens
    <2> QED
      BY <1>5, <2>1, <2>2, MaxAgeNat
  <1> QED
    BY <1>3, <1>4, <1>6 DEF TokensFit, TokenTypes, tokens, At

LEMMA CacheFits ==
  ASSUME TypeOK, TokensFit, NEW r \in Req, TokenAnswer(r)
  PROVE  TokenTypes' /\ TokensFit'
  <1>1. req \in [Req -> Stage] /\ req[r] \in Stage /\ req[r].pc = "answer"
    BY DEF TypeOK, Stage, TokenAnswer, At
  <1>2. /\ req[r].token \in Token
        /\ req[r].found \in BOOLEAN
        /\ req[r].delay \in 0 .. ReplyDelay
    BY <1>1, Shapes
  <1>3. TokenTypes /\ UNCHANGED <<ttl, storing, age>>
    BY DEF TokenAnswer, TypeOK, TokenTypes
  <1>4. req'[r].pc # "answer" /\ \A s \in Req \ {r} : req'[s] = req[s]
    BY <1>1 DEF TokenAnswer, Goto, Idle
  <1>5. CASE ~req[r].found
    BY <1>3, <1>4, <1>5, TokensSame DEF TokenAnswer, tokens, At
  <1>6. CASE req[r].found
    <2>1. cached' = [cached EXCEPT ![req[r].token] = CacheExpire]
      BY <1>6 DEF TokenAnswer
    <2>2. TokenTypes'
      BY <1>2, <1>3, <2>1, MaxAgeNat DEF TokenTypes
    <2>3. CacheExpire + age[req[r].token] < MaxAge
      BY <1>1, <1>2, <1>3, <1>6, MaxAgeNat DEF TokensFit, TokenTypes, At
    <2>4. \A k \in Token : cached'[k] > 0 => cached'[k] + age'[k] < MaxAge
      BY <1>2, <1>3, <2>1, <2>3 DEF TokensFit, TokenTypes
    <2> QED
      BY <1>3, <1>4, <2>2, <2>4 DEF TokensFit, At
  <1> QED
    BY <1>2, <1>5, <1>6

LEMMA StoredFits ==
  ASSUME TypeOK, TokensFit, NEW k \in Token, StoreToken(k)
  PROVE  TokenTypes' /\ TokensFit'
  <1>1. TokenTypes /\ req \in [Req -> Stage]
    BY DEF TypeOK, TokenTypes, Stage
  <1>2. /\ ttl' = [ttl EXCEPT ![k] = TokenExpire]
        /\ age' = [age EXCEPT ![k] = 0]
        /\ storing' = storing \ {k} /\ cached' = cached /\ req' = req
    BY DEF StoreToken
  <1>3. TokenTypes'
    BY <1>1, <1>2, MaxAgeNat DEF TokenTypes
  <1>4. \A t \in Token : ttl'[t] > 0 => ttl'[t] + age'[t] <= TokenExpire
    BY <1>1, <1>2, MaxAgeNat DEF TokensFit, TokenTypes
  <1>5. \A t \in Token : cached'[t] > 0 => cached'[t] + age'[t] < MaxAge
    BY <1>1, <1>2, MaxAgeNat DEF TokensFit, TokenTypes
  <1>6. ASSUME NEW r \in Req, At(r, "answer")', req'[r].found
        PROVE  age'[req'[r].token] < TokenExpire + req'[r].delay
    <2>1. req[r].token \in Token /\ req[r].delay \in 0 .. ReplyDelay
      BY <1>1, <1>2, <1>6, Shapes DEF At
    <2>2. age[req[r].token] < TokenExpire + req[r].delay
      BY <1>2, <1>6 DEF TokensFit, At
    <2>3. 0 < TokenExpire + req[r].delay
      BY <2>1, MaxAgeNat
    <2> QED
      BY <1>1, <1>2, <2>1, <2>2, <2>3 DEF TokenTypes
  <1> QED
    BY <1>3, <1>4, <1>5, <1>6 DEF TokensFit

LEMMA TimeFits ==
  ASSUME TypeOK, TokensFit, Tick
  PROVE  TokenTypes' /\ TokensFit'
  <1>1. TokenTypes /\ req \in [Req -> Stage]
    BY DEF TypeOK, TokenTypes, Stage
  <1>2. storing' = storing
    BY DEF Tick
  <1>3. ASSUME NEW k \in Token
        PROVE  /\ ttl'[k] = IF ttl[k] = 0 THEN 0 ELSE ttl[k] - 1
               /\ cached'[k] = IF cached[k] = 0 THEN 0 ELSE cached[k] - 1
               /\ age'[k] = IF age[k] = MaxAge THEN MaxAge ELSE age[k] + 1
               /\ ttl[k] \in 0 .. TokenExpire
               /\ cached[k] \in 0 .. CacheExpire
               /\ age[k] \in 0 .. MaxAge
    BY <1>1 DEF Tick, Left, TokenTypes
  <1>4. TokenTypes'
    <2>1. \A k \in Token : /\ ttl'[k] \in 0 .. TokenExpire
                            /\ cached'[k] \in 0 .. CacheExpire
                            /\ age'[k] \in 0 .. MaxAge
      BY <1>3, MaxAgeNat
    <2>2. /\ ttl' = [k \in Token |-> ttl'[k]]
          /\ cached' = [k \in Token |-> cached'[k]]
          /\ age' = [k \in Token |-> age'[k]]
      BY DEF Tick
    <2> QED
      BY <1>1, <1>2, <2>1, <2>2 DEF TokenTypes
  <1>5. ASSUME NEW k \in Token, ttl'[k] > 0
        PROVE  ttl'[k] + age'[k] <= TokenExpire
    <2>1. ttl[k] > 0 /\ ttl'[k] = ttl[k] - 1
      BY <1>3, <1>5
    <2>2. ttl[k] + age[k] <= TokenExpire
      BY <2>1 DEF TokensFit
    <2>3. age'[k] = age[k] + 1
      BY <1>3, <2>1, <2>2, MaxAgeNat
    <2> QED
      BY <1>3, <2>1, <2>2, <2>3, MaxAgeNat
  <1>6. ASSUME NEW k \in Token, cached'[k] > 0
        PROVE  cached'[k] + age'[k] < MaxAge
    <2>1. cached[k] > 0 /\ cached'[k] = cached[k] - 1
      BY <1>3, <1>6
    <2>2. cached[k] + age[k] < MaxAge
      BY <2>1 DEF TokensFit
    <2>3. age'[k] = age[k] + 1
      BY <1>3, <2>1, <2>2, MaxAgeNat
    <2> QED
      BY <1>3, <2>1, <2>2, <2>3, MaxAgeNat
  <1>7. ASSUME NEW r \in Req, At(r, "answer")', req'[r].found
        PROVE  age'[req'[r].token] < TokenExpire + req'[r].delay
    <2>1. At(r, "answer")
      BY <1>1, <1>7, TickMoves DEF At
    <2>2. /\ req'[r].token = req[r].token
          /\ req'[r].found = req[r].found
          /\ req'[r].delay = req[r].delay + 1
      BY <1>1, <2>1, TickMoves
    <2>3. req[r].token \in Token /\ req[r].delay \in 0 .. ReplyDelay
      BY <1>1, <2>1, Shapes DEF At
    <2>4. age[req[r].token] < TokenExpire + req[r].delay
      BY <1>7, <2>1, <2>2 DEF TokensFit
    <2>5. age'[req[r].token] <= age[req[r].token] + 1
      BY <1>3, <2>3, MaxAgeNat
    <2>6. age[req[r].token] \in Nat /\ age'[req[r].token] \in Nat
      BY <1>3, <2>3, MaxAgeNat
    <2> QED
      BY <2>2, <2>3, <2>4, <2>5, <2>6, MaxAgeNat
  <1> QED
    BY <1>4, <1>5, <1>6, <1>7 DEF TokensFit

\* Steps after which a request has nothing to do with a token.
LEMMA NoTokenStage ==
  ASSUME req \in [Req -> Stage], NEW r \in Req,
         \/ BeginWithPassword(r) \/ ReadUser(r) \/ ReadFails(r)
         \/ ReadQuota(r) \/ Leave(r)
  PROVE  req'[r].pc \notin {"user", "answer"}
  <1>1. \A x : Goto(r, x) => req'[r] = x
    BY DEF Goto
  <1>2. Goto(r, Idle) => req'[r].pc = "idle"
    BY <1>1 DEF Idle
  <1>3. CASE BeginWithPassword(r)
    <2>1. PICK c \in BOOLEAN : req'[r] = [pc |-> "password", correct |-> c]
      BY <1>1, <1>3 DEF BeginWithPassword
    <2> QED
      BY <2>1
  <1>4. CASE ReadUser(r)
    <2>1. CASE Goto(r, Idle)
      BY <1>2, <2>1
    <2>2. CASE ~Goto(r, Idle)
      <3>1. PICK p \in Input :
              Goto(r, IF p \in Useful
                        THEN [pc |-> "quota", packet |-> p,
                              total |-> account.total, used |-> account.used]
                        ELSE Idle)
        BY <1>4, <2>2 DEF ReadUser
      <3>2. req'[r] = [pc |-> "quota", packet |-> p,
                       total |-> account.total, used |-> account.used]
        BY <1>1, <2>2, <3>1
      <3> QED
        BY <3>2
    <2> QED
      BY <2>1, <2>2
  <1>5. CASE ReadQuota(r)
    <2>1. \/ Goto(r, Idle) \/ Goto(r, With(r, "admitted")) \/ Goto(r, With(r, "charge"))
      <3> DEFINE u == IF account.status = "deleted" THEN req[r] ELSE account
      <3>1. Goto(r, IF u.total \in {Unlimited, NoTotal} THEN With(r, "admitted")
                    ELSE IF u.used >= u.total THEN Idle
                    ELSE With(r, "charge"))
        BY <1>5 DEF ReadQuota
      <3> HIDE DEF u
      <3> QED
        BY <3>1
    <2>2. With(r, "admitted").pc = "admitted" /\ With(r, "charge").pc = "charge"
      BY DEF With
    <2> QED
      BY <1>1, <1>2, <2>1, <2>2
  <1>6. CASE ReadFails(r) \/ Leave(r)
    BY <1>2, <1>6 DEF ReadFails, Leave
  <1> QED
    BY <1>3, <1>4, <1>5, <1>6

LEMMA TokensKept ==
  ASSUME TypeOK, TokensFit, Next
  PROVE  TokenTypes' /\ TokensFit'
  <1>1. req \in [Req -> Stage] /\ TokenTypes
    BY DEF TypeOK, Stage, TokenTypes
  <1>2. ASSUME NEW r \in Req, Unpaid(r)
        PROVE  TokenTypes' /\ TokensFit'
    <2>1. CASE GetToken(r) \/ TokenAnswer(r)
      BY <2>1, AnswerFits, CacheFits
    <2>2. CASE ~GetToken(r) /\ ~TokenAnswer(r)
      <3>1. UNCHANGED tokens
        BY <1>2, <2>2 DEF Unpaid, BeginWithToken, BeginWithPassword, ReadUser,
                          ReadFails, ReadQuota, Leave
      <3>2. req'[r].pc # "answer"
        <4>1. \A x : Goto(r, x) => req'[r] = x
          BY <1>1 DEF Goto
        <4>2. ASSUME NEW k \in Token, BeginWithToken(r, k)
              PROVE  req'[r].pc # "answer"
          <5>1. req'[r] = [pc |-> IF cached[k] > 0 THEN "user" ELSE "token", token |-> k]
            BY <4>1, <4>2 DEF BeginWithToken
          <5>2. req'[r].pc = IF cached[k] > 0 THEN "user" ELSE "token"
            BY <5>1
          <5> QED
            BY <5>2
        <4>3. CASE \/ BeginWithPassword(r) \/ ReadUser(r) \/ ReadFails(r)
                   \/ ReadQuota(r) \/ Leave(r)
          BY <1>1, <4>3, NoTokenStage
        <4> QED
          BY <1>2, <2>2, <4>2, <4>3 DEF Unpaid
      <3>3. UnpaidMove(r)
        BY <1>1, <1>2, UnpaidMoves DEF TypeOK
      <3> QED
        BY <1>1, <3>1, <3>2, <3>3, TokensSame DEF UnpaidMove, At
    <2> QED
      BY <2>1, <2>2
  <1>3. ASSUME NEW r \in Req, Paying(r)
        PROVE  TokenTypes' /\ TokensFit'
    <2>1. PayingMove(r) /\ UNCHANGED tokens
      BY <1>1, <1>3, PayingMoves
    <2> QED
      BY <1>1, <2>1, TokensSame DEF PayingMove, At
  <1>4. ASSUME NEW k \in Token, Login(k) \/ StoreFails(k)
        PROVE  TokenTypes' /\ TokensFit'
    <2>1. UNCHANGED <<ttl, cached, age, req>> /\ storing' \subseteq Token
      BY <1>1, <1>4 DEF Login, StoreFails, TokenTypes
    <2> QED
      BY <1>1, <2>1 DEF TokenTypes, TokensFit, At
  <1>5. CASE Edit
    BY <1>1, <1>5, TokensSame DEF Edit
  <1>6. CASE Restart
    <2>1. /\ UNCHANGED <<ttl, age>> /\ storing' = {}
          /\ cached' = [k \in Token |-> 0]
          /\ \A r \in Req : req'[r].pc = "idle"
      BY <1>6 DEF Restart, Idle
    <2> QED
      BY <1>1, <2>1, MaxAgeNat DEF TokenTypes, TokensFit, At
  <1> QED
    BY <1>2, <1>3, <1>4, <1>5, <1>6, StoredFits, TimeFits, Cases DEF Quiet

-----------------------------------------------------------------------------
(* The inductive invariant.                                                *)

LEMMA InitIInv == Init => IInv
  <1> SUFFICES ASSUME Init PROVE IInv
    OBVIOUS
  <1>1. \A r \in Req : req[r].pc = "idle"
    BY DEF Init, Idle
  <1>2. Cardinality(Pending) = 0
    <2>1. Pending = {}
      BY <1>1 DEF Pending, At
    <2> QED
      BY <2>1, FS_EmptySet
  <1>3. TypeOK
    BY MaxAgeNat DEF Init, TypeOK, Account, Status
  <1>4. ChargesAccountedFor
    BY <1>2 DEF Init, ChargesAccountedFor
  <1>5. LockFits /\ ActiveFits /\ TokensFit
    BY <1>1, NameAssumption DEF Init, LockFits, ActiveFits, TokensFit, Authenticated, At
  <1> QED
    BY <1>3, <1>4, <1>5 DEF IInv

LEMMA TypeKept ==
  ASSUME TypeOK, TokensFit, Next
  PROVE  TypeOK'
  <1>1. /\ req \in [Req -> Stage] /\ account \in Account /\ lock \in Req \cup {NoReq}
        /\ paid \in Nat /\ wasted \in Nat
    BY DEF TypeOK, Stage
  <1>2. TokenTypes' /\ active' \subseteq Req
    BY TokensKept DEF Next, RecordActivity
  <1> DEFINE Rest == /\ req' \in [Req -> Stage]
                     /\ account' \in Account
                     /\ lock' \in Req \cup {NoReq}
                     /\ paid' \in Nat /\ wasted' \in Nat
  <1>3. ASSUME NEW m, Charged(m)
        PROVE  account' \in Account
    BY <1>1, <1>3 DEF Charged, Account
  <1>4. ASSUME NEW r \in Req, Unpaid(r)
        PROVE  Rest
    <2>1. UnpaidMove(r) /\ NothingCharged
      BY <1>1, <1>4, UnpaidMoves, UnpaidCharges
    <2> QED
      BY <1>1, <2>1 DEF UnpaidMove, NothingCharged
  <1>5. ASSUME NEW r \in Req, Paying(r)
        PROVE  Rest
    <2>1. PayingMove(r)
      BY <1>1, <1>5, PayingMoves
    <2>2. lock' \in Req \cup {NoReq} /\ paid' \in Nat /\ wasted' \in Nat
      BY <1>1, <1>5 DEF Paying, Update, Commit, SelectUsed, CommitAnswerLost,
                        ChargeFails, SelectFails, rows
    <2>3. account' \in Account
      BY <1>1, <1>3, <1>5 DEF Paying, Update, Commit, SelectUsed, CommitAnswerLost,
                              ChargeFails, SelectFails, rows
    <2> QED
      BY <2>1, <2>2, <2>3 DEF PayingMove
  <1>6. ASSUME Quiet
        PROVE  Rest
    <2>1. NothingCharged /\ req' \in [Req -> Stage]
      BY <1>1, <1>6, QuietMoves
    <2> QED
      BY <1>1, <2>1 DEF NothingCharged
  <1>7. ASSUME Edit
        PROVE  Rest
    <2>1. account' \in Account
      BY <1>1, <1>7 DEF Edit, Account
    <2> QED
      BY <1>1, <1>7, <2>1 DEF Edit
  <1>8. ASSUME Restart
        PROVE  Rest
    <2>1. req' \in [Req -> Stage]
      BY <1>8, Stages DEF Restart
    <2>2. account' \in Account
      BY <1>3, <1>8 DEF Restart
    <2>3. lock' = NoReq /\ paid' = paid
      BY <1>8 DEF Restart
    <2>4. wasted' \in Nat
      <3>1. \/ wasted' = wasted + Cardinality(Pending) + 1
            \/ wasted' = wasted + Cardinality(Pending) + 0
        BY <1>8 DEF Restart
      <3> QED
        BY <1>1, <3>1, PendingCount
    <2> QED
      BY <1>1, <2>1, <2>2, <2>3, <2>4
  <1>9. Rest
    BY <1>4, <1>5, <1>6, <1>7, <1>8, Cases
  <1> QED
    BY <1>2, <1>9 DEF TypeOK, TokenTypes, Stage

LEMMA NextIInv == IInv /\ [Next]_vars => IInv'
  <1> SUFFICES ASSUME IInv, [Next]_vars PROVE IInv'
    OBVIOUS
  <1>1. CASE Next
    BY <1>1, TypeKept, LockKept, ChargesKept, ActiveKept, TokensKept DEF IInv
  <1>2. CASE UNCHANGED vars
    BY <1>2 DEF vars, rows, tokens, IInv, TypeOK, LockFits, ChargesAccountedFor,
                ActiveFits, TokensFit, At, Chargeable, Pending
  <1> QED
    BY <1>1, <1>2

LEMMA Invariance == Spec => []IInv
  BY InitIInv, NextIInv, PTL DEF Spec

-----------------------------------------------------------------------------
(* Theorems.                                                               *)

\* The variables of quick_submit's admission keep their types.
THEOREM TypeCorrect == Spec => []TypeOK
  <1>1. IInv => TypeOK
    BY DEF IInv
  <1> QED
    BY <1>1, Invariance, PTL

\* Each charge belongs to one request that got in, is about to, or was told that
\* it failed (task_routes.py:73-105).
THEOREM EveryChargeAccountedFor == Spec => []ChargesAccountedFor
  <1>1. IInv => ChargesAccountedFor
    BY DEF IInv
  <1> QED
    BY <1>1, Invariance, PTL

\* Whoever gets in had an active account at some time since the request arrived
\* (task_routes.py:385-390).
THEOREM OnlyActiveAdmitted == Spec => []AdmittedWhileActive
  <1>1. IInv => AdmittedWhileActive
    BY DEF IInv, ActiveFits, AdmittedWhileActive, Authenticated, At
  <1> QED
    BY <1>1, Invariance, PTL

\* No charge goes beyond the limit, although the quota is read and the UPDATE is
\* committed in different steps (task_routes.py:73-90): the lock of the row keeps
\* the WHERE clause true.
THEOREM QuotaIsKept == Spec => QuotaKept
  <1> DEFINE Keeps == account'.used # account.used =>
               /\ account'.used = account.used + 1
               /\ account'.total = Unlimited \/ account'.used <= account'.total
  <1>1. IInv /\ [Next]_vars => [Keeps]_vars
    <2> SUFFICES ASSUME IInv, Next PROVE Keeps
      OBVIOUS
    <2>1. /\ req \in [Req -> Stage] /\ account \in Account
          /\ account.used \in Nat /\ account.total \in Totals
      BY DEF IInv, TypeOK, Stage, Account
    <2>2. account.total \in Int
      <3>1. Unlimited \in Int /\ NoTotal \in Int
        BY DEF Unlimited, NoTotal
      <3>2. \A n \in Totals : n \in Int
        BY <3>1, TotalAssumption
      <3> QED
        BY <2>1, <3>2
    <2>3. ASSUME NEW r \in Req, lock = r, req[r].matched,
                 account' = [account EXCEPT !.used = @ + 1]
          PROVE  Keeps
      <3>1. Chargeable
        BY <2>3 DEF IInv, LockFits
      <3>2. account'.used = account.used + 1 /\ account'.total = account.total
        BY <2>1, <2>3 DEF Account
      <3> QED
        BY <2>1, <2>2, <3>1, <3>2 DEF Chargeable
    <2>4. ASSUME NEW r \in Req, Paying(r)
          PROVE  Keeps
      <3>1. CASE Commit(r) \/ CommitAnswerLost(r)
        <4>1. lock = r /\ Charged(req[r].matched)
          BY <3>1 DEF Commit, CommitAnswerLost, IInv, LockFits
        <4> QED
          BY <2>3, <4>1 DEF Charged
      <3>2. CASE ~Commit(r) /\ ~CommitAnswerLost(r)
        BY <2>4, <3>2 DEF Paying, Update, SelectUsed, ChargeFails, SelectFails, rows
      <3> QED
        BY <3>1, <3>2
    <2>5. ASSUME NEW r \in Req, Unpaid(r)
          PROVE  Keeps
      BY <2>1, <2>5, UnpaidCharges DEF NothingCharged
    <2>6. CASE Quiet
      BY <2>1, <2>6, QuietMoves DEF NothingCharged
    <2>7. CASE Edit
      BY <2>1, <2>7 DEF Edit, Account
    <2>8. CASE Restart
      <3>1. \/ account' = account
            \/ /\ lock # NoReq /\ req[lock].matched
               /\ account' = [account EXCEPT !.used = @ + 1]
        BY <2>8 DEF Restart, Charged
      <3>2. lock # NoReq => lock \in Req
        BY DEF IInv, TypeOK
      <3> QED
        BY <2>3, <3>1, <3>2
    <2> QED
      BY <2>4, <2>5, <2>6, <2>7, <2>8, Cases
  <1>2. Spec => [][Keeps]_vars
    BY <1>1, Invariance, PTL DEF Spec
  <1> QED
    BY <1>2 DEF QuotaKept

\* No token is accepted beyond its time in Redis, the delay of an answer and its
\* time in memory taken together (task_routes.py:176-197).
THEOREM TokensExpire == Spec => TokenExpires
  <1> DEFINE Fresh == \A r \in Req : At(r, "user")' /\ ~At(r, "user")
                        => age[req'[r].token] < MaxAge
  <1>1. IInv /\ [Next]_vars => [Fresh]_vars
    <2> SUFFICES ASSUME IInv, Next, NEW r \in Req, req'[r].pc = "user", req[r].pc # "user"
                 PROVE  age[req'[r].token] < MaxAge
      BY DEF At
    <2>1. req \in [Req -> Stage] /\ account \in Account /\ TokenTypes
      BY DEF IInv, TypeOK, Stage, TokenTypes
    <2>2. ASSUME NEW s \in Req, Unpaid(s)
          PROVE  age[req'[r].token] < MaxAge
      <3>1. UnpaidMove(s)
        BY <2>1, <2>2, UnpaidMoves
      <3>2. s = r
        BY <3>1 DEF UnpaidMove
      <3>3. \A x : Goto(r, x) => req'[r] = x
        BY <2>1 DEF Goto
      <3>4. ASSUME NEW k \in Token, BeginWithToken(r, k)
            PROVE  age[req'[r].token] < MaxAge
        <4>1. req'[r] = [pc |-> IF cached[k] > 0 THEN "user" ELSE "token", token |-> k]
          BY <3>3, <3>4 DEF BeginWithToken
        <4>2. /\ req'[r].token = k
              /\ req'[r].pc = IF cached[k] > 0 THEN "user" ELSE "token"
          BY <4>1
        <4>3. cached[k] > 0
          BY <4>2
        <4>4. cached[k] + age[k] < MaxAge
          BY <4>3 DEF IInv, TokensFit
        <4> QED
          BY <2>1, <4>2, <4>3, <4>4, MaxAgeNat DEF TokenTypes
      <3>5. CASE TokenAnswer(r)
        <4>1. req[r].pc = "answer" /\ req[r] \in Stage
          BY <2>1, <3>5 DEF TokenAnswer, At
        <4>2. req[r].found /\ req'[r].token = req[r].token
          BY <3>3, <3>5 DEF TokenAnswer, Idle
        <4>3. req[r].token \in Token /\ req[r].delay \in 0 .. ReplyDelay
          BY <4>1, Shapes
        <4>4. age[req[r].token] < TokenExpire + req[r].delay
          BY <4>1, <4>2 DEF IInv, TokensFit, At
        <4> QED
          BY <2>1, <4>2, <4>3, <4>4, MaxAgeNat DEF TokenTypes
      <3>6. CASE GetToken(r)
        BY <3>3, <3>6 DEF GetToken
      <3>7. CASE \/ BeginWithPassword(r) \/ ReadUser(r) \/ ReadFails(r)
                 \/ ReadQuota(r) \/ Leave(r)
        BY <2>1, <3>7, NoTokenStage
      <3> QED
        BY <2>2, <3>2, <3>4, <3>5, <3>6, <3>7 DEF Unpaid
    <2>3. ASSUME NEW s \in Req, Paying(s)
          PROVE  FALSE
      <3>1. PayingMove(s)
        BY <2>1, <2>3, PayingMoves
      <3> QED
        BY <3>1 DEF PayingMove
    <2>4. ASSUME Quiet \/ Edit \/ Restart
          PROVE  FALSE
      <3>1. CASE Quiet
        BY <2>1, <3>1, QuietMoves
      <3>2. CASE Edit
        BY <3>2 DEF Edit
      <3>3. CASE Restart
        BY <3>3 DEF Restart, Idle
      <3> QED
        BY <2>4, <3>1, <3>2, <3>3
    <2> QED
      BY <2>2, <2>3, <2>4, Cases
  <1>2. Spec => [][Fresh]_vars
    BY <1>1, Invariance, PTL DEF Spec
  <1> QED
    BY <1>2 DEF TokenExpires

-----------------------------------------------------------------------------
(* Admission implements QuotaLedger.                                       *)

LedgerStage == [r \in Req |-> Standing(r)]

Limitless(total) == total \in {Unlimited, NoTotal}

\* The stages of a request as QuotaLedger sees them.
LEMMA StandingOf ==
  ASSUME NEW r \in Req
  PROVE  /\ req[r].pc = "quota" => Standing(r) = IF Limitless(req[r].total)
                                                 THEN "unlimited" ELSE "limited"
         /\ req[r].pc \in {"charge", "commit"} => Standing(r) = "due"
         /\ req[r].pc = "select" => Standing(r) = "charged"
         /\ req[r].pc = "admitted" => Standing(r) = "in"
         /\ req[r].pc \notin Authenticated => Standing(r) = "out"
         /\ Standing(r) = "due" => req[r].pc \in {"charge", "commit"}
         /\ Standing(r) = "charged" => req[r].pc = "select"
  BY DEF Standing, At, Authenticated, Limitless

LEMMA StandingThen ==
  ASSUME NEW r \in Req
  PROVE  /\ req'[r].pc = "quota" => Standing(r)' = IF Limitless(req'[r].total)
                                                  THEN "unlimited" ELSE "limited"
         /\ req'[r].pc \in {"charge", "commit"} => Standing(r)' = "due"
         /\ req'[r].pc = "select" => Standing(r)' = "charged"
         /\ req'[r].pc = "admitted" => Standing(r)' = "in"
         /\ req'[r].pc \notin Authenticated => Standing(r)' = "out"
  BY DEF Standing, At, Authenticated, Limitless

\* A step of one request takes it from one stage to another.
LEMMA LedgerMove ==
  ASSUME NEW r \in Req, \A s \in Req \ {r} : req'[s] = req[s],
         NEW from, NEW to, Standing(r) \in from, Standing(r)' = to
  PROVE  /\ Ledger!Move(r, from, to)
         /\ to \notin from => LedgerStage'[r] # LedgerStage[r]
  <1>1. \A s \in Req \ {r} : Standing(s)' = Standing(s)
    BY DEF Standing, At
  <1>2. LedgerStage' = [LedgerStage EXCEPT ![r] = to]
    BY <1>1 DEF LedgerStage
  <1>3. LedgerStage[r] \in from /\ LedgerStage'[r] = to
    BY <1>2 DEF LedgerStage
  <1> QED
    BY <1>2, <1>3 DEF Ledger!Move, LedgerStage

\* A step that changes no stage.
LEMMA LedgerStill ==
  ASSUME \A r \in Req : Standing(r)' = Standing(r)
  PROVE  LedgerStage' = LedgerStage
  BY DEF LedgerStage

LEMMA InitLedger == Init => Ledger!Init
  <1> SUFFICES ASSUME Init PROVE Ledger!Init
    OBVIOUS
  <1>1. \A r \in Req : Standing(r) = "out"
    BY DEF Init, Idle, Standing, At
  <1> QED
    BY <1>1 DEF Init, Ledger!Init

\* What an unpaid step of a request is to the ledger.
LEMMA UnpaidLedger ==
  ASSUME IInv, NEW r \in Req, Unpaid(r)
  PROVE  Ledger!Step(r) \/ UNCHANGED Ledger!vars
  <1>1. /\ req \in [Req -> Stage] /\ account \in Account
        /\ \A x : Goto(r, x) => req'[r] = x
    BY DEF IInv, TypeOK, Stage, Goto
  <1>2. /\ NothingCharged
        /\ \A s \in Req \ {r} : req'[s] = req[s]
    BY <1>1, UnpaidMoves, UnpaidCharges DEF UnpaidMove
  <1>3. ASSUME Standing(r)' = Standing(r)
        PROVE  UNCHANGED Ledger!vars
    <2>1. \A s \in Req : Standing(s)' = Standing(s)
      BY <1>2, <1>3 DEF Standing, At
    <2> QED
      BY <1>2, <2>1, LedgerStill DEF Ledger!vars, LedgerStage, NothingCharged
  <1>4. ASSUME NEW k \in Token, BeginWithToken(r, k)
        PROVE  Standing(r)' = Standing(r)
    <2>1. req[r].pc \notin Authenticated /\ req'[r].pc \notin Authenticated
      BY <1>1, <1>4 DEF BeginWithToken, At, Authenticated
    <2> QED
      BY <2>1, StandingOf, StandingThen
  <1>5. CASE BeginWithPassword(r) \/ GetToken(r) \/ TokenAnswer(r)
    <2>1. req[r].pc \notin Authenticated
      BY <1>5 DEF BeginWithPassword, GetToken, TokenAnswer, At, Authenticated
    <2>2. CASE BeginWithPassword(r)
      <3>1. PICK c \in BOOLEAN : Goto(r, [pc |-> "password", correct |-> c])
        BY <2>2 DEF BeginWithPassword
      <3>2. req'[r] = [pc |-> "password", correct |-> c]
        BY <1>1, <3>1
      <3>3. req'[r].pc \notin Authenticated
        BY <3>2 DEF Authenticated
      <3> QED
        BY <1>3, <2>1, <3>3, StandingOf, StandingThen
    <2>3. CASE GetToken(r)
      <3>1. req'[r].pc = "answer"
        BY <1>1, <2>3 DEF GetToken
      <3> QED
        BY <1>3, <2>1, <3>1, StandingOf, StandingThen DEF Authenticated
    <2>4. CASE TokenAnswer(r)
      <3>1. \/ req'[r] = [pc |-> "user", token |-> req[r].token]
            \/ req'[r] = Idle
        BY <1>1, <2>4 DEF TokenAnswer
      <3>2. req'[r].pc \in {"user", "idle"}
        BY <3>1 DEF Idle
      <3> QED
        BY <1>3, <2>1, <3>2, StandingOf, StandingThen DEF Authenticated
    <2> QED
      BY <1>5, <2>2, <2>3, <2>4
  <1>6. CASE ReadUser(r)
    <2>1. req[r].pc \notin Authenticated
      BY <1>6 DEF ReadUser, At, Authenticated
    <2>2. CASE Goto(r, Idle)
      <3>1. req'[r].pc \notin Authenticated
        BY <1>1, <2>2 DEF Idle, Authenticated
      <3> QED
        BY <1>3, <2>1, <3>1, StandingOf, StandingThen
    <2>3. CASE ~Goto(r, Idle)
      <3>1. account.status = "active"
        BY <1>6, <2>3 DEF ReadUser
      <3>2. req'[r].pc = "quota" /\ req'[r].total = account.total
        <4>1. PICK p \in Input :
                Goto(r, IF p \in Useful
                          THEN [pc |-> "quota", packet |-> p,
                                total |-> account.total, used |-> account.used]
                          ELSE Idle)
          BY <1>6, <2>3 DEF ReadUser
        <4>2. p \in Useful
          BY <2>3, <4>1
        <4>3. req'[r] = [pc |-> "quota", packet |-> p,
                         total |-> account.total, used |-> account.used]
          BY <1>1, <4>1, <4>2
        <4> QED
          BY <4>3
      <3>3. Standing(r) = "out"
        BY <2>1, StandingOf
      <3>4. Standing(r)' = IF Limitless(account.total) THEN "unlimited" ELSE "limited"
        BY <3>2, StandingThen
      <3>5. Ledger!Move(r, {"out"}, IF Ledger!Free THEN "unlimited" ELSE "limited")
        BY <1>2, <3>3, <3>4, LedgerMove DEF Ledger!Free, Limitless
      <3>6. LedgerStage'[r] # LedgerStage[r]
        BY <3>3, <3>4 DEF LedgerStage
      <3>7. Ledger!Authenticate(r)
        BY <1>2, <3>1, <3>5 DEF Ledger!Authenticate, NothingCharged
      <3> QED
        BY <3>6, <3>7 DEF Ledger!Step, LedgerStage
    <2> QED
      BY <2>2, <2>3
  <1>7. CASE ReadFails(r)
    <2>1. req[r] \in Stage /\ (req[r] \in Authenticating \/ req[r].pc = "quota")
      BY <1>1, <1>7 DEF ReadFails, At
    <2>2. req[r].pc \in {"token", "answer", "user", "password", "quota"}
      BY <2>1, Shapes
    <2>3. Standing(r)' = "out"
      BY <1>1, <1>7, StandingThen DEF ReadFails, Idle, Authenticated
    <2>4. CASE req[r].pc = "quota"
      <3>1. Standing(r) \in {"unlimited", "limited", "due"}
        BY <2>4, StandingOf
      <3>2. /\ Ledger!Move(r, {"unlimited", "limited", "due"}, "out")
            /\ LedgerStage'[r] # LedgerStage[r]
        BY <1>2, <2>3, <3>1, LedgerMove
      <3>3. Ledger!Refuse(r)
        BY <1>2, <3>2 DEF Ledger!Refuse, NothingCharged
      <3> QED
        BY <3>2, <3>3 DEF Ledger!Step, LedgerStage
    <2>5. CASE req[r].pc # "quota"
      BY <1>3, <2>2, <2>3, <2>5, StandingOf DEF Authenticated
    <2> QED
      BY <2>4, <2>5
  <1>8. CASE Leave(r)
    <2>1. Standing(r) = "in" /\ Standing(r)' = "out"
      BY <1>1, <1>8, StandingOf, StandingThen DEF Leave, At, Idle, Authenticated
    <2>2. Ledger!Move(r, {"in"}, "out") /\ LedgerStage'[r] # LedgerStage[r]
      BY <1>2, <2>1, LedgerMove
    <2>3. Ledger!Leave(r)
      BY <1>2, <2>2 DEF Ledger!Leave, NothingCharged
    <2> QED
      BY <2>2, <2>3 DEF Ledger!Step, LedgerStage
  <1>9. CASE ReadQuota(r)
    <2> DEFINE u == IF account.status = "deleted" THEN req[r] ELSE account
               from == {"unlimited", "limited"}
    <2>1. req[r].pc = "quota"
      BY <1>9 DEF ReadQuota, At
    <2>2. Standing(r) = IF Limitless(req[r].total) THEN "unlimited" ELSE "limited"
      BY <2>1, StandingOf
    <2>3. IF Ledger!Deleted
            THEN LedgerStage[r] = (IF Limitless(u.total) THEN "unlimited" ELSE "limited")
            ELSE Limitless(u.total) <=> Ledger!Free
      BY <2>2 DEF Ledger!Deleted, Ledger!Free, Limitless, LedgerStage
    <2>4. req'[r] = IF u.total \in {Unlimited, NoTotal} THEN With(r, "admitted")
                    ELSE IF u.used >= u.total THEN Idle
                    ELSE With(r, "charge")
      BY <1>1, <1>9 DEF ReadQuota
    <2> HIDE DEF u
    <2>5. CASE Limitless(u.total)
      <3>1. Standing(r)' = "in"
        BY <2>4, <2>5, StandingThen DEF With, Limitless
      <3>2. Ledger!Move(r, from, "in") /\ LedgerStage'[r] # LedgerStage[r]
        BY <1>2, <2>2, <3>1, LedgerMove
      <3>3. Ledger!LetInFree(r)
        BY <1>2, <2>3, <2>5, <3>2 DEF Ledger!LetInFree, NothingCharged, LedgerStage
      <3> QED
        BY <3>2, <3>3 DEF Ledger!Step, LedgerStage
    <2>6. CASE ~Limitless(u.total) /\ u.used >= u.total
      <3>1. Standing(r)' = "out"
        BY <2>4, <2>6, StandingThen DEF Idle, Limitless, Authenticated
      <3>2. /\ Ledger!Move(r, {"unlimited", "limited", "due"}, "out")
            /\ LedgerStage'[r] # LedgerStage[r]
        BY <1>2, <2>2, <3>1, LedgerMove
      <3>3. Ledger!Refuse(r)
        BY <1>2, <3>2 DEF Ledger!Refuse, NothingCharged
      <3> QED
        BY <3>2, <3>3 DEF Ledger!Step, LedgerStage
    <2>7. CASE ~Limitless(u.total) /\ ~(u.used >= u.total)
      <3>1. Standing(r)' = "due"
        BY <2>4, <2>7, StandingThen DEF With, Limitless
      <3>2. Ledger!Move(r, from, "due") /\ LedgerStage'[r] # LedgerStage[r]
        BY <1>2, <2>2, <3>1, LedgerMove
      <3>3. Ledger!Owe(r)
        BY <1>2, <2>3, <2>7, <3>2 DEF Ledger!Owe, NothingCharged, LedgerStage
      <3> QED
        BY <3>2, <3>3 DEF Ledger!Step, LedgerStage
    <2> QED
      BY <2>5, <2>6, <2>7
  <1> QED
    BY <1>3, <1>4, <1>5, <1>6, <1>7, <1>8, <1>9 DEF Unpaid

\* COMMIT is the charge: the lock has kept the WHERE clause true since UPDATE.
LEMMA CommitCharges ==
  ASSUME IInv, NEW r \in Req, At(r, "commit"), req[r].matched
  PROVE  Ledger!HasQuota
  <1>1. Chargeable
    BY DEF IInv, LockFits
  <1> QED
    BY <1>1 DEF Chargeable, Ledger!HasQuota, Ledger!Deleted

\* What a step of _charge_user is to the ledger.
LEMMA PayingLedger ==
  ASSUME IInv, NEW r \in Req, Paying(r)
  PROVE  Ledger!Step(r) \/ UNCHANGED Ledger!vars
  <1>1. /\ req \in [Req -> Stage]
        /\ \A x : Goto(r, x) => req'[r] = x
    BY DEF IInv, TypeOK, Stage, Goto
  <1>2. /\ PayingMove(r)
        /\ \A s \in Req \ {r} : req'[s] = req[s]
    BY <1>1, PayingMoves DEF PayingMove
  <1>3. req[r].pc = "commit" => req[r].matched \in BOOLEAN
    BY <1>1, Shapes
  <1>4. ASSUME Standing(r) = "due", req'[r] = Idle, UNCHANGED <<account, paid, wasted>>
        PROVE  Ledger!Step(r)
    <2>1. Standing(r)' = "out"
      BY <1>4, StandingThen DEF Idle, Authenticated
    <2>2. /\ Ledger!Move(r, {"unlimited", "limited", "due"}, "out")
          /\ LedgerStage'[r] # LedgerStage[r]
      BY <1>2, <1>4, <2>1, LedgerMove
    <2>3. Ledger!Refuse(r)
      BY <1>4, <2>2 DEF Ledger!Refuse
    <2> QED
      BY <2>2, <2>3 DEF Ledger!Step, LedgerStage
  <1>5. CASE Update(r)
    <2>1. Standing(r)' = Standing(r)
      <3>1. req[r].pc = "charge" /\ req'[r].pc = "commit"
        BY <1>1, <1>5 DEF Update, At
      <3> QED
        BY <3>1, StandingOf, StandingThen
    <2>2. \A s \in Req : Standing(s)' = Standing(s)
      BY <1>2, <2>1 DEF Standing, At
    <2> QED
      BY <1>5, <2>2, LedgerStill DEF Update, Ledger!vars, LedgerStage
  <1>6. CASE Commit(r)
    <2>1. Standing(r) = "due"
      BY <1>6, StandingOf DEF Commit, At
    <2>2. CASE req[r].matched
      <3>1. Standing(r)' = "charged"
        BY <1>1, <1>6, <2>2, StandingThen DEF Commit, With
      <3>2. Ledger!Move(r, {"due"}, "charged") /\ LedgerStage'[r] # LedgerStage[r]
        BY <1>2, <2>1, <3>1, LedgerMove
      <3>3. Ledger!HasQuota /\ Ledger!CountUse
        BY <1>6, <2>2, CommitCharges DEF Commit, Charged, Ledger!CountUse
      <3>4. Ledger!Charge(r)
        BY <1>6, <3>2, <3>3 DEF Commit, Ledger!Charge
      <3> QED
        BY <3>2, <3>4 DEF Ledger!Step, LedgerStage
    <2>3. CASE ~req[r].matched
      BY <1>1, <1>4, <1>6, <2>1, <2>3 DEF Commit, Charged
    <2> QED
      BY <2>2, <2>3
  <1>7. CASE CommitAnswerLost(r)
    <2>1. Standing(r) = "due"
      BY <1>7, StandingOf DEF CommitAnswerLost, At
    <2>2. CASE req[r].matched
      <3>1. Standing(r)' = "out"
        BY <1>1, <1>7, StandingThen DEF CommitAnswerLost, Idle, Authenticated
      <3>2. Ledger!Move(r, {"due"}, "out") /\ LedgerStage'[r] # LedgerStage[r]
        BY <1>2, <2>1, <3>1, LedgerMove
      <3>3. Ledger!HasQuota /\ Ledger!CountUse
        BY <1>7, <2>2, CommitCharges DEF CommitAnswerLost, Charged, Ledger!CountUse
      <3>4. Ledger!ChargeInVain(r)
        BY <1>7, <2>2, <3>2, <3>3 DEF CommitAnswerLost, Ledger!ChargeInVain
      <3> QED
        BY <3>2, <3>4 DEF Ledger!Step, LedgerStage
    <2>3. CASE ~req[r].matched
      BY <1>1, <1>4, <1>7, <2>1, <2>3 DEF CommitAnswerLost, Charged
    <2> QED
      BY <2>2, <2>3
  <1>8. CASE ChargeFails(r)
    <2>1. Standing(r) = "due"
      BY <1>8, StandingOf DEF ChargeFails, At
    <2> QED
      BY <1>1, <1>4, <1>8, <2>1 DEF ChargeFails
  <1>9. CASE SelectUsed(r)
    <2>1. Standing(r) = "charged" /\ Standing(r)' = "in"
      BY <1>1, <1>9, StandingOf, StandingThen DEF SelectUsed, At, With
    <2>2. Ledger!Move(r, {"charged"}, "in") /\ LedgerStage'[r] # LedgerStage[r]
      BY <1>2, <2>1, LedgerMove
    <2>3. Ledger!LetIn(r)
      BY <1>9, <2>2 DEF SelectUsed, Ledger!LetIn, rows
    <2> QED
      BY <2>2, <2>3 DEF Ledger!Step, LedgerStage
  <1>10. CASE SelectFails(r)
    <2>1. Standing(r) = "charged" /\ Standing(r)' = "out"
      BY <1>1, <1>10, StandingOf, StandingThen DEF SelectFails, At, Idle, Authenticated
    <2>2. Ledger!Move(r, {"charged"}, "out") /\ LedgerStage'[r] # LedgerStage[r]
      BY <1>2, <2>1, LedgerMove
    <2>3. Ledger!RefuseCharged(r)
      BY <1>10, <2>2 DEF SelectFails, Ledger!RefuseCharged, rows
    <2> QED
      BY <2>2, <2>3 DEF Ledger!Step, LedgerStage
  <1> QED
    BY <1>5, <1>6, <1>7, <1>8, <1>9, <1>10 DEF Paying

\* The module instantiated has a Cardinality of its own.
LEMMA LedgerCardinality == \A S : Ledger!Cardinality(S) = Cardinality(S)
  BY DEF Cardinality, Ledger!Cardinality

\* A restart loses what is charged and perhaps the charge of the open transaction.
LEMMA RestartLedger ==
  ASSUME IInv, Restart
  PROVE  Ledger!Crash
  <1>1. LedgerStage' = [r \in Req |-> "out"]
    <2>1. \A r \in Req : req'[r].pc = "idle"
      BY DEF Restart, Idle
    <2>2. \A r \in Req : Standing(r)' = "out"
      BY <2>1, StandingThen DEF Authenticated
    <2> QED
      BY <2>2 DEF LedgerStage
  <1>2. {r \in Req : LedgerStage[r] = "charged"} = Pending
    BY StandingOf DEF LedgerStage, Pending, At
  <1>3. Ledger!Cardinality({r \in Req : LedgerStage[r] = "charged"})
          = Cardinality(Pending)
    BY <1>2, LedgerCardinality
  <1>4. Cardinality(Pending) \in Nat /\ wasted \in Nat
    BY PendingCount DEF IInv, TypeOK
  <1>5. PICK done \in BOOLEAN :
          LET late == done /\ lock # NoReq /\ req[lock].matched IN
            /\ Charged(late)
            /\ wasted' = wasted + Cardinality(Pending) + (IF late THEN 1 ELSE 0)
    BY DEF Restart
  <1> DEFINE late == done /\ lock # NoReq /\ req[lock].matched
  <1>6. CASE late
    <2>1. lock \in Req /\ At(lock, "commit")
      BY <1>6 DEF IInv, TypeOK, LockFits
    <2>2. Ledger!HasQuota
      BY <1>6, <2>1, CommitCharges
    <2>3. LedgerStage[lock] = "due"
      BY <2>1, StandingOf DEF LedgerStage, At
    <2>4. Ledger!CountUse /\ wasted' = wasted + Cardinality(Pending) + 1
      BY <1>5, <1>6 DEF Charged, Ledger!CountUse
    <2> QED
      BY <1>1, <1>3, <2>1, <2>2, <2>3, <2>4
         DEF Ledger!Crash, LedgerStage, Restart
  <1>7. CASE ~late
    <2>1. account' = account /\ wasted' = wasted + Cardinality(Pending)
      BY <1>4, <1>5, <1>7 DEF Charged
    <2> QED
      BY <1>1, <1>3, <2>1 DEF Ledger!Crash, LedgerStage, Restart
  <1> QED
    BY <1>6, <1>7

LEMMA NextLedger == IInv /\ [Next]_vars => [Ledger!Next]_(Ledger!vars)
  <1> SUFFICES ASSUME IInv, [Next]_vars PROVE Ledger!Next \/ UNCHANGED Ledger!vars
    OBVIOUS
  <1>1. req \in [Req -> Stage] /\ account \in Account
    BY DEF IInv, TypeOK, Stage
  <1>2. ASSUME \A r \in Req : Standing(r)' = Standing(r),
               UNCHANGED <<account, paid, wasted>>
        PROVE  UNCHANGED Ledger!vars
    BY <1>2, LedgerStill DEF Ledger!vars, LedgerStage
  <1>3. CASE UNCHANGED vars
    BY <1>2, <1>3 DEF vars, rows, Standing, At
  <1>4. ASSUME NEW r \in Req, Unpaid(r) \/ Paying(r)
        PROVE  Ledger!Next \/ UNCHANGED Ledger!vars
    BY <1>4, UnpaidLedger, PayingLedger DEF Ledger!Next
  <1>5. CASE Quiet
    <2>1. /\ NothingCharged
          /\ \A r \in Req : req'[r].pc = req[r].pc
          /\ \A r \in Req : ~At(r, "answer") => req'[r] = req[r]
      BY <1>1, <1>5, QuietMoves
    <2>2. \A r \in Req : Standing(r)' = Standing(r)
      BY <2>1 DEF Standing, At
    <2> QED
      BY <1>2, <2>1, <2>2 DEF NothingCharged
  <1>6. CASE Edit
    <2>1. req' = req /\ paid' = paid /\ wasted' = wasted
      BY <1>6 DEF Edit
    <2>2. \A r \in Req : Standing(r)' = Standing(r)
      BY <2>1 DEF Standing, At
    <2>3. CASE account' = account
      BY <1>2, <2>1, <2>2, <2>3
    <2>4. CASE account' # account
      <3>1. /\ ~Ledger!Deleted
            /\ account' \in [status : Status, total : Totals, used : {account.used}]
        BY <1>1, <1>6 DEF Edit, Account, Ledger!Deleted
      <3>2. LedgerStage' = LedgerStage
        BY <2>2, LedgerStill
      <3>3. Ledger!Edit
        BY <2>1, <2>4, <3>1, <3>2 DEF Ledger!Edit, LedgerStage
      <3> QED
        BY <3>3 DEF Ledger!Next
    <2> QED
      BY <2>3, <2>4
  <1>7. CASE Restart
    BY <1>7, RestartLedger DEF Ledger!Next
  <1> QED
    BY <1>3, <1>4, <1>5, <1>6, <1>7, Cases

\* However the commands of quick_submit and _charge_user interleave, fail or are
\* cut off, they amount to single charges of a ledger (task_routes.py:73-105,
\* 440-461).
THEOREM AdmissionImplementsLedger == Spec => ImplementsLedger
  BY InitLedger, NextLedger, Invariance, PTL DEF Spec, ImplementsLedger, Ledger!Spec

=============================================================================
