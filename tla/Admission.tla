----------------------------- MODULE Admission ------------------------------
(***************************************************************************)
(* How quick_submit lets a request in (routes/task_routes.py:342-461):      *)
(* authentication by token or password, parsing of the packet, the check of *)
(* the quota and the charge; and login, which makes the tokens.             *)
(*                                                                          *)
(* Accounts do not interact, so the model has one, a row of sys_user; it is *)
(* edited by administrators of another program at any time.  A step is what *)
(* the database or Redis does for a command, with the code up to the next   *)
(* command.  Only where a second may pass while an answer is on its way do  *)
(* the command and the arrival of its answer have a step each.              *)
(*                                                                          *)
(* Tokens are distinct, as their ids are meant to be; the name of one is    *)
(* used again when nothing knows it any more.                               *)
(*                                                                          *)
(* A definition under a comment "Fault: ..." is no part of the model: it is *)
(* a plausible defect of the definition after it, kept to show that the     *)
(* properties notice it.                                                    *)
(***************************************************************************)
EXTENDS Integers, FiniteSets

CONSTANTS
  Req,          \* slots for requests in progress
  NoReq,        \* nobody
  Token,        \* names of tokens
  Input,        \* values of the parameter hex
  Useful,       \* those parse_packet finds valid
  Totals,       \* values administrators give to total_requests
  TokenExpire,  \* TOKEN_EXPIRE_SECONDS, in units of time
  CacheExpire,  \* the 1800 seconds of validate_token, in units of time
  ReplyDelay    \* longest delay of an answer of Redis, in units of time

Unlimited == -1  \* total_requests of an account without limit

NoTotal == -2    \* total_requests is NULL

ASSUME NameAssumption == NoReq \notin Req /\ IsFiniteSet(Req) /\ Useful \subseteq Input

ASSUME TotalAssumption == Totals \subseteq Nat \cup {Unlimited, NoTotal}

ASSUME TimeAssumption ==
  TokenExpire \in Nat \ {0} /\ CacheExpire \in Nat \ {0} /\ ReplyDelay \in Nat

VARIABLES
  account,  \* the row of sys_user
  lock,     \* the request whose transaction has locked the row
  ttl,      \* per token: time that user_token:<token> has left in Redis
  cached,   \* per token: time that its entry in _token_cache has left
  storing,  \* tokens that a login is about to store
  req,      \* per slot: where its request is
  age,      \* per token: time since it was stored; no action reads it
  paid,     \* requests let in after a charge; no action reads it
  wasted,   \* charges of requests that were not let in; no action reads it
  active    \* requests during which the account has been active; no action
            \* reads it

rows == <<account, lock>>
tokens == <<ttl, cached, storing, age>>
vars == <<rows, tokens, req, paid, wasted, active>>

\* A second from which on a token's age no longer matters.
MaxAge == TokenExpire + ReplyDelay + CacheExpire

Status == {"active", "disabled", "deleted"}

\* remaining_requests counts the requests used (task_routes.py:447), not those that
\* remain, as its comment has it (models.py:23).
Account == [status : Status, total : Totals, used : Nat]

\* Before GET of the token; with the answer to GET on its way; before get_user
\* for the status; before the SELECT that also checks the password.
Authenticating ==
  [pc : {"token"}, token : Token] \cup
  [pc : {"answer"}, token : Token, found : BOOLEAN, delay : 0 .. ReplyDelay] \cup
  [pc : {"user"}, token : Token] \cup
  [pc : {"password"}, correct : BOOLEAN]

\* Before get_user for the quota, with what was read before; before UPDATE; before
\* COMMIT; before SELECT; or let in, so that the load balancer is next.
Charging ==
  [pc : {"quota"}, packet : Useful, total : Totals, used : Nat] \cup
  [pc : {"charge", "select", "admitted"}, packet : Useful] \cup
  [pc : {"commit"}, packet : Useful, matched : BOOLEAN]

Idle == [pc |-> "idle"]

TypeOK ==
  /\ account \in Account
  /\ lock \in Req \cup {NoReq}
  /\ ttl \in [Token -> 0 .. TokenExpire]
  /\ cached \in [Token -> 0 .. CacheExpire]
  /\ storing \subseteq Token
  /\ req \in [Req -> {Idle} \cup Authenticating \cup Charging]
  /\ age \in [Token -> 0 .. MaxAge]
  /\ paid \in Nat
  /\ wasted \in Nat
  /\ active \subseteq Req

Init ==
  /\ account \in [status : {"active"}, total : Totals, used : {0}]
  /\ lock = NoReq
  /\ ttl = [k \in Token |-> 0]
  /\ cached = [k \in Token |-> 0]
  /\ storing = {}
  /\ req = [r \in Req |-> Idle]
  /\ age = [k \in Token |-> 0]
  /\ paid = 0
  /\ wasted = 0
  /\ active = {}

At(r, pc) == req[r].pc = pc

Goto(r, state) == req' = [req EXCEPT ![r] = state]

\* A stage of a request whose packet has been parsed.
With(r, pc) == [pc |-> pc, packet |-> req[r].packet]

\* No charge, nothing counted.
NothingCharged == UNCHANGED <<account, lock, paid, wasted>>

-----------------------------------------------------------------------------
(* login and generate_user_token.                                          *)

Sent(k) ==
  \E r \in Req : req[r].pc \in {"token", "answer", "user"} /\ req[r].token = k

\* The password is right and the account active: a new token is made.
Login(k) ==
  /\ account.status = "active"
  /\ k \notin storing /\ ttl[k] = 0 /\ cached[k] = 0 /\ ~Sent(k)
  /\ storing' = storing \cup {k}
  /\ UNCHANGED <<ttl, cached, age, req>>
  /\ NothingCharged

\* SETEX; the login returns the token.
StoreToken(k) ==
  /\ k \in storing
  /\ storing' = storing \ {k}
  /\ ttl' = [ttl EXCEPT ![k] = TokenExpire]
  /\ age' = [age EXCEPT ![k] = 0]
  /\ UNCHANGED <<cached, req>>
  /\ NothingCharged

\* SETEX raises before it is executed; afterwards it makes no difference to
\* anybody but the client.
StoreFails(k) ==
  /\ k \in storing
  /\ storing' = storing \ {k}
  /\ UNCHANGED <<ttl, cached, age, req>>
  /\ NothingCharged

-----------------------------------------------------------------------------
(* Authentication and parsing.                                             *)

\* Fault: each use renews the entry in the cache.
BeginRenewing(r, k) ==
  /\ At(r, "idle")
  /\ k \notin storing
  /\ cached' = [cached EXCEPT ![k] = IF @ > 0 THEN CacheExpire ELSE 0]
  /\ Goto(r, [pc |-> IF cached[k] > 0 THEN "user" ELSE "token", token |-> k])
  /\ UNCHANGED <<ttl, storing, age>>
  /\ NothingCharged

\* A request with a token, which validate_token looks up in its cache.
BeginWithToken(r, k) ==
  /\ At(r, "idle")
  /\ k \notin storing
  /\ Goto(r, [pc |-> IF cached[k] > 0 THEN "user" ELSE "token", token |-> k])
  /\ UNCHANGED tokens
  /\ NothingCharged

\* A request with name and password.
BeginWithPassword(r) ==
  /\ At(r, "idle")
  /\ \E correct \in BOOLEAN : Goto(r, [pc |-> "password", correct |-> correct])
  /\ UNCHANGED tokens
  /\ NothingCharged

\* GET of user_token:<token>.
GetToken(r) ==
  /\ At(r, "token")
  /\ Goto(r, [pc |-> "answer", token |-> req[r].token,
              found |-> ttl[req[r].token] > 0, delay |-> 0])
  /\ UNCHANGED tokens
  /\ NothingCharged

\* The answer arrives: the token goes into the cache, whatever has become of it in
\* Redis since; or 401.
TokenAnswer(r) ==
  /\ At(r, "answer")
  /\ IF req[r].found
       THEN /\ cached' = [cached EXCEPT ![req[r].token] = CacheExpire]
            /\ Goto(r, [pc |-> "user", token |-> req[r].token])
       ELSE /\ Goto(r, Idle)
            /\ UNCHANGED cached
  /\ UNCHANGED <<ttl, storing, age>>
  /\ NothingCharged

\* Fault: a token is proof enough.
ReadUserByToken(r) ==
  /\ At(r, "user") \/ At(r, "password")
  /\ IF /\ At(r, "password") => account.status = "active" /\ req[r].correct
        /\ account.status # "deleted"
       THEN \E p \in Input :
              Goto(r, IF p \in Useful
                        THEN [pc |-> "quota", packet |-> p,
                              total |-> account.total, used |-> account.used]
                        ELSE Idle)
       ELSE Goto(r, Idle)
  /\ UNCHANGED tokens
  /\ NothingCharged

\* The row is read, for its status, and with a password to compare it: 401, or
\* the packet is parsed: 400, or on to the quota.
ReadUser(r) ==
  /\ At(r, "user") \/ At(r, "password")
  /\ IF account.status = "active" /\ (At(r, "password") => req[r].correct)
       THEN \E p \in Input :
              Goto(r, IF p \in Useful
                        THEN [pc |-> "quota", packet |-> p,
                              total |-> account.total, used |-> account.used]
                        ELSE Idle)
       ELSE Goto(r, Idle)
  /\ UNCHANGED tokens
  /\ NothingCharged

-----------------------------------------------------------------------------
(* The quota and _charge_user.                                             *)

\* Fault: the quota is not read again, what came with the status is used.
ReadQuotaOnce(r) ==
  /\ At(r, "quota")
  /\ LET u == req[r] IN
       Goto(r, IF u.total \in {Unlimited, NoTotal} THEN With(r, "admitted")
               ELSE IF u.used >= u.total THEN Idle
               ELSE With(r, "charge"))
  /\ UNCHANGED tokens
  /\ NothingCharged

\* get_user again: its answer, or when the account has just been deleted the one
\* before, decides.  Without a limit there is no charge; at the limit, 403.
ReadQuota(r) ==
  /\ At(r, "quota")
  /\ LET u == IF account.status = "deleted" THEN req[r] ELSE account IN
       Goto(r, IF u.total \in {Unlimited, NoTotal} THEN With(r, "admitted")
               ELSE IF u.used >= u.total THEN Idle
               ELSE With(r, "charge"))
  /\ UNCHANGED tokens
  /\ NothingCharged

\* Fault: the UPDATE relies on the check made before.
ChargeAnyway == account.status # "deleted"

\* The WHERE clause of the UPDATE; a comparison with NULL is not true.
Chargeable ==
  /\ account.status # "deleted"
  /\ \/ account.total = Unlimited
     \/ account.total # NoTotal /\ account.used < account.total

\* UPDATE waits for the lock of the row and counts the request if it may.
Update(r) ==
  /\ At(r, "charge")
  /\ lock = NoReq
  /\ lock' = r
  /\ Goto(r, [pc |-> "commit", packet |-> req[r].packet, matched |-> Chargeable])
  /\ UNCHANGED <<account, tokens, paid, wasted>>

\* What COMMIT makes of the row when the UPDATE has found it.
Charged(matched) ==
  account' = IF matched THEN [account EXCEPT !.used = @ + 1] ELSE account

\* COMMIT; if no row was updated, 403.
Commit(r) ==
  /\ At(r, "commit")
  /\ Charged(req[r].matched)
  /\ lock' = NoReq
  /\ Goto(r, IF req[r].matched THEN With(r, "select") ELSE Idle)
  /\ UNCHANGED <<tokens, paid, wasted>>

\* COMMIT raises though it has been executed: _charge_user reports failure, 403.
CommitAnswerLost(r) ==
  /\ At(r, "commit")
  /\ Charged(req[r].matched)
  /\ lock' = NoReq
  /\ Goto(r, Idle)
  /\ wasted' = IF req[r].matched THEN wasted + 1 ELSE wasted
  /\ UNCHANGED <<tokens, paid>>

\* Fault: the charge is tried again after a failure.
ChargeFailsAndRetries(r) ==
  /\ At(r, "charge") \/ At(r, "commit")
  /\ lock' = IF lock = r THEN NoReq ELSE lock
  /\ \E done \in BOOLEAN :
       Charged(done /\ At(r, "commit") /\ req[r].matched)
  /\ Goto(r, With(r, "charge"))
  /\ UNCHANGED <<tokens, paid, wasted>>

\* UPDATE raises, perhaps because it has waited too long for the lock, or COMMIT
\* does and the database rolls back: 403.
ChargeFails(r) ==
  /\ At(r, "charge") \/ At(r, "commit")
  /\ lock' = IF lock = r THEN NoReq ELSE lock
  /\ Goto(r, Idle)
  /\ UNCHANGED <<account, tokens, paid, wasted>>

\* The SELECT after COMMIT, whose result is not used.
SelectUsed(r) ==
  /\ At(r, "select")
  /\ Goto(r, With(r, "admitted"))
  /\ paid' = paid + 1
  /\ UNCHANGED <<rows, tokens, wasted>>

\* It raises: _charge_user reports failure, 403.
SelectFails(r) ==
  /\ At(r, "select")
  /\ Goto(r, Idle)
  /\ wasted' = wasted + 1
  /\ UNCHANGED <<rows, tokens, paid>>

\* A read raises: 500.
ReadFails(r) ==
  /\ req[r] \in Authenticating \/ At(r, "quota")
  /\ Goto(r, Idle)
  /\ UNCHANGED tokens
  /\ NothingCharged

\* The rest of quick_submit.
Leave(r) ==
  /\ At(r, "admitted")
  /\ Goto(r, Idle)
  /\ UNCHANGED tokens
  /\ NothingCharged

-----------------------------------------------------------------------------
(* Administrators, time and restarts.                                      *)

\* Another program edits the row, when no transaction has locked it.
Edit ==
  /\ lock = NoReq
  /\ account.status # "deleted"
  /\ \E s \in Status, n \in Totals :
       account' = [account EXCEPT !.status = s, !.total = n]
  /\ UNCHANGED <<lock, tokens, req, paid, wasted>>

\* Fault: what has expired goes on expiring.
LeftNegative(n) == n - 1

\* The time left after a unit of time.
Left(n) == IF n = 0 THEN 0 ELSE n - 1

Tick ==
  /\ \A r \in Req : At(r, "answer") => req[r].delay < ReplyDelay
  /\ req' = [r \in Req |->
              IF At(r, "answer") THEN [req[r] EXCEPT !.delay = @ + 1] ELSE req[r]]
  /\ ttl' = [k \in Token |-> Left(ttl[k])]
  /\ cached' = [k \in Token |-> Left(cached[k])]
  /\ age' = [k \in Token |-> IF age[k] = MaxAge THEN MaxAge ELSE age[k] + 1]
  /\ UNCHANGED storing
  /\ NothingCharged

\* Charges that are committed and whose requests are yet to be let in.
Pending == {r \in Req : At(r, "select")}

\* The process ends and starts again.  The database rolls back what is not
\* committed, unless COMMIT has been executed.
Restart ==
  /\ \E done \in BOOLEAN :
       LET late == done /\ lock # NoReq /\ req[lock].matched IN
         /\ Charged(late)
         /\ wasted' = wasted + Cardinality(Pending) + (IF late THEN 1 ELSE 0)
  /\ lock' = NoReq
  /\ req' = [r \in Req |-> Idle]
  /\ cached' = [k \in Token |-> 0]
  /\ storing' = {}
  /\ UNCHANGED <<ttl, age, paid>>

Step(r) ==
  \/ \E k \in Token : BeginWithToken(r, k)
  \/ BeginWithPassword(r)
  \/ GetToken(r) \/ TokenAnswer(r) \/ ReadUser(r) \/ ReadFails(r)
  \/ ReadQuota(r) \/ Update(r) \/ Commit(r) \/ SelectUsed(r)
  \/ CommitAnswerLost(r) \/ ChargeFails(r) \/ SelectFails(r)
  \/ Leave(r)

\* What happened to the account while the requests were in progress.
RecordActivity ==
  active' = {r \in Req : /\ req'[r] # Idle
                         /\ r \in active \/ account'.status = "active"}

Next ==
  /\ \/ \E r \in Req : Step(r)
     \/ \E k \in Token : Login(k) \/ StoreToken(k) \/ StoreFails(k)
     \/ Edit
     \/ Tick
     \/ Restart
  /\ RecordActivity

Spec == Init /\ [][Next]_vars

-----------------------------------------------------------------------------
(* Properties.                                                             *)

\* _charge_user's promise (task_routes.py:73-90): however requests, failures and
\* edits interleave, a charge never takes an account above its limit.
QuotaKept ==
  [][account'.used # account.used =>
       /\ account'.used = account.used + 1
       /\ account'.total = Unlimited \/ account'.used <= account'.total]_vars

\* Nobody gets in on a charge of somebody else, and a charge is lost only with a
\* request that _charge_user has reported as failed, or that died with the
\* process (task_routes.py:91-105, 455-461).
ChargesAccountedFor == account.used = paid + wasted + Cardinality(Pending)

\* Two checks of an account's status would be one too few if they were far apart:
\* a request gets in only if the account was active at some time while the
\* request was in progress, though the status is not read again with the quota
\* (task_routes.py:385-390, 442-445).
AdmittedWhileActive == \A r \in Req : At(r, "admitted") => r \in active

\* The caches of validate_token (task_routes.py:176-197) add up: a token is
\* accepted for at most its time in Redis, the delay of Redis' answer, and its
\* time in memory, in whatever order answers arrive.
TokenExpires ==
  [][\A r \in Req : At(r, "user")' /\ ~At(r, "user")
       => age[req'[r].token] < MaxAge]_vars

-----------------------------------------------------------------------------
(* What it comes to.                                                       *)

Standing(r) ==
  CASE At(r, "quota") -> IF req[r].total \in {Unlimited, NoTotal}
                           THEN "unlimited" ELSE "limited"
    [] At(r, "charge") \/ At(r, "commit") -> "due"
    [] At(r, "select") -> "charged"
    [] At(r, "admitted") -> "in"
    [] OTHER -> "out"

Ledger == INSTANCE QuotaLedger WITH
  row <- account,
  stage <- [r \in Req |-> Standing(r)],
  lost <- wasted

\* Five commands, each of which may fail before or after it is executed, amount to
\* one charge in one step, within the limit in force at that moment and made by a
\* request of an account that was active; and nobody gets in uncharged unless the
\* account has no limit when the quota is read, or had none before it was deleted
\* (task_routes.py:440-461, 73-105).
ImplementsLedger == Ledger!Spec

=============================================================================
