----------------------------- MODULE ServerToken ----------------------------
(***************************************************************************)
(* The token with which the service calls a decryption server: the token    *)
(* fields of ServerInfo (load_balancer.py) and the code that uses them,     *)
(* get_valid_token_for_server, server_request_with_token_retry and          *)
(* decrypt_with_retry (worker.py).  Servers do not share tokens, so the     *)
(* model has one.                                                           *)
(*                                                                          *)
(* A slot c stands for a coroutine that calls the server: a worker in       *)
(* process_job, or a request with a data packet, which quick_submit sends   *)
(* without the queue, the rate limiter and the semaphore.  Nothing keeps    *)
(* two of them from logging in at the same time.  A step is the code        *)
(* between two suspension points, or what the server does in between.       *)
(*                                                                          *)
(* The server is external: it issues a token for each login, refuses what   *)
(* it does not accept any more, and may revoke a token at any time (it      *)
(* restarts, the token expires, another login replaces it).  A token is a   *)
(* name that is given out again when nobody remembers it.                   *)
(*                                                                          *)
(* A definition under a comment "Fault: ..." is no part of the model: it is *)
(* a plausible defect of the definition after it, kept to show that the     *)
(* properties notice it.                                                    *)
(***************************************************************************)
EXTENDS Integers, FiniteSets

CONSTANTS
  Call,          \* slots for calls in progress
  Token,         \* names of tokens
  NoToken,       \* None
  MaxRetry,      \* max_retry; decrypt_with_retry passes 1
  RefreshHours   \* TOKEN_REFRESH_HOURS

ASSUME TokenAssumption == NoToken \notin Token

ASSUME NumberAssumption == MaxRetry \in Nat /\ RefreshHours \in Nat

VARIABLES
  token,     \* server.token
  age,       \* hours since token_fetch_time
  call,      \* per slot: where the coroutine is
  accepted,  \* the tokens the server accepts
  since      \* per call in progress: tokens issued since it was last refused, or
             \* began; no action reads it

vars == <<token, age, call, accepted, since>>

Idle == [pc |-> "idle"]

\* Waiting for the answer to a login, which the server has not yet dealt with.
Login == [pc : {"login"}, attempt : 0 .. MaxRetry]

\* The server has issued a token; or the request is on its way with a token; or
\* the server has accepted or refused that token.
WithToken ==
  [pc : {"issued", "calling", "served", "refused"},
   attempt : 0 .. MaxRetry, token : Token]

TypeOK ==
  /\ token \in Token \cup {NoToken}
  /\ age \in 0 .. RefreshHours + 1
  /\ call \in [Call -> {Idle} \cup Login \cup WithToken]
  /\ accepted \subseteq Token
  /\ since \in [Call -> SUBSET Token]

Init ==
  /\ token = NoToken
  /\ age = 0
  /\ call = [c \in Call |-> Idle]
  /\ accepted = {}
  /\ since = [c \in Call |-> {}]

Holds(c, t) == call[c] \in WithToken /\ call[c].token = t

\* Tokens somebody remembers.
Remembered == {t \in Token : t = token \/ \E c \in Call : Holds(c, t)}

-----------------------------------------------------------------------------
(* What the coroutine does.                                                *)

NeedRefresh == token = NoToken \/ age > RefreshHours

\* get_valid_token_for_server up to its suspension, or up to the request it makes
\* possible: log in when the token is missing or old, or else send it.
ObtainToken(attempt) ==
  IF NeedRefresh
    THEN [pc |-> "login", attempt |-> attempt]
    ELSE [pc |-> "calling", attempt |-> attempt, token |-> token]

\* A worker or a data packet calls decrypt_with_retry.
Begin(c) ==
  /\ call[c] = Idle
  /\ call' = [call EXCEPT ![c] = ObtainToken(0)]
  /\ UNCHANGED <<token, age, accepted, since>>

\* Fault: token_fetch_time is set with the first token only.
StoreTokenUndated(t) ==
  /\ token' = t
  /\ UNCHANGED age

\* update_token.
StoreToken(t) ==
  /\ token' = t
  /\ age' = 0

\* The answer to the login arrives: update_token, whatever another coroutine has
\* stored in the meantime, and the request goes out with the new token.
LoginAnswered(c) ==
  /\ call[c].pc = "issued"
  /\ StoreToken(call[c].token)
  /\ call' = [call EXCEPT ![c].pc = "calling"]
  /\ UNCHANGED <<accepted, since>>

\* Fault: the token is not invalidated, and the retry sends the stored one.
RetryWithoutInvalidating(c) ==
  /\ call' = [call EXCEPT ![c] = ObtainToken(call[c].attempt + 1)]
  /\ since' = [since EXCEPT ![c] = {}]
  /\ UNCHANGED <<token, age, accepted>>

\* invalidate_token, which forgets the stored token, be it the refused one or not;
\* as nothing suspends before need_refresh_token is asked again, a login follows.
Retry(c) ==
  /\ token' = NoToken
  /\ age' = 0
  /\ call' = [call EXCEPT ![c] = [pc |-> "login", attempt |-> @.attempt + 1]]
  /\ since' = [since EXCEPT ![c] = {}]
  /\ UNCHANGED accepted

\* The coroutine returns a response or raises.
End(c) ==
  /\ call' = [call EXCEPT ![c] = Idle]
  /\ since' = [since EXCEPT ![c] = {}]
  /\ UNCHANGED <<token, age, accepted>>

\* The response to a call that was served.
CallServed(c) ==
  /\ call[c].pc = "served"
  /\ End(c)

\* Fault: the attempts are not counted.
RefusedForEver(c) ==
  /\ call[c].pc = "refused"
  /\ token' = NoToken
  /\ age' = 0
  /\ call' = [call EXCEPT ![c] = [pc |-> "login", attempt |-> @.attempt]]
  /\ since' = [since EXCEPT ![c] = {}]
  /\ UNCHANGED accepted

\* Fault: off by one.
RefusedOnceMore(c) ==
  /\ call[c].pc = "refused"
  /\ IF call[c].attempt <= MaxRetry THEN Retry(c) ELSE End(c)

\* The response is a 401, or speaks of an invalid token: another attempt, or the
\* refusal becomes the result.
CallRefused(c) ==
  /\ call[c].pc = "refused"
  /\ IF call[c].attempt < MaxRetry THEN Retry(c) ELSE End(c)

\* The login or the request raises: a timeout, a redirection, a failed login, a
\* lost answer.  Nothing is stored and nothing is retried.
CallFails(c) ==
  /\ call[c] # Idle
  /\ End(c)

-----------------------------------------------------------------------------
(* What the server does, time and restarts.                                *)

\* The server answers a login with a token nobody remembers.
Issue(c) ==
  /\ call[c].pc = "login"
  /\ Token \ Remembered # {}
  /\ LET t == CHOOSE u \in Token : u \notin Remembered IN
       /\ call' = [call EXCEPT
            ![c] = [pc |-> "issued", attempt |-> @.attempt, token |-> t]]
       /\ accepted' = (accepted \cap Remembered) \cup {t}
       /\ since' = [d \in Call |->
                     IF call[d] = Idle THEN {} ELSE since[d] \cup {t}]
  /\ UNCHANGED <<token, age>>

\* The server deals with a request.
Serve(c) ==
  /\ call[c].pc = "calling"
  /\ call' = [call EXCEPT
       ![c].pc = IF call[c].token \in accepted THEN "served" ELSE "refused"]
  /\ UNCHANGED <<token, age, accepted, since>>

Revoke(t) ==
  /\ t \in accepted
  /\ accepted' = accepted \ {t}
  /\ UNCHANGED <<token, age, call, since>>

\* An hour passes.  Above RefreshHours all ages are alike.
Hour ==
  /\ age <= RefreshHours
  /\ age' = age + 1
  /\ UNCHANGED <<token, call, accepted, since>>

\* The service stops and starts again.
Restart ==
  /\ token' = NoToken
  /\ age' = 0
  /\ call' = [c \in Call |-> Idle]
  /\ since' = [c \in Call |-> {}]
  /\ UNCHANGED accepted

Progress(c) ==
  LoginAnswered(c) \/ CallServed(c) \/ CallRefused(c) \/ Issue(c) \/ Serve(c)

Next ==
  \/ \E c \in Call : Begin(c) \/ Progress(c) \/ CallFails(c)
  \/ \E t \in Token : Revoke(t)
  \/ Hour
  \/ Restart

Spec == Init /\ [][Next]_vars

\* A login and a request have a time limit of 30 seconds each (worker.py:40, 91):
\* whether or not the server does its part, the coroutine goes on.
Fairness == \A c \in Call : WF_vars(Progress(c) \/ CallFails(c))

LiveSpec == Spec /\ Fairness

-----------------------------------------------------------------------------
(* Properties.                                                             *)

\* "Force a refresh and try again" (worker.py:118): what a retry sends has been
\* issued after the refusal that caused it, although other coroutines store and
\* invalidate tokens at any moment.  Hence a server that revokes all its tokens at
\* once makes no call fail: the last refusal must be of a token issued since.
RetryUsesNewToken ==
  \A c \in Call : (call[c] \in WithToken /\ call[c].attempt > 0)
                    => call[c].token \in since[c]

\* A call ends, however often the server revokes tokens.
CallComesToAnEnd == \A c \in Call : call[c] # Idle ~> call[c] = Idle

\* Late refusals of old tokens throw away new ones, late logins overwrite newer
\* tokens, and each makes others log in.  This dies down: once the server and the
\* clock leave the tokens alone and nothing fails, there is a last login.
Undisturbed ==
  <>[][\/ \E c \in Call : Begin(c) \/ Progress(c)]_vars

LoginsDieDown ==
  Undisturbed => <>[](\A c \in Call : call[c].pc \notin {"login", "issued"})

=============================================================================
