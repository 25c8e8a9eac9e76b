-------------------------- MODULE ServerTokenProofs -------------------------
(***************************************************************************)
(* What ServerToken keeps, for every number of calls and tokens, every      *)
(* number of retries and every refresh interval.                            *)
(***************************************************************************)
EXTENDS ServerToken, TLAPS

CallState == {Idle} \cup Login \cup WithToken

IInv == TypeOK /\ RetryUsesNewToken

\* The three shapes of a call are told apart by pc, and keep what they hold.
LEMMA Shapes ==
  ASSUME NEW x \in CallState
  PROVE  /\ x = Idle <=> x.pc = "idle"
         /\ x \in Login <=> x.pc = "login"
         /\ x \in WithToken <=> x.pc \in {"issued", "calling", "served", "refused"}
         /\ x # Idle => x.attempt \in 0 .. MaxRetry
         /\ x \in WithToken => x.token \in Token
<1>1. CASE x = Idle
  BY <1>1 DEF Idle, Login, WithToken
<1>2. CASE x \in Login
  BY <1>2 DEF Idle, Login, WithToken
<1>3. CASE x \in WithToken
  BY <1>3 DEF Idle, Login, WithToken
<1> QED
  BY <1>1, <1>2, <1>3 DEF CallState

\* A token that the code may send is one.
LEMMA ObtainedState ==
  ASSUME NEW n \in 0 .. MaxRetry, token \in Token \cup {NoToken}
  PROVE  /\ ObtainToken(n) \in Login \cup WithToken
         /\ ObtainToken(n).attempt = n
<1>1. CASE NeedRefresh
  BY <1>1 DEF ObtainToken, Login
<1>2. CASE ~NeedRefresh
  <2>1. token \in Token
    BY <1>2 DEF NeedRefresh
  <2> QED
    BY <1>2, <2>1 DEF ObtainToken, WithToken
<1> QED
  BY <1>1, <1>2

\* A step that gives the call in one slot a new state x and a new set s of tokens
\* issued since, and leaves those of the others alone or adds to their sets.
LEMMA OneCall ==
  ASSUME IInv, NEW c \in Call, NEW x \in CallState, NEW s \in SUBSET Token,
         call' = [call EXCEPT ![c] = x],
         since' \in [Call -> SUBSET Token],
         since'[c] = s,
         \A d \in Call \ {c} : call[d] # Idle => since[d] \subseteq since'[d],
         token' \in Token \cup {NoToken},
         age' \in 0 .. RefreshHours + 1,
         accepted' \subseteq Token,
         (x \in WithToken /\ x.attempt > 0) => x.token \in s
  PROVE  IInv'
<1>1. TypeOK'
  BY DEF IInv, TypeOK, CallState
<1>2. ASSUME NEW d \in Call, call'[d] \in WithToken, call'[d].attempt > 0
      PROVE  call'[d].token \in since'[d]
  <2>1. CASE d = c
    <3>1. call'[d] = x
      BY <2>1 DEF IInv, TypeOK
    <3> QED
      BY <1>2, <2>1, <3>1
  <2>2. CASE d # c
    <3>1. call'[d] = call[d] /\ call[d] \in CallState
      BY <2>2 DEF IInv, TypeOK, CallState
    <3>2. call[d] # Idle
      BY <1>2, <3>1, Shapes DEF Idle
    <3> QED
      BY <1>2, <2>2, <3>1, <3>2 DEF IInv, RetryUsesNewToken
  <2> QED
    BY <2>1, <2>2
<1> QED
  BY <1>1, <1>2 DEF IInv, RetryUsesNewToken

LEMMA EndKeeps ==
  ASSUME IInv, NEW c \in Call, End(c)
  PROVE  IInv'
<1>1. Idle \in CallState /\ {} \in SUBSET Token
  BY DEF CallState
<1>2. Idle \notin WithToken
  BY <1>1, Shapes DEF Idle
<1>3. /\ since' \in [Call -> SUBSET Token]
      /\ since'[c] = {}
      /\ \A d \in Call \ {c} : since'[d] = since[d]
  BY DEF End, IInv, TypeOK
<1> QED
  BY <1>1, <1>2, <1>3, OneCall DEF End, IInv, TypeOK

LEMMA RetryKeeps ==
  ASSUME IInv, NEW c \in Call, call[c].pc = "refused", call[c].attempt < MaxRetry,
         Retry(c)
  PROVE  IInv'
<1> DEFINE x == [pc |-> "login", attempt |-> call[c].attempt + 1]
<1>1. call[c] \in CallState
  BY DEF IInv, TypeOK, CallState
<1>2. call[c].attempt \in 0 .. MaxRetry
  BY <1>1, Shapes
<1>3. x \in CallState /\ x \notin WithToken
  <2>1. x \in Login
    BY <1>2, NumberAssumption DEF Login
  <2>2. x \in CallState
    BY <2>1 DEF CallState
  <2> QED
    BY <2>2, Shapes
<1>4. /\ since' \in [Call -> SUBSET Token]
      /\ since'[c] = {}
      /\ \A d \in Call \ {c} : since'[d] = since[d]
  BY DEF Retry, IInv, TypeOK
<1>5. call' = [call EXCEPT ![c] = x]
  BY DEF Retry
<1>6. /\ token' \in Token \cup {NoToken}
      /\ age' \in 0 .. RefreshHours + 1
      /\ accepted' \subseteq Token
  BY NumberAssumption DEF Retry, IInv, TypeOK
<1> HIDE DEF x
<1> QED
  BY <1>3, <1>4, <1>5, <1>6, OneCall

LEMMA IssueKeeps ==
  ASSUME IInv, NEW c \in Call, Issue(c)
  PROVE  IInv'
<1> DEFINE t == CHOOSE u \in Token : u \notin Remembered
           x == [pc |-> "issued", attempt |-> call[c].attempt, token |-> t]
<1>1. call[c] \in CallState /\ call[c] # Idle
  BY DEF Issue, IInv, TypeOK, CallState, Idle
<1>2. call[c].attempt \in 0 .. MaxRetry
  BY <1>1, Shapes
<1>3. t \in Token
  BY DEF Issue
<1> HIDE DEF t
<1>4. x \in CallState
  BY <1>2, <1>3 DEF CallState, WithToken
<1>5. /\ since' \in [Call -> SUBSET Token]
      /\ t \in since'[c]
      /\ \A d \in Call \ {c} : call[d] # Idle => since[d] \subseteq since'[d]
  <2>1. since' = [d \in Call |-> IF call[d] = Idle THEN {} ELSE since[d] \cup {t}]
    BY DEF Issue, t
  <2> QED
    BY <1>1, <1>3, <2>1 DEF IInv, TypeOK
<1>6. call' = [call EXCEPT ![c] = x]
  BY DEF Issue, t
<1>7. /\ token' \in Token \cup {NoToken}
      /\ age' \in 0 .. RefreshHours + 1
      /\ accepted' \subseteq Token
  <2>1. accepted' = (accepted \cap Remembered) \cup {t}
    BY DEF Issue, t
  <2> QED
    BY <1>3, <2>1 DEF Issue, IInv, TypeOK
<1>8. x.token \in since'[c]
  BY <1>5
<1>9. since'[c] \in SUBSET Token
  BY <1>5
<1> HIDE DEF x
<1> QED
  BY <1>4, <1>5, <1>6, <1>7, <1>8, <1>9, OneCall

\* A step that changes no more of a call than how far it has got with its token.
LEMMA PcKeeps ==
  ASSUME IInv, NEW c \in Call, call[c] \in WithToken,
         NEW p \in {"calling", "served", "refused"},
         call' = [call EXCEPT ![c].pc = p], since' = since,
         token' \in Token \cup {NoToken},
         age' \in 0 .. RefreshHours + 1,
         accepted' = accepted
  PROVE  IInv'
<1> DEFINE x == [call[c] EXCEPT !.pc = p]
<1>1. x \in WithToken /\ x.token = call[c].token /\ x.attempt = call[c].attempt
  BY DEF WithToken
<1>2. x \in CallState
  BY <1>1 DEF CallState
<1>3. (x \in WithToken /\ x.attempt > 0) => x.token \in since[c]
  BY <1>1 DEF IInv, RetryUsesNewToken
<1>4. call' = [call EXCEPT ![c] = x]
  OBVIOUS
<1> HIDE DEF x
<1> QED
  BY <1>2, <1>3, <1>4, OneCall DEF IInv, TypeOK

LEMMA Invariance == IInv /\ [Next]_vars => IInv'
<1> SUFFICES ASSUME IInv, [Next]_vars
             PROVE  IInv'
  OBVIOUS
<1>1. ASSUME NEW c \in Call, Begin(c)
      PROVE  IInv'
  <2>1. 0 \in 0 .. MaxRetry
    BY NumberAssumption
  <2>2. ObtainToken(0) \in Login \cup WithToken /\ ObtainToken(0).attempt = 0
    BY <2>1, ObtainedState DEF IInv, TypeOK
  <2> DEFINE x == ObtainToken(0)
  <2>3. x \in CallState /\ ~(x.attempt > 0)
    BY <2>2 DEF CallState
  <2>4. call' = [call EXCEPT ![c] = x]
    BY <1>1 DEF Begin
  <2>5. /\ since' = since /\ since \in [Call -> SUBSET Token]
        /\ since[c] \in SUBSET Token
        /\ token' \in Token \cup {NoToken}
        /\ age' \in 0 .. RefreshHours + 1
        /\ accepted' \subseteq Token
    BY <1>1 DEF Begin, IInv, TypeOK
  <2> HIDE DEF x
  <2> QED
    BY <2>3, <2>4, <2>5, OneCall
<1>2. ASSUME NEW c \in Call, LoginAnswered(c)
      PROVE  IInv'
  <2>1. call[c] \in WithToken /\ call[c].token \in Token
    BY <1>2, Shapes DEF LoginAnswered, IInv, TypeOK, CallState
  <2>2. /\ token' \in Token \cup {NoToken}
        /\ age' \in 0 .. RefreshHours + 1
    BY <1>2, <2>1, NumberAssumption DEF LoginAnswered, StoreToken
  <2> QED
    BY <1>2, <2>1, <2>2, PcKeeps DEF LoginAnswered
<1>3. ASSUME NEW c \in Call, CallServed(c)
      PROVE  IInv'
  BY <1>3, EndKeeps DEF CallServed
<1>4. ASSUME NEW c \in Call, CallRefused(c)
      PROVE  IInv'
  BY <1>4, EndKeeps, RetryKeeps DEF CallRefused
<1>5. ASSUME NEW c \in Call, CallFails(c)
      PROVE  IInv'
  BY <1>5, EndKeeps DEF CallFails
<1>6. ASSUME NEW c \in Call, Issue(c)
      PROVE  IInv'
  BY <1>6, IssueKeeps
<1>7. ASSUME NEW c \in Call, Serve(c)
      PROVE  IInv'
  <2>1. call[c] \in WithToken
    BY <1>7, Shapes DEF Serve, IInv, TypeOK, CallState
  <2>2. PICK p \in {"calling", "served", "refused"} :
          call' = [call EXCEPT ![c].pc = p]
    BY <1>7 DEF Serve
  <2> QED
    BY <1>7, <2>1, <2>2, PcKeeps DEF Serve, IInv, TypeOK
<1>8. ASSUME NEW t \in Token, Revoke(t)
      PROVE  IInv'
  BY <1>8 DEF Revoke, IInv, TypeOK, RetryUsesNewToken
<1>9. CASE Hour
  <2>1. age' \in 0 .. RefreshHours + 1
    BY <1>9, NumberAssumption DEF Hour, IInv, TypeOK
  <2> QED
    BY <1>9, <2>1 DEF Hour, IInv, TypeOK, RetryUsesNewToken
<1>10. CASE Restart
  <2>1. \A c \in Call : call'[c] = Idle
    BY <1>10 DEF Restart
  <2>2. Idle \notin WithToken
    BY Shapes DEF CallState, Idle
  <2>3. TypeOK'
    BY <1>10, NumberAssumption DEF Restart, IInv, TypeOK
  <2> QED
    BY <2>1, <2>2, <2>3 DEF IInv, RetryUsesNewToken
<1>11. CASE UNCHANGED vars
  BY <1>11 DEF vars, IInv, TypeOK, RetryUsesNewToken
<1> QED
  BY <1>1, <1>2, <1>3, <1>4, <1>5, <1>6, <1>7, <1>8, <1>9, <1>10, <1>11
  DEF Next, Progress

LEMMA Initially == Init => IInv
<1> SUFFICES ASSUME Init
             PROVE  IInv
  OBVIOUS
<1>1. Idle \notin WithToken
  BY Shapes DEF CallState, Idle
<1> QED
  BY <1>1, NumberAssumption DEF Init, IInv, TypeOK, RetryUsesNewToken

\* The tokens, the calls and the set of accepted tokens keep their types.
THEOREM TypeCorrect == Spec => []TypeOK
<1>1. IInv => TypeOK
  BY DEF IInv
<1> QED
  BY <1>1, Initially, Invariance, PTL DEF Spec

\* A retry of server_request_with_token_retry (worker.py:89-125) sends a token that
\* was issued after the refusal that caused it, whatever other coroutines do with
\* the stored token meanwhile.
THEOREM RetriesUseNewTokens == Spec => []RetryUsesNewToken
<1>1. IInv => RetryUsesNewToken
  BY DEF IInv
<1> QED
  BY <1>1, Initially, Invariance, PTL DEF Spec

=============================================================================
