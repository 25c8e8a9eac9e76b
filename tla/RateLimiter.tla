---------------------------- MODULE RateLimiter ----------------------------
(***************************************************************************)
(* TokenBucketRateLimiter of app/rate_limiter.py, which process_job acquires *)
(* before it calls a decryption server.                                     *)
(*                                                                          *)
(* acquire runs under an asyncio.Lock, so one caller is inside at a time,   *)
(* and it keeps the lock while it sleeps.  Units: a token is worth Token    *)
(* units and one unit flows in per instant, so an instant is                *)
(* 1 / (rate * Token) seconds; tokens, elapsed * rate and wait_time * rate  *)
(* become integers.                                                         *)
(***************************************************************************)
EXTENDS Integers

CONSTANTS
  Rate,    \* rate: tokens per second, and the size of the bucket
  Token    \* the units of one token: how fine the clock is

ASSUME RateAssumption == Rate \in Nat \ {0} /\ Token \in Nat \ {0}

VARIABLES
  now,         \* time.monotonic()
  tokens,      \* self.tokens, in units
  lastRefill,  \* self.last_refill
  wakeAt,      \* when the asyncio.sleep inside acquire is over, -1: nobody sleeps
  granted,     \* calls of acquire that have returned (not in the code)
  slept        \* time that completed sleeps have asked for (not in the code)

vars == <<now, tokens, lastRefill, wakeAt, granted, slept>>

Bucket == Rate * Token

TypeOK ==
  /\ now \in Nat
  /\ tokens \in 0 .. Bucket
  /\ lastRefill \in 0 .. now
  /\ wakeAt \in Nat \cup {-1}
  /\ granted \in Nat
  /\ slept \in Nat

Init ==
  /\ now = 0
  /\ tokens = Bucket
  /\ lastRefill = 0
  /\ wakeAt = -1
  /\ granted = 0
  /\ slept = 0

Asleep == wakeAt # -1

\* Fault: the bucket has no bottom to its memory, elapsed time is not capped.
RefilledWithoutCap == tokens + (now - lastRefill)

\* What is in the bucket after the refill at the start of acquire.
Refilled ==
  IF tokens + (now - lastRefill) < Bucket
    THEN tokens + (now - lastRefill)
    ELSE Bucket

\* acquire finds a token and returns.
Acquire ==
  /\ ~Asleep
  /\ Refilled >= Token
  /\ tokens' = Refilled - Token
  /\ lastRefill' = now
  /\ granted' = granted + 1
  /\ UNCHANGED <<now, wakeAt, slept>>

\* acquire finds less than a token and sleeps for the rest, holding the lock.
WaitForToken ==
  /\ ~Asleep
  /\ Refilled < Token
  /\ tokens' = Refilled
  /\ lastRefill' = now
  /\ wakeAt' = now + (Token - Refilled)
  /\ UNCHANGED <<now, granted, slept>>

\* Fault: the token that was waited for stays in the bucket.
WakeUpKeepingTokens ==
  /\ Asleep
  /\ now >= wakeAt
  /\ tokens' = Token
  /\ wakeAt' = -1
  /\ granted' = granted + 1
  /\ slept' = slept + (wakeAt - lastRefill)
  /\ UNCHANGED <<now, lastRefill>>

\* The sleep is over and acquire returns; last_refill still says when the sleep
\* began.
WakeUp ==
  /\ Asleep
  /\ now >= wakeAt
  /\ tokens' = 0
  /\ wakeAt' = -1
  /\ granted' = granted + 1
  /\ slept' = slept + (wakeAt - lastRefill)
  /\ UNCHANGED <<now, lastRefill>>

Tick ==
  /\ now' = now + 1
  /\ UNCHANGED <<tokens, lastRefill, wakeAt, granted, slept>>

Next == Acquire \/ WaitForToken \/ WakeUp \/ Tick

Spec == Init /\ [][Next]_vars

-----------------------------------------------------------------------------
(* Properties.                                                             *)

\* Over any time from the start, acquire returns at most for the bucket it starts
\* with and twice the tokens that flow in: whatever the pattern of calls, the
\* credit for the time of a sleep is given once as the token that is waited for
\* and at most once more as a refill.
AtMostTwiceTheRate == granted * Token <= Bucket + 2 * now

\* "rate: requests allowed per second" (rate_limiter.py:16): the bucket it starts
\* with, then one token's worth of time for each call.
AtMostTheRate == granted * Token <= Bucket + now

=============================================================================
