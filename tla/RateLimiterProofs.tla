------------------------- MODULE RateLimiterProofs -------------------------
(***************************************************************************)
(* The long-run rate of the token bucket, and its rate in every window of   *)
(* time, for every rate and every fineness of the clock.                    *)
(***************************************************************************)
EXTENDS RateWindow, TLAPS

\* The bound does not mention the bucket's content, so it is not inductive.  This
\* is: what was granted and what is left has come from the first bucket, from the
\* time before the last refill, or from time slept; and the time slept, with the
\* sleep in progress, fits into the time that has passed.
Credit == granted * Token + tokens <= Bucket + lastRefill + slept

SleepsFit ==
  /\ slept <= now
  /\ Asleep => /\ slept <= lastRefill
               /\ tokens < Token
               /\ wakeAt = lastRefill + (Token - tokens)

RateInv == TypeOK /\ Credit /\ SleepsFit

\* The bucket holds at least one token.
LEMMA BucketType == Bucket \in Nat /\ Token <= Bucket
<1>1. \A r, t \in Nat \ {0} : r * t \in Nat /\ t <= r * t
  OBVIOUS
<1> QED  BY <1>1, RateAssumption DEF Bucket

\* One more call costs one more token.
LEMMA OneMore ==
  ASSUME NEW g \in Nat, NEW t \in Nat
  PROVE  (g + 1) * t = g * t + t /\ g * t \in Nat
OBVIOUS

\* The refill never overfills the bucket, and adds at most the elapsed time.
LEMMA RefilledBounds ==
  ASSUME TypeOK
  PROVE  /\ Refilled \in 0 .. Bucket
         /\ Refilled <= tokens + (now - lastRefill)
BY BucketType DEF TypeOK, Refilled

LEMMA InitRateInv == Init => RateInv
BY BucketType, RateAssumption DEF Init, RateInv, TypeOK, Credit, SleepsFit, Asleep

LEMMA AcquireStep ==
  ASSUME RateInv, Acquire
  PROVE  RateInv'
<1>1. /\ granted \in Nat /\ slept \in Nat /\ Token \in Nat \ {0} /\ now \in Nat
      /\ lastRefill \in 0 .. now /\ tokens \in 0 .. Bucket /\ Bucket \in Nat
      /\ wakeAt = -1
  BY RateAssumption, BucketType DEF RateInv, TypeOK, Acquire, Asleep
<1>2. Refilled \in 0 .. Bucket /\ Refilled <= tokens + (now - lastRefill)
  BY RefilledBounds DEF RateInv
<1>3. /\ Refilled >= Token
      /\ tokens' = Refilled - Token /\ lastRefill' = now /\ granted' = granted + 1
      /\ now' = now /\ wakeAt' = wakeAt /\ slept' = slept
  BY DEF Acquire
<1>4. TypeOK'
  BY <1>1, <1>2, <1>3 DEF TypeOK, Bucket
<1>5. Credit'
  <2>1. granted * Token + tokens <= Bucket + lastRefill + slept
    BY DEF RateInv, Credit
  <2>2. granted' * Token = granted * Token + Token /\ granted * Token \in Nat
    BY <1>1, <1>3, OneMore
  <2>3. granted' * Token + tokens' <= Bucket + lastRefill' + slept'
    BY <1>1, <1>2, <1>3, <2>1, <2>2
  <2> QED  BY <2>3 DEF Credit, Bucket
<1>6. SleepsFit'
  BY <1>1, <1>3 DEF RateInv, SleepsFit, Asleep
<1> QED  BY <1>4, <1>5, <1>6 DEF RateInv

LEMMA WaitForTokenStep ==
  ASSUME RateInv, WaitForToken
  PROVE  RateInv'
<1>1. /\ granted \in Nat /\ slept \in Nat /\ Token \in Nat \ {0} /\ now \in Nat
      /\ lastRefill \in 0 .. now /\ tokens \in 0 .. Bucket /\ Bucket \in Nat
  BY RateAssumption, BucketType DEF RateInv, TypeOK
<1>2. Refilled \in 0 .. Bucket /\ Refilled <= tokens + (now - lastRefill)
  BY RefilledBounds DEF RateInv
<1>3. /\ Refilled < Token
      /\ tokens' = Refilled /\ lastRefill' = now
      /\ wakeAt' = now + (Token - Refilled)
      /\ now' = now /\ granted' = granted /\ slept' = slept
  BY DEF WaitForToken
<1>4. TypeOK'
  BY <1>1, <1>2, <1>3 DEF TypeOK, Bucket
<1>5. Credit'
  <2>1. granted * Token + tokens <= Bucket + lastRefill + slept
    BY DEF RateInv, Credit
  <2>2. granted * Token \in Nat
    BY <1>1, OneMore
  <2>3. granted * Token + tokens' <= Bucket + lastRefill' + slept
    BY <1>1, <1>2, <1>3, <2>1, <2>2
  <2> QED  BY <1>3, <2>3 DEF Credit, Bucket
<1>6. SleepsFit'
  BY <1>1, <1>2, <1>3 DEF RateInv, SleepsFit, Asleep
<1> QED  BY <1>4, <1>5, <1>6 DEF RateInv

LEMMA WakeUpStep ==
  ASSUME RateInv, WakeUp
  PROVE  RateInv'
<1>1. /\ granted \in Nat /\ slept \in Nat /\ Token \in Nat \ {0} /\ now \in Nat
      /\ lastRefill \in 0 .. now /\ tokens \in 0 .. Bucket /\ Bucket \in Nat
      /\ wakeAt \in Nat \cup {-1}
  BY RateAssumption, BucketType DEF RateInv, TypeOK
<1>2. /\ slept <= lastRefill
      /\ tokens < Token
      /\ wakeAt = lastRefill + (Token - tokens)
  BY DEF RateInv, SleepsFit, WakeUp
<1>3. /\ now >= wakeAt
      /\ tokens' = 0 /\ wakeAt' = -1 /\ granted' = granted + 1
      /\ slept' = slept + (wakeAt - lastRefill)
      /\ now' = now /\ lastRefill' = lastRefill
  BY DEF WakeUp
<1>4. TypeOK'
  BY <1>1, <1>2, <1>3 DEF TypeOK, Bucket
<1>5. Credit'
  <2>1. granted * Token + tokens <= Bucket + lastRefill + slept
    BY DEF RateInv, Credit
  <2>2. granted' * Token = granted * Token + Token /\ granted * Token \in Nat
    BY <1>1, <1>3, OneMore
  <2>3. granted' * Token + tokens' <= Bucket + lastRefill' + slept'
    BY <1>1, <1>2, <1>3, <2>1, <2>2
  <2> QED  BY <2>3 DEF Credit, Bucket
<1>6. SleepsFit'
  BY <1>1, <1>2, <1>3 DEF SleepsFit, Asleep
<1> QED  BY <1>4, <1>5, <1>6 DEF RateInv

LEMMA TickStep ==
  ASSUME RateInv, Tick
  PROVE  RateInv'
<1>1. /\ granted \in Nat /\ slept \in Nat /\ now \in Nat
      /\ lastRefill \in 0 .. now /\ slept <= now
  BY DEF RateInv, TypeOK, SleepsFit
<1>2. /\ now' = now + 1
      /\ UNCHANGED <<tokens, lastRefill, wakeAt, granted, slept>>
  BY DEF Tick
<1>3. TypeOK'
  BY <1>1, <1>2 DEF RateInv, TypeOK, Bucket
<1>4. Credit'
  BY <1>2 DEF RateInv, Credit, Bucket
<1>5. SleepsFit'
  BY <1>1, <1>2 DEF RateInv, SleepsFit, Asleep
<1> QED  BY <1>3, <1>4, <1>5 DEF RateInv

\* The invariant holds throughout.
THEOREM RateInvariance == Spec => []RateInv
<1>1. RateInv /\ [Next]_vars => RateInv'
  <2> SUFFICES ASSUME RateInv, [Next]_vars
               PROVE  RateInv'
    OBVIOUS
  <2>1. CASE UNCHANGED vars
    BY <2>1 DEF vars, RateInv, TypeOK, Credit, SleepsFit, Asleep, Bucket
  <2> QED  BY <2>1, AcquireStep, WaitForTokenStep, WakeUpStep, TickStep DEF Next
<1> QED  BY <1>1, InitRateInv, PTL DEF Spec

\* The bucket never holds more than its size, and time stamps are past.
THEOREM TypeCorrect == Spec => []TypeOK
BY RateInvariance, PTL DEF RateInv

\* rate_limiter.py lets through at most twice the configured rate in the long run.
THEOREM RateBound == Spec => []AtMostTwiceTheRate
<1>1. RateInv => AtMostTwiceTheRate
  <2> SUFFICES ASSUME RateInv
               PROVE  AtMostTwiceTheRate
    OBVIOUS
  <2>1. /\ granted \in Nat /\ slept \in Nat /\ Token \in Nat /\ now \in Nat
        /\ lastRefill \in 0 .. now /\ tokens \in 0 .. Bucket /\ Bucket \in Nat
        /\ slept <= now
        /\ granted * Token + tokens <= Bucket + lastRefill + slept
    BY RateAssumption, BucketType DEF RateInv, TypeOK, Credit, SleepsFit
  <2>2. granted * Token \in Nat
    BY <2>1, OneMore
  <2>3. granted * Token <= Bucket + 2 * now
    BY <2>1, <2>2
  <2> QED  BY <2>3 DEF AtMostTwiceTheRate
<1> QED  BY <1>1, RateInvariance, PTL

-----------------------------------------------------------------------------
(* Windows.                                                                *)

\* What a caller who sleeps has yet to wait.
Pending == IF Asleep /\ wakeAt > now THEN wakeAt - now ELSE 0

\* What could be granted at once if no sleep took time: the bucket as the next
\* refill leaves it, and for a caller who sleeps the token he gets, after which the
\* refill goes back to the beginning of his sleep.
Available ==
  IF Asleep
    THEN Token + (IF now - lastRefill < Bucket THEN now - lastRefill ELSE Bucket)
    ELSE Refilled

\* What was granted since the mark and what is available now has come from a full
\* bucket and the token of a sleeper at the mark, from the time since then, and
\* from the time of sleeps, which is prepaid when they begin.
WindowCredit ==
  (granted - mark.granted) * Token + Available
    <= Bucket + Token + 2 * (now - mark.at) + Pending

MarkType == mark \in [at : 0 .. now, granted : 0 .. granted]

WindowInv == RateInv /\ MarkType /\ WindowCredit

\* The types of all that the bounds mention.
LEMMA WindowTypes ==
  ASSUME RateInv, MarkType
  PROVE  /\ granted \in Nat /\ now \in Nat /\ tokens \in 0 .. Bucket
         /\ lastRefill \in 0 .. now /\ Token \in Nat \ {0} /\ Bucket \in Nat
         /\ Token <= Bucket
         /\ mark.at \in 0 .. now /\ mark.granted \in 0 .. granted
         /\ granted - mark.granted \in Nat
         /\ (granted - mark.granted) * Token \in Nat
<1>1. /\ granted \in Nat /\ now \in Nat /\ tokens \in 0 .. Bucket
      /\ lastRefill \in 0 .. now /\ Token \in Nat \ {0} /\ Bucket \in Nat
      /\ Token <= Bucket
  BY RateAssumption, BucketType DEF RateInv, TypeOK
<1>2. mark.at \in 0 .. now /\ mark.granted \in 0 .. granted
  BY DEF MarkType
<1>3. granted - mark.granted \in Nat
  BY <1>1, <1>2
<1>4. (granted - mark.granted) * Token \in Nat
  BY <1>1, <1>3, OneMore
<1> QED  BY <1>1, <1>2, <1>3, <1>4

\* A call that finds a token takes it from what is available.
LEMMA AcquireWindow ==
  ASSUME WindowInv, RateInv', Acquire, UNCHANGED mark
  PROVE  MarkType' /\ WindowCredit'
<1> DEFINE d == granted - mark.granted
<1>1. /\ granted \in Nat /\ now \in Nat /\ Token \in Nat \ {0} /\ Bucket \in Nat
      /\ mark.at \in 0 .. now /\ mark.granted \in 0 .. granted
      /\ d \in Nat /\ d * Token \in Nat
  BY WindowTypes DEF WindowInv
<1>2. /\ Refilled >= Token /\ Refilled \in 0 .. Bucket
      /\ tokens' = Refilled - Token /\ lastRefill' = now /\ granted' = granted + 1
      /\ now' = now /\ wakeAt' = wakeAt /\ mark' = mark /\ ~Asleep /\ ~Asleep'
  BY RefilledBounds DEF Acquire, WindowInv, RateInv, Asleep
<1>3. MarkType'
  BY <1>1, <1>2 DEF MarkType, WindowInv
<1>4. d' = d + 1 /\ d' * Token = d * Token + Token
  <2>1. d' = d + 1
    BY <1>1, <1>2
  <2> QED  BY <1>1, <2>1, OneMore
<1>5. Available = Refilled /\ Available' = Refilled - Token
  BY <1>1, <1>2 DEF Available, Refilled, Bucket
<1>6. Pending = 0 /\ Pending' = 0
  BY <1>2 DEF Pending
<1>7. d * Token + Available <= Bucket + Token + 2 * (now - mark.at) + Pending
  BY DEF WindowInv, WindowCredit
<1> HIDE DEF d
<1>8. d' * Token + Available' <= Bucket + Token + 2 * (now' - mark'.at) + Pending'
  BY <1>1, <1>2, <1>4, <1>5, <1>6, <1>7
<1> QED  BY <1>3, <1>8 DEF WindowCredit, d, Bucket

\* A call that has to sleep gets its token in advance, and so does the bound.
LEMMA WaitForTokenWindow ==
  ASSUME WindowInv, RateInv', WaitForToken, UNCHANGED mark
  PROVE  MarkType' /\ WindowCredit'
<1> DEFINE d == granted - mark.granted
<1>1. /\ granted \in Nat /\ now \in Nat /\ Token \in Nat \ {0} /\ Bucket \in Nat
      /\ Token <= Bucket
      /\ mark.at \in 0 .. now /\ mark.granted \in 0 .. granted
      /\ d \in Nat /\ d * Token \in Nat
  BY WindowTypes DEF WindowInv
<1>2. /\ Refilled < Token /\ Refilled \in 0 .. Bucket
      /\ lastRefill' = now /\ granted' = granted
      /\ wakeAt' = now + (Token - Refilled)
      /\ now' = now /\ mark' = mark /\ ~Asleep
  BY RefilledBounds DEF WaitForToken, WindowInv, RateInv
<1>3. MarkType'
  BY <1>2 DEF MarkType, WindowInv
<1>4. Asleep'
  BY <1>1, <1>2 DEF Asleep
<1>5. Available = Refilled /\ Available' = Token
  BY <1>1, <1>2, <1>4 DEF Available, Bucket
<1>6. Pending = 0 /\ Pending' = Token - Refilled
  BY <1>1, <1>2, <1>4 DEF Pending
<1>7. d * Token + Available <= Bucket + Token + 2 * (now - mark.at) + Pending
  BY DEF WindowInv, WindowCredit
<1>8. d' = d
  BY <1>2
<1> HIDE DEF d
<1>9. d' * Token + Available' <= Bucket + Token + 2 * (now' - mark'.at) + Pending'
  BY <1>1, <1>2, <1>5, <1>6, <1>7, <1>8
<1> QED  BY <1>3, <1>9 DEF WindowCredit, d, Bucket

\* The sleeper takes the token that was set aside for him.
LEMMA WakeUpWindow ==
  ASSUME WindowInv, RateInv', WakeUp, UNCHANGED mark
  PROVE  MarkType' /\ WindowCredit'
<1> DEFINE d == granted - mark.granted
           since == IF now - lastRefill < Bucket THEN now - lastRefill ELSE Bucket
<1>1. /\ granted \in Nat /\ now \in Nat /\ Token \in Nat \ {0} /\ Bucket \in Nat
      /\ lastRefill \in 0 .. now
      /\ mark.at \in 0 .. now /\ mark.granted \in 0 .. granted
      /\ d \in Nat /\ d * Token \in Nat
  BY WindowTypes DEF WindowInv
<1>2. /\ Asleep /\ now >= wakeAt /\ tokens' = 0 /\ wakeAt' = -1
      /\ granted' = granted + 1
      /\ now' = now /\ lastRefill' = lastRefill /\ mark' = mark
  BY DEF WakeUp
<1>3. MarkType'
  BY <1>1, <1>2 DEF MarkType, WindowInv
<1>4. d' = d + 1 /\ d' * Token = d * Token + Token
  <2>1. d' = d + 1
    BY <1>1, <1>2
  <2> QED  BY <1>1, <2>1, OneMore
<1>5. Available = Token + since /\ Available' = since
  BY <1>1, <1>2 DEF Available, Refilled, Bucket, Asleep
<1>6. Pending = 0 /\ Pending' = 0
  <2>1. wakeAt \in Int
    BY DEF WindowInv, RateInv, TypeOK
  <2> QED  BY <1>1, <1>2, <2>1 DEF Pending, Asleep
<1>7. d * Token + Available <= Bucket + Token + 2 * (now - mark.at) + Pending
  BY DEF WindowInv, WindowCredit
<1>8. since \in Nat
  BY <1>1
<1> HIDE DEF d, since
<1>9. d' * Token + Available' <= Bucket + Token + 2 * (now' - mark'.at) + Pending'
  BY <1>1, <1>2, <1>4, <1>5, <1>6, <1>7, <1>8
<1> QED  BY <1>3, <1>9 DEF WindowCredit, d, Bucket

\* The arithmetic of an instant.
LEMMA InstantLater ==
  ASSUME NEW calls \in Int, NEW room \in Int, NEW time \in Int,
         NEW a \in Int, NEW b \in Int, b <= a + 1,
         NEW p \in Int, NEW q \in Int, p <= q + 1,
         calls + a <= room + 2 * time + p
  PROVE  calls + b <= room + 2 * (time + 1) + q
OBVIOUS

\* An instant adds at most one unit to what is available and takes at most one
\* from what is pending.
LEMMA TickWindow ==
  ASSUME WindowInv, RateInv', Tick, UNCHANGED mark
  PROVE  MarkType' /\ WindowCredit'
<1> DEFINE d == granted - mark.granted
<1>1. /\ granted \in Nat /\ now \in Nat /\ Token \in Nat \ {0} /\ Bucket \in Nat
      /\ lastRefill \in 0 .. now /\ tokens \in 0 .. Bucket
      /\ mark.at \in 0 .. now /\ mark.granted \in 0 .. granted
      /\ d \in Nat /\ d * Token \in Nat
  BY WindowTypes DEF WindowInv
<1>2. /\ now' = now + 1 /\ tokens' = tokens /\ lastRefill' = lastRefill
      /\ wakeAt' = wakeAt /\ granted' = granted /\ mark' = mark
      /\ wakeAt \in Int
  BY DEF Tick, WindowInv, RateInv, TypeOK
<1>3. MarkType'
  BY <1>1, <1>2 DEF MarkType, WindowInv
<1>4. /\ Available \in Int /\ Available' \in Int
      /\ Available' <= Available + 1
  BY <1>1, <1>2 DEF Available, Refilled, Asleep, Bucket
<1>5. /\ Pending \in Int /\ Pending' \in Int
      /\ Pending <= Pending' + 1
  BY <1>1, <1>2 DEF Pending, Asleep
<1>6. d * Token + Available <= Bucket + Token + 2 * (now - mark.at) + Pending
  BY DEF WindowInv, WindowCredit
<1>7. d' * Token = d * Token /\ now' - mark'.at = now - mark.at + 1
  <2>1. d' = d
    BY <1>2
  <2>2. now' - mark'.at = now - mark.at + 1
    BY <1>1, <1>2
  <2> QED  BY <2>1, <2>2
<1>8. d' * Token + Available' <= Bucket + Token + 2 * (now' - mark'.at) + Pending'
  <2>1. d * Token \in Int /\ Bucket + Token \in Int /\ now - mark.at \in Int
    BY <1>1
  <2>2. d * Token + Available' <= Bucket + Token + 2 * (now - mark.at + 1) + Pending'
    BY <1>4, <1>5, <1>6, <2>1, InstantLater
  <2> QED  BY <1>7, <2>2
<1> QED  BY <1>3, <1>8 DEF WindowCredit, Bucket

\* Whenever the observer starts, there is a full bucket to come at most, and the
\* token of a sleeper.
LEMMA ObserveWindow ==
  ASSUME RateInv, RateInv', mark' = [at |-> now, granted |-> granted], UNCHANGED vars
  PROVE  MarkType' /\ WindowCredit'
<1>1. /\ granted \in Nat /\ now \in Nat /\ Token \in Nat \ {0} /\ Bucket \in Nat
      /\ lastRefill \in 0 .. now
      /\ wakeAt \in Int
  BY RateAssumption, BucketType DEF RateInv, TypeOK
<1>2. /\ now' = now /\ granted' = granted /\ wakeAt' = wakeAt
      /\ lastRefill' = lastRefill /\ tokens' = tokens
  BY DEF vars
<1>3. MarkType'
  BY <1>1, <1>2 DEF MarkType
<1>4. Available \in Int /\ Available <= Bucket + Token
  <2>1. Refilled \in 0 .. Bucket
    BY RefilledBounds DEF RateInv
  <2> QED  BY <1>1, <2>1 DEF Available
<1>5. Pending \in Nat
  BY <1>1 DEF Pending
<1>6. Available' = Available /\ Pending' = Pending
  BY <1>2 DEF Available, Pending, Refilled, Asleep, Bucket
<1>7. (granted' - mark'.granted) * Token = 0 /\ now' - mark'.at = 0
  <2>1. granted' - mark'.granted = 0 /\ now' - mark'.at = 0
    BY <1>1, <1>2
  <2> QED  BY <1>1, <2>1
<1>8. (granted' - mark'.granted) * Token + Available'
        <= Bucket + Token + 2 * (now' - mark'.at) + Pending'
  BY <1>1, <1>4, <1>5, <1>6, <1>7
<1> QED  BY <1>3, <1>8 DEF WindowCredit, Bucket

LEMMA InitWindowInv == WindowInit => WindowInv
<1> SUFFICES ASSUME WindowInit
             PROVE  WindowInv
  OBVIOUS
<1>1. RateInv
  BY InitRateInv DEF WindowInit
<1>2. /\ now = 0 /\ granted = 0 /\ mark = [at |-> 0, granted |-> 0] /\ ~Asleep
      /\ Bucket \in Nat /\ Token \in Nat
  BY BucketType, RateAssumption DEF Init, WindowInit, Asleep
<1>3. MarkType
  BY <1>2 DEF MarkType
<1>4. Available \in 0 .. Bucket /\ Pending = 0
  BY <1>1, <1>2, RefilledBounds DEF Available, Pending, RateInv
<1>5. (granted - mark.granted) * Token = 0 /\ now - mark.at = 0
  BY <1>2
<1> QED  BY <1>1, <1>2, <1>3, <1>4, <1>5 DEF WindowInv, WindowCredit

\* A step of the limiter with an observer is one of the limiter.
LEMMA RateInvWindow == RateInv /\ [WindowNext]_<<vars, mark>> => RateInv'
<1> SUFFICES ASSUME RateInv, [WindowNext]_<<vars, mark>>
             PROVE  RateInv'
  OBVIOUS
<1>1. CASE UNCHANGED vars
  BY <1>1 DEF vars, RateInv, TypeOK, Credit, SleepsFit, Asleep, Bucket
<1> QED  BY <1>1, AcquireStep, WaitForTokenStep, WakeUpStep, TickStep
         DEF WindowNext, Next, Observe

LEMMA NextWindowInv == WindowInv /\ [WindowNext]_<<vars, mark>> => WindowInv'
<1> SUFFICES ASSUME WindowInv, [WindowNext]_<<vars, mark>>
             PROVE  WindowInv'
  OBVIOUS
<1>1. RateInv /\ RateInv'
  BY RateInvWindow DEF WindowInv
<1>2. CASE Next /\ UNCHANGED mark
  BY <1>1, <1>2, AcquireWindow, WaitForTokenWindow, WakeUpWindow, TickWindow
     DEF Next, WindowInv
<1>3. CASE Observe
  BY <1>1, <1>3, ObserveWindow DEF Observe, WindowInv
<1>4. CASE UNCHANGED <<vars, mark>>
  BY <1>1, <1>4 DEF vars, WindowInv, MarkType, WindowCredit, Available, Pending,
                    Refilled, Asleep, Bucket
<1> QED  BY <1>2, <1>3, <1>4 DEF WindowNext

\* rate_limiter.py lets through at most a bucket, one token and twice the inflow in
\* every window of time, whenever it starts and whatever happened before.
THEOREM WindowBound == WindowSpec => []WindowedRate
<1>1. WindowInv => WindowedRate
  <2> SUFFICES ASSUME WindowInv
               PROVE  WindowedRate
    OBVIOUS
  <2>1. /\ granted \in Nat /\ now \in Nat /\ tokens \in 0 .. Bucket
        /\ lastRefill \in 0 .. now /\ Token \in Nat \ {0} /\ Bucket \in Nat
        /\ mark.at \in 0 .. now
        /\ (granted - mark.granted) * Token \in Nat
    BY WindowTypes DEF WindowInv
  <2>2. Available \in Int /\ Pending \in Int /\ Pending <= Available
    <3>1. CASE Asleep
      <4>1. wakeAt = lastRefill + (Token - tokens)
        BY <3>1 DEF WindowInv, RateInv, SleepsFit
      <4> QED  BY <2>1, <3>1, <4>1 DEF Available, Pending
    <3>2. CASE ~Asleep
      BY <2>1, <3>2, RefilledBounds DEF Available, Pending, WindowInv, RateInv
    <3> QED  BY <3>1, <3>2
  <2>3. (granted - mark.granted) * Token + Available
          <= Bucket + Token + 2 * (now - mark.at) + Pending
    BY DEF WindowInv, WindowCredit
  <2>4. (granted - mark.granted) * Token <= Bucket + Token + 2 * (now - mark.at)
    BY <2>1, <2>2, <2>3
  <2> QED  BY <2>4 DEF WindowedRate
<1> QED  BY <1>1, InitWindowInv, NextWindowInv, PTL DEF WindowSpec

=============================================================================
