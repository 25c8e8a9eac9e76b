----------------------------- MODULE RateWindow -----------------------------
(***************************************************************************)
(* RateLimiter with an observer, who starts to count at any moment he likes *)
(* and may start again.  What has been granted since is what the bucket lets *)
(* through in a window of time: the bound from the start of the process     *)
(* says nothing of the bursts that come later.                              *)
(***************************************************************************)
EXTENDS RateLimiter

VARIABLE mark  \* when the observer started, and what had been granted by then

WindowInit ==
  /\ Init
  /\ mark = [at |-> now, granted |-> granted]

\* The observer starts (again).
Observe ==
  /\ mark' = [at |-> now, granted |-> granted]
  /\ UNCHANGED vars

WindowNext ==
  \/ Next /\ UNCHANGED mark
  \/ Observe

WindowSpec == WindowInit /\ [][WindowNext]_<<vars, mark>>

-----------------------------------------------------------------------------
(* Properties.                                                             *)

\* In every window of time acquire returns at most for one full bucket, for the
\* token of a caller who was already asleep, and for twice the tokens that flow in
\* during the window (rate_limiter.py:32,42): however long nobody called before,
\* credit beyond the bucket is not saved up.
WindowedRate ==
  (granted - mark.granted) * Token <= Bucket + Token + 2 * (now - mark.at)

=============================================================================
