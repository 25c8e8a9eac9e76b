--------------------------- MODULE MCRateLimiter ---------------------------
(***************************************************************************)
(* RateWindow, and with it RateLimiter, for TLC: time stops at MaxTime.     *)
(***************************************************************************)
EXTENDS RateWindow

CONSTANT MaxTime  \* bound on now, in instants

BoundedNext ==
  \/ WindowNext /\ now' <= MaxTime
  \/ now = MaxTime /\ UNCHANGED <<vars, mark>>

BoundedSpec == WindowInit /\ [][BoundedNext]_<<vars, mark>>

=============================================================================
