--------------------------- MODULE MCLoadBalancer --------------------------
(***************************************************************************)
(* LoadBalancer for TLC.                                                    *)
(***************************************************************************)
EXTENDS LoadBalancerJobs, KeyRecency

\* Hashes and request slots are interchangeable in the safety runs.
HashAndReqSymmetry == Permutations(Hash) \cup Permutations(Req)

=============================================================================
