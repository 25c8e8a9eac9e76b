-------------------------- MODULE LoadBalancerJobs -------------------------
(***************************************************************************)
(* LoadBalancer, seen from the queue: it uses jobs the way JobPool says,    *)
(* which is what TaskQueue provides.                                        *)
(***************************************************************************)
EXTENDS LoadBalancer

Stage(r) ==
  CASE req[r].pc \in {"pushing", "queued"} -> req[r].pc
    [] req[r].pc \in {"running", "answered"} -> "running"
    [] OTHER -> "none"

InPush(r) ==
  \/ req[r].pc = "posting"
  \/ (req[r].pc = "pushing" \/ InFlight(r)) /\ req[r].posting

Pool == INSTANCE JobPool WITH
  Job <- Req,
  Workers <- Max({NumServers, 2}),
  stage <- [r \in Req |-> Stage(r)],
  posting <- {r \in Req : InPush(r)}

\* Whatever the load balancer does with its tables, a dispatched request makes one
\* job, which enters the queue once, leaves it once and has one worker; a request
\* slot is not used again before both job and submitter are done.
ImplementsJobPool == Pool!Spec

=============================================================================
