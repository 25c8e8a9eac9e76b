---------------------------- MODULE QuotaLedger -----------------------------
(***************************************************************************)
(* What the admission of requests promises about one account: a request is  *)
(* charged in one step, at most once and within the limit that holds at     *)
(* that moment; it gets in on its own charge, or freely when the account    *)
(* has no limit; and a charge that lets nobody in is counted as lost.       *)
(* Nothing is said of the commands, reads and locks it takes: Admission     *)
(* implements this module.                                                  *)
(***************************************************************************)
EXTENDS Integers, FiniteSets

CONSTANTS
  Req,        \* slots for requests in progress
  Status,     \* states of an account
  Totals,     \* limits given to the account
  Unlimited,  \* a limit that stands for none
  NoTotal     \* another one, which no charge satisfies

VARIABLES
  row,    \* the account: its status, its limit and the requests used
  stage,  \* per slot: where its request is
  paid,   \* charges that have let a request in
  lost    \* charges that have let nobody in

vars == <<row, stage, paid, lost>>

Init ==
  /\ row \in [status : {"active"}, total : Totals, used : {0}]
  /\ stage = [r \in Req |-> "out"]
  /\ paid = 0
  /\ lost = 0

Free == row.total \in {Unlimited, NoTotal}

Deleted == row.status = "deleted"

HasQuota ==
  /\ ~Deleted
  /\ row.total = Unlimited \/ (row.total # NoTotal /\ row.used < row.total)

Move(r, from, to) ==
  /\ stage[r] \in from
  /\ stage' = [stage EXCEPT ![r] = to]

CountUse == row' = [row EXCEPT !.used = @ + 1]

\* A request of an active account, which is seen to have a limit or none.
Authenticate(r) ==
  /\ Move(r, {"out"}, IF Free THEN "unlimited" ELSE "limited")
  /\ row.status = "active"
  /\ UNCHANGED <<row, paid, lost>>

\* It gets in freely: there is no limit, or the account has been deleted and there
\* was none before.
LetInFree(r) ==
  /\ Move(r, {"unlimited", "limited"}, "in")
  /\ IF Deleted THEN stage[r] = "unlimited" ELSE Free
  /\ UNCHANGED <<row, paid, lost>>

\* It has to be charged, which concerns the same limit.
Owe(r) ==
  /\ Move(r, {"unlimited", "limited"}, "due")
  /\ IF Deleted THEN stage[r] = "limited" ELSE ~Free
  /\ UNCHANGED <<row, paid, lost>>

\* The charge, of which the request learns.
Charge(r) ==
  /\ Move(r, {"due"}, "charged")
  /\ HasQuota
  /\ CountUse
  /\ UNCHANGED <<paid, lost>>

\* The charge, of which it does not learn.
ChargeInVain(r) ==
  /\ Move(r, {"due"}, "out")
  /\ HasQuota
  /\ CountUse
  /\ lost' = lost + 1
  /\ UNCHANGED paid

LetIn(r) ==
  /\ Move(r, {"charged"}, "in")
  /\ paid' = paid + 1
  /\ UNCHANGED <<row, lost>>

Refuse(r) ==
  /\ Move(r, {"unlimited", "limited", "due"}, "out")
  /\ UNCHANGED <<row, paid, lost>>

RefuseCharged(r) ==
  /\ Move(r, {"charged"}, "out")
  /\ lost' = lost + 1
  /\ UNCHANGED <<row, paid>>

Leave(r) ==
  /\ Move(r, {"in"}, "out")
  /\ UNCHANGED <<row, paid, lost>>

\* Every step of a request takes it somewhere else.
Step(r) ==
  /\ stage'[r] # stage[r]
  /\ \/ Authenticate(r) \/ LetInFree(r) \/ Owe(r)
     \/ Charge(r) \/ ChargeInVain(r) \/ LetIn(r)
     \/ Refuse(r) \/ RefuseCharged(r) \/ Leave(r)

\* Something about the account is changed.
Edit ==
  /\ row' # row
  /\ ~Deleted
  /\ row' \in [status : Status, total : Totals, used : {row.used}]
  /\ UNCHANGED <<stage, paid, lost>>

\* All requests are gone and their charges lost, perhaps with one that was about to
\* be made.
Crash ==
  LET charged == Cardinality({r \in Req : stage[r] = "charged"}) IN
  /\ stage' = [r \in Req |-> "out"]
  /\ \/ UNCHANGED row /\ lost' = lost + charged
     \/ /\ HasQuota /\ \E r \in Req : stage[r] = "due"
        /\ CountUse
        /\ lost' = lost + charged + 1
  /\ UNCHANGED paid

Next ==
  \/ \E r \in Req : Step(r)
  \/ Edit
  \/ Crash

Spec == Init /\ [][Next]_vars

=============================================================================
