------------------------------- MODULE RetriedJobs -------------------------------
(***************************************************************************)
(* What the queue's policy promises of a job (packages/queue: attempts and *)
(* the default job options): once added it is taken, and taken again after *)
(* each failure, until it succeeds or has failed MaxTries times.  A job    *)
(* that has ended is not taken again.  OrderPayments' webhook jobs and     *)
(* Notifications' mail jobs implement it, time-outs and crashes included.  *)
(***************************************************************************)
EXTENDS Naturals

CONSTANTS
  Jobs,
  MaxTries

VARIABLES
  state,     \* of each job
  failures   \* how often it has failed

vars == <<state, failures>>

Init ==
  /\ state = [j \in Jobs |-> "none"]
  /\ failures = [j \in Jobs |-> 0]

Goes(j, from, to) ==
  /\ state[j] = from
  /\ state' = [state EXCEPT ![j] = to]

Add(j) == Goes(j, "none", "waiting") /\ UNCHANGED failures

Take(j) == Goes(j, "waiting", "active") /\ UNCHANGED failures

Succeed(j) == Goes(j, "active", "completed") /\ UNCHANGED failures

Fail(j) ==
  /\ Goes(j, "active", IF failures[j] + 1 < MaxTries THEN "waiting" ELSE "failed")
  /\ failures' = [failures EXCEPT ![j] = @ + 1]

Next == \E j \in Jobs : Add(j) \/ Take(j) \/ Succeed(j) \/ Fail(j)

Spec == Init /\ [][Next]_vars

-------------------------------------------------------------------------------
\* A job is given up after exactly MaxTries failures, and no earlier.
GivenUpAtTheLimit ==
  \A j \in Jobs :
    /\ failures[j] \in 0..MaxTries
    /\ state[j] = "failed" <=> failures[j] = MaxTries
===============================================================================
