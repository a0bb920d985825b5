------------------------------- MODULE EventQueue -------------------------------
(***************************************************************************)
(* What the webhook endpoint promises the worker behind it: an event's row *)
(* is stored once and stays, and its one job is queued when the row is     *)
(* there, be it in the same step.  WebhookIntake implements it under       *)
(* deliveries that repeat and overlap, and OrderPayments, which begins     *)
(* where the job is queued, takes no more than this from it.               *)
(***************************************************************************)
EXTENDS Naturals

CONSTANT Events

VARIABLES
  stored,  \* events that have a row
  jobs     \* number of jobs queued for each event

vars == <<stored, jobs>>

Init ==
  /\ stored = {}
  /\ jobs = [e \in Events |-> 0]

Store(e) ==
  /\ e \notin stored
  /\ stored' = stored \cup {e}
  /\ UNCHANGED jobs

Queue(e) ==
  /\ jobs[e] = 0
  /\ stored' \in {stored, stored \cup {e}} /\ e \in stored'
  /\ jobs' = [jobs EXCEPT ![e] = 1]

Next == \E e \in Events : Store(e) \/ Queue(e)

Spec == Init /\ [][Next]_vars
===============================================================================
