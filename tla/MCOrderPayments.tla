---------------------------- MODULE MCOrderPayments ----------------------------
(* Instances of OrderPayments for TLC. *)
EXTENDS OrderPayments, TLC

\* A webhook job's statements may fail, except those that load or mark its row.
WithinTry == RunSteps \ {"load", "mark", "catch"}

\* Either two customers' requests, or one and the dashboard's.
Begun == {i \in Intents : intent[i].pc # "idle"}
TwoCustomersOrDashboard ==
  Cardinality(Begun) > 1 => \A d \in Requests : request[d].pc = "idle"

BoundedSpec == Init /\ [][Next /\ TwoCustomersOrDashboard']_vars

\* Customers are interchangeable, and so are events and dashboard requests.
\* (Init gives an event that has not arrived some payment; nothing reads it.)
Symmetry ==
  Permutations(Intents) \cup Permutations(Events) \cup Permutations(Requests)
===============================================================================
