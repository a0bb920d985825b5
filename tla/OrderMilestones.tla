---------------------------- MODULE OrderMilestones ----------------------------
(***************************************************************************)
(* What an order promises to whoever reads its history: milestones are     *)
(* reached one at a time, each after the ones it presupposes, and never    *)
(* taken back. OrderPayments implements it, although there the order's     *)
(* status itself may move backwards.                                       *)
(***************************************************************************)

Milestones == {"paid", "approvedAt", "shippedAt", "deliveredAt", "refundedAt", "canceledAt"}

Presupposes ==
  [paid        |-> {},
   approvedAt  |-> {"paid"},
   shippedAt   |-> {"approvedAt"},
   deliveredAt |-> {"shippedAt"},
   refundedAt  |-> {"approvedAt"},
   canceledAt  |-> {}]

VARIABLE reached

Init == reached = {}

Reach(m) ==
  /\ Presupposes[m] \subseteq reached
  /\ reached' = reached \cup {m}

Next == \E m \in Milestones : Reach(m)

Spec == Init /\ [][Next]_reached
===============================================================================
