------------------------------- MODULE Warehouse -------------------------------
(***************************************************************************)
(* What the stock of a store promises: an order reserves no more than is   *)
(* free, holds exactly what left the shelf for it, and gives exactly that  *)
(* back, at most once. Checkout implements it as long as its requests do   *)
(* not overlap and no product is sold in variants.                         *)
(***************************************************************************)
EXTENDS Integers

CONSTANTS
  Products,
  Orders,
  Counts     \* what the store may find when it counts a product by hand

VARIABLES
  free,   \* quantity of each product that no order holds
  claim   \* quantity of each product that each order holds

vars == <<free, claim>>

Nothing == [p \in Products |-> 0]

\* The store starts with any stock and no order.
Init ==
  /\ \A p \in Products : free[p] >= 0
  /\ \A o \in Orders : claim[o] = Nothing

OthersKeepClaims(o) == \A q \in Orders \ {o} : claim'[q] = claim[q]

Reserve(o) ==
  /\ claim[o] = Nothing
  /\ \A p \in Products : claim'[o][p] \in 0..free[p]
  /\ \A p \in Products : free'[p] = free[p] - claim'[o][p]
  /\ OthersKeepClaims(o)

Release(o) ==
  /\ claim'[o] = Nothing
  /\ \A p \in Products : free'[p] = free[p] + claim[o][p]
  /\ OthersKeepClaims(o)

\* The store counts its shelf anew.
Recount(p) ==
  /\ free'[p] \in Counts
  /\ \A q \in Products \ {p} : free'[q] = free[q]
  /\ UNCHANGED claim

Next ==
  \/ \E o \in Orders : Reserve(o) \/ Release(o)
  \/ \E p \in Products : Recount(p)

Spec == Init /\ [][Next]_vars
===============================================================================
