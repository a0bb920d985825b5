------------------------------ MODULE MCCheckout ------------------------------
(* Instances of Checkout for TLC. *)
EXTENDS Checkout, TLC

CONSTANTS
  p1, p2,           \* products
  red, blue, mug    \* two variants of p1, and p2 sold as it is

\* One product in one variant.
RedParent == [s \in {red} |-> p1]

\* One product in two variants.
ShirtParent == [s \in {red, blue} |-> p1]

\* Two products sold as they are.
PlainParent == [s \in {red, mug} |-> IF s = red THEN p1 ELSE p2]

\* One product sold as it is.
MugParent == [s \in {mug} |-> p2]

CallSymmetry == Permutations(Calls)
CallAndCartSymmetry == Permutations(Calls) \cup Permutations(Carts)
===============================================================================
