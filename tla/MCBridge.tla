------------------------------ MODULE MCBridge ------------------------------
(* Instances of Bridge for TLC: all tasks have one checkout.                 *)
EXTENDS Bridge, TLC

CONSTANTS t1, t2, w1, w2, s1, s2, c1, c2, checkout1

\* No definition tells one submitter from another.
Symmetric == Permutations(Submitters)

OneCheckout == [t \in Tasks |-> checkout1]
=============================================================================
