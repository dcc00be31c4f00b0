-------------------------- MODULE MCCommerceOrders --------------------------
(***************************************************************************)
(* Instances of CommerceOrders for TLC.                                    *)
(***************************************************************************)
EXTENDS CommerceOrders, TLC

CONSTANTS o1, o2, s1, s2

SessionSymmetry == Permutations(Sessions)
=============================================================================
