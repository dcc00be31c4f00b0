--------------------------- MODULE MCTravelOrders ---------------------------
(* One order and two sessions: every pair of unlocked handlers overlaps,    *)
(* with cancellation between their load and their commit.                  *)
EXTENDS TravelOrders, TLC

CONSTANTS s1, s2, o1

Symmetry == Permutations({s1, s2})
=============================================================================
