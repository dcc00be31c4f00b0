--------------------------- MODULE MCOrderCreation ---------------------------
(***************************************************************************)
(* An instance of OrderCreation for TLC.                                   *)
(***************************************************************************)
EXTENDS OrderCreation

CONSTANTS r1, r2, r3, k1, k2
=============================================================================
