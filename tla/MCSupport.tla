------------------------------ MODULE MCSupport ------------------------------
(* One socket of the user, one of the merchant, and one reader: two         *)
(* handlers race for the administrator's counter and for the presence      *)
(* flags of the row.                                                       *)
EXTENDS Support, TLC

CONSTANTS u1, m1, q1

Role == (u1 :> "user") @@ (m1 :> "merchant")
=============================================================================
